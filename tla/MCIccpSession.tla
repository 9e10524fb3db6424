--------------------------- MODULE MCIccpSession ---------------------------
EXTENDS IccpSession, TLC
Symmetry == Permutations(Conn)
=============================================================================
