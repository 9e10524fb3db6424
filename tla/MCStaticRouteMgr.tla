-------------------------- MODULE MCStaticRouteMgr --------------------------
(***************************************************************************)
(* One route with two next hops whose bfd flag is set and cleared.         *)
(***************************************************************************)
EXTENDS StaticRouteMgr, TLC

CONSTANTS p1, a, b, i1

MCPaths == [k \in NextHops |-> i1]

MCRows == p1 :> {[kind |-> "bfd", nhs |-> MCPaths],
                 [kind |-> "plain", nhs |-> MCPaths]}

MCStates == [k \in NextHops |-> {"DOWN", "UP"}]
=============================================================================
