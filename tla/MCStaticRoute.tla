---------------------------- MODULE MCStaticRoute ----------------------------
(***************************************************************************)
(* Two routes that share next hop a.  The row of p1 takes every kind and   *)
(* loses and regains a; the session of b never leaves its first state.     *)
(***************************************************************************)
EXTENDS StaticRouteBfd, TLC

CONSTANTS p1, p2, a, b, i1

Through(ks) == [k \in NextHops |-> IF k \in ks THEN i1 ELSE None]

MCRows ==
  p1 :> {[kind |-> "bfd", nhs |-> Through({a, b})],
         [kind |-> "bfd", nhs |-> Through({b})],
         [kind |-> "plain", nhs |-> Through({a, b})],
         [kind |-> "unmatched", nhs |-> Through({a, b})],
         [kind |-> "device", nhs |-> NoPaths]}
  @@ p2 :> {[kind |-> "bfd", nhs |-> Through({a})]}

MCStates == a :> {"DOWN", "UP"} @@ b :> {}
=============================================================================
