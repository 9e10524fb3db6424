------------------------------ MODULE BfdRoute ------------------------------
(***************************************************************************)
(* What staticroutebfd promises for the static routes: when a route may    *)
(* appear in the APPL_DB, through which next hops, and when it may leave.  *)
(* Each route takes a step of its own or none, whatever the others do.     *)
(* StaticRouteBfd, with the tables and notifications of the daemon,        *)
(* implements this specification.                                          *)
(***************************************************************************)
CONSTANTS Routes, NextHops

VARIABLES
  mode,  \* "off": not BFD-enabled, or the daemon is down; "wait": no next
         \* hop is reachable; "hold": the same, and the route is kept; "on"
  reach, \* next hops of the route that are reachable
  shown  \* next hops of the route in the APPL_DB

vars == <<mode, reach, shown>>

Init ==
  /\ mode = [p \in Routes |-> "off"]
  /\ reach = [p \in Routes |-> {}] /\ shown = [p \in Routes |-> {}]

Settle(p) == mode'[p] = IF reach'[p] = {} THEN "wait" ELSE "on"

\* The route becomes BFD-enabled.  It is shown through what is reachable; if
\* nothing is, it is left as it was, or shown in full and put on hold.
Enable(p) ==
  /\ mode[p] = "off"
  /\ \/ mode'[p] = "wait" /\ reach'[p] = {} /\ shown'[p] = shown[p]
     \/ mode'[p] = "hold" /\ reach'[p] = {} /\ shown'[p] # {}
     \/ mode'[p] = "on" /\ reach'[p] # {} /\ shown'[p] = reach'[p]

\* The next hops of the row are replaced.  Without one that is known to be up
\* nothing new is shown; no route is put on hold again.
Change(p) ==
  /\ mode[p] # "off"
  /\ Settle(p)
  /\ \/ reach'[p] # {} /\ shown'[p] = reach'[p]
     \/ reach'[p] \subseteq reach[p] /\ shown'[p] = shown[p]

Reached(p) ==
  \E k \in NextHops \ reach[p] :
    /\ mode[p] # "off" /\ mode'[p] = "on"
    /\ reach'[p] = reach[p] \cup {k} /\ shown'[p] = reach'[p]

\* A route on hold that loses its session row is withdrawn and stays on hold.
Lost(p) ==
  \E k \in NextHops :
    /\ mode[p] # "off"
    /\ reach'[p] = reach[p] \ {k} /\ shown'[p] = reach'[p]
    /\ IF mode[p] = "hold" THEN mode'[p] = "hold" ELSE Settle(p)

\* The route is deleted or no longer BFD-enabled, or the daemon ends.
Disable(p) ==
  mode'[p] = "off" /\ reach'[p] = {} /\ shown'[p] \in {shown[p], {}}

\* A row whose lists do not match is shown in full and not taken over.
Refuse(p) ==
  /\ mode[p] = "off" /\ shown'[p] # {}
  /\ mode'[p] = mode[p] /\ reach'[p] = reach[p]

Same(p) ==
  mode'[p] = mode[p] /\ reach'[p] = reach[p] /\ shown'[p] = shown[p]

Step(p) ==
  \/ Same(p) \/ Enable(p) \/ Change(p) \/ Reached(p) \/ Lost(p)
  \/ Disable(p) \/ Refuse(p)

Next ==
  /\ mode' \in [Routes -> {"off", "wait", "hold", "on"}]
  /\ \A p \in Routes : Step(p)

Spec == Init /\ [][Next]_vars
=============================================================================
