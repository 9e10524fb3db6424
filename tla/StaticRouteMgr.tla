--------------------------- MODULE StaticRouteMgr ---------------------------
(***************************************************************************)
(* bgpcfgd's StaticRouteMgr, once for STATIC_ROUTE of the CONFIG_DB and    *)
(* once for that of the APPL_DB, beside staticroutebfd: each instance      *)
(* turns the rows of its table into FRR commands by the difference to its  *)
(* own cache, and both write the same FRR routes.                          *)
(*                                                                         *)
(* A path is a next hop with its interface, Device the path of a row that  *)
(* names interfaces only.  The operator is taken to wait, between two      *)
(* changes of the routes, until nothing is left to handle.  Left out: the  *)
(* route tags, the redistribution of static routes into BGP, and FRR       *)
(* commands that fail.                                                     *)
(***************************************************************************)
EXTENDS StaticRouteBfd

VARIABLES
  cfgQ,      \* notifications of the CONFIG_DB instance
  applQ,     \* and of the APPL_DB instance
  cfgCache,  \* static_routes of the CONFIG_DB instance
  applCache, \* and of the APPL_DB instance
  frr        \* static routes configured in FRR

managers == <<cfgQ, applQ, cfgCache, applCache, frr>>
allvars  == <<vars, managers>>

Device       == <<None, None>>
PathsOf(nhs) == {<<k, nhs[k]>> : k \in {k \in NextHops : nhs[k] # None}}
RowPaths(r)  == IF r.kind = "device" THEN {Device} ELSE PathsOf(r.nhs)

MgrInit ==
  /\ Init
  /\ cfgQ = [p \in Prefixes |-> <<>>] /\ applQ = [p \in Prefixes |-> <<>>]
  /\ cfgCache = [p \in Prefixes |-> {}] /\ applCache = [p \in Prefixes |-> {}]
  /\ frr = [p \in Prefixes |-> {}]

\* The notifications for bgpcfgd that a step of the others causes.
Told(q, old, new, none) ==
  [p \in Prefixes |->
     IF new[p] = old[p] THEN q[p]
     ELSE Post(q[p], IF new[p] = none THEN "DEL" ELSE "SET")]

\* Nothing is left to handle, in staticroutebfd and in bgpcfgd.
AllAtRest ==
  AtRest /\ \A p \in Prefixes : cfgQ[p] = <<>> /\ applQ[p] = <<>>

Others ==
  /\ Next
  /\ route' # route => AllAtRest
  /\ cfgQ' = Told(cfgQ, route, route', NoRow)
  /\ applQ' = Told(applQ, appl, appl', NoPaths)
  /\ \A p \in Prefixes : Len(cfgQ'[p]) <= MaxPending /\ Len(applQ'[p]) <= MaxPending
  /\ UNCHANGED <<cfgCache, applCache, frr>>

static_route_commands(p, new, cur) ==
  frr' = [frr EXCEPT ![p] = (@ \ (cur \ new)) \cup (new \ cur)]

(***************************************************************************)
(* The CONFIG_DB instance                                                  *)
(***************************************************************************)
CfgSet(p) ==
  /\ cfgQ[p] # <<>> /\ Head(cfgQ[p]) = "SET"
  /\ cfgQ' = [cfgQ EXCEPT ![p] = Tail(@)]
  /\ LET r == route[p]
     IN IF r = NoRow THEN UNCHANGED <<cfgCache, frr>>
        ELSE IF BfdOn(r)
        THEN cfgCache' = [cfgCache EXCEPT ![p] = {}] /\ UNCHANGED frr
        ELSE /\ static_route_commands(p, RowPaths(r), cfgCache[p])
             /\ cfgCache' = [cfgCache EXCEPT ![p] = RowPaths(r)]
  /\ UNCHANGED <<vars, applQ, applCache>>

CfgDel(p) ==
  /\ cfgQ[p] # <<>> /\ Head(cfgQ[p]) = "DEL"
  /\ cfgQ' = [cfgQ EXCEPT ![p] = Tail(@)]
  /\ static_route_commands(p, {}, cfgCache[p])
  /\ cfgCache' = [cfgCache EXCEPT ![p] = {}]
  /\ UNCHANGED <<vars, applQ, applCache>>

(***************************************************************************)
(* The APPL_DB instance.  staticroutebfd writes bfd "false" or no bfd at   *)
(* all, so no row of it is passed over.                                    *)
(***************************************************************************)
ApplSet(p) ==
  /\ applQ[p] # <<>> /\ Head(applQ[p]) = "SET"
  /\ applQ' = [applQ EXCEPT ![p] = Tail(@)]
  /\ IF appl[p] = NoPaths THEN UNCHANGED <<applCache, frr>>
     ELSE /\ static_route_commands(p, PathsOf(appl[p]), applCache[p])
          /\ applCache' = [applCache EXCEPT ![p] = PathsOf(appl[p])]
  /\ UNCHANGED <<vars, cfgQ, cfgCache>>

\* The route is left to the CONFIG_DB instance.
skip_appl_del(p) == route[p].kind = "plain"

ApplDel(p) ==
  /\ applQ[p] # <<>> /\ Head(applQ[p]) = "DEL"
  /\ applQ' = [applQ EXCEPT ![p] = Tail(@)]
  /\ IF skip_appl_del(p) THEN UNCHANGED frr
     ELSE static_route_commands(p, {}, applCache[p])
  /\ applCache' = [applCache EXCEPT ![p] = {}]
  /\ UNCHANGED <<vars, cfgQ, cfgCache>>

MgrNext ==
  \/ Others
  \/ \E p \in Prefixes : CfgSet(p) \/ CfgDel(p) \/ ApplSet(p) \/ ApplDel(p)

MgrSpec == MgrInit /\ [][MgrNext]_allvars

\* With no notification left, FRR has a BFD-enabled route through exactly the
\* next hops that staticroutebfd announces: main.py:354, "let
\* StaticRouteMgr(appl_db) install this route to update its cache".
BfdRouteInstalled ==
  AllAtRest =>
    \A p \in Prefixes :
      route[p].kind = "bfd" => frr[p] = PathsOf(appl[p])
=============================================================================
