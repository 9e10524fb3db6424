----------------------- MODULE StaticRouteQueueProofs -----------------------
(***************************************************************************)
(* Theorems about StaticRouteBfd at rest: with no notification left, its   *)
(* local tables agree with the databases.  The last notification of a key  *)
(* tells whether its row exists, and a key without one was handled.        *)
(***************************************************************************)
EXTENDS StaticRouteBfdProofs

Newest(q) == q[Len(q)]
Tracks(q, there) == q # <<>> => (Newest(q) = "SET" <=> there)

RouteTracked(p) ==
  pc # "down" =>
    /\ Tracks(routeQ[p], route[p] # NoRow)
    /\ routeQ[p] = <<>> =>
         /\ route[p].kind # "unmatched" => config[p] = route[p]
         /\ pc # "run" => route[p] = NoRow

AddressTracked(i) ==
  pc # "down" =>
    /\ Tracks(intfQ[i], i \in addr)
    /\ intfQ[i] = <<>> => /\ i \in interface <=> i \in addr
                          /\ pc # "run" => i \notin addr

StateTracked(k) ==
  /\ bfd[k] \notin {"absent", "new", "DOWN"} => state[k] # "none"
  /\ pc # "down" =>
       /\ Tracks(stateQ[k], state[k] # "none")
       /\ stateQ[k] = <<>> =>
            /\ bfd[k] \notin {"absent", "new"} => state[k] \in {bfd[k], "none"}
            /\ \A p \in Prefixes : k \in srt[p] => state[k] \notin {"none", "DOWN"}

QInv ==
  /\ \A p \in Prefixes : RouteTracked(p)
  /\ \A i \in Intfs : AddressTracked(i)
  /\ \A k \in NextHops : StateTracked(k)

(***************************************************************************)
(* Queues                                                                  *)
(***************************************************************************)
LEMMA Posted ==
  ASSUME NEW q \in Seq({"SET", "DEL"}), NEW op \in {"SET", "DEL"}
  PROVE  Post(q, op) # <<>> /\ Newest(Post(q, op)) = op
  BY DEF Post, Newest

LEMMA Taken ==
  ASSUME NEW q \in Seq({"SET", "DEL"}), q # <<>>
  PROVE  /\ Head(q) \in {"SET", "DEL"}
         /\ Tail(q) = <<>> => Head(q) = Newest(q)
         /\ Tail(q) # <<>> => Newest(Tail(q)) = Newest(q)
<1>1. /\ Len(q) \in Nat \ {0} /\ Head(q) = q[1] /\ q[1] \in {"SET", "DEL"}
      /\ Tail(q) \in Seq({"SET", "DEL"}) /\ Len(Tail(q)) = Len(q) - 1
      /\ \A i \in 1..(Len(q) - 1) : Tail(q)[i] = q[i + 1]
  OBVIOUS
<1>2. Tail(q) = <<>> => Len(q) = 1
  <2>1. Len(<<>>) = 0 OBVIOUS
  <2>2. Tail(q) = <<>> => Len(Tail(q)) = 0 BY <2>1
  <2> QED BY <1>1, <2>2
<1>3. Tail(q) # <<>> => Len(Tail(q)) \in 1..(Len(q) - 1) BY <1>1
<1> QED BY <1>1, <1>2, <1>3 DEF Newest

LEMMA NotifiedTracks ==
  ASSUME NEW S, NEW q \in [S -> Seq({"SET", "DEL"})], NEW x \in S,
         NEW op \in {"SET", "DEL"}, pc # "down"
  PROVE  /\ Notified(q, x, op)[x] # <<>> /\ Newest(Notified(q, x, op)[x]) = op
         /\ \A y \in S \ {x} : Notified(q, x, op)[y] = q[y]
  BY Posted DEF Notified

LEMMA RestoredTracks ==
  ASSUME NEW S, NEW there \in [S -> BOOLEAN], NEW x \in S
  PROVE  Tracks(Restored(there)[x], there[x]) /\ (Restored(there)[x] = <<>> <=> ~there[x])
  BY DEF Restored, Tracks, Newest

(***************************************************************************)
(* What the handlers do to the tables compared here                        *)
(***************************************************************************)
LEMMA SetEffect ==
  ASSUME TablesInv, NEW p \in Prefixes, NEW r \in Row, static_route_set_handler(p, r)
  PROVE  /\ \A q \in Prefixes \ {p} : config'[q] = config[q]
         /\ r.kind # "device"
         /\ config'[p] = IF r.kind \in {"plain", "bfd"} THEN r ELSE config[p]
         /\ \A k \in NextHops : bfd'[k] \in {"absent", "new", bfd[k]}
         /\ \A q \in Prefixes : \A k \in srt'[q] : k \in srt[q] \/ bfd[k] = "UP"
<1>1. CASE r.kind = "none" /\ UNCHANGED tables BY <1>1 DEF tables, local
<1>2. CASE r.kind = "plain" /\ SetPlain(p, r)
  BY <1>2 DEF SetPlain, Withdraw, remove_sessions, TablesInv, TablesType
<1>3. CASE r.kind = "unmatched" /\ SetUnmatched(p, r) BY <1>3 DEF SetUnmatched, local
<1>4. CASE r.kind = "bfd" /\ SetBfd(p, r)
  <2> DEFINE removed  == IF config[p].kind = "bfd"
                         THEN {k \in Uses(config[p]) : r.nhs[k] # config[p].nhs[k]}
                         ELSE {}
             known    == remove_sessions(Unused(removed, p))
             users    == remove_from_nh_table_entry(removed, p)
             missing  == {k \in Uses(r) : users[k] = {} /\ known[k] = "absent"}
             created  == missing \ {k \in missing : r.nhs[k] \notin interface}
             sessions == [k \in NextHops |-> IF k \in created THEN "new" ELSE known[k]]
             up       == {k \in Uses(r) : sessions[k] = "UP"}
  <2>1. /\ config' = [config EXCEPT ![p] = r]
        /\ srt' = [srt EXCEPT ![p] = (srt[p] \ removed) \cup up]
        /\ bfd' = sessions
    BY <1>4 DEF SetBfd
  <2> HIDE DEF removed
  <2>2. \A k \in NextHops : bfd'[k] \in {"absent", "new", bfd[k]}
    BY <2>1 DEF remove_sessions
  <2> HIDE DEF known, users, missing, created
  <2>3. \A k \in up : k \in NextHops /\ bfd'[k] = "UP" BY <2>1 DEF Uses
  <2> HIDE DEF sessions, up
  <2>4. \A k \in up : bfd[k] = "UP" BY <2>2, <2>3
  <2>5. \A q \in Prefixes : \A k \in srt'[q] : k \in srt[q] \/ k \in up
    BY <2>1 DEF TablesInv, TablesType
  <2> QED BY <1>4, <2>1, <2>2, <2>4, <2>5 DEF TablesInv, TablesType
<1> QED BY <1>1, <1>2, <1>3, <1>4 DEF static_route_set_handler

LEMMA DelEffect ==
  ASSUME TablesInv, NEW p \in Prefixes, static_route_del_handler(p)
  PROVE  /\ \A q \in Prefixes \ {p} : config'[q] = config[q]
         /\ config'[p] = NoRow
         /\ \A k \in NextHops : bfd'[k] \in {"absent", bfd[k]}
         /\ \A q \in Prefixes : srt'[q] \subseteq srt[q]
  BY DEF static_route_del_handler, Withdraw, remove_sessions, TablesInv, TablesType

LEMMA StateEffect ==
  ASSUME TablesInv, NEW k \in NextHops, NEW st, bfd_state_set_handler(k, st)
  PROVE  LET v == IF st = "none" THEN "DOWN" ELSE st IN
         /\ UNCHANGED config
         /\ bfd'[k] \in {"absent", v}
         /\ \A j \in NextHops \ {k} : bfd'[j] = bfd[j]
         /\ \A q \in Prefixes : \A j \in srt'[q] :
              j \in srt[q] \/ (j = k /\ v = "UP")
         /\ \A q \in Prefixes : k \in srt'[q] => v # "DOWN"
<1> DEFINE v == IF st = "none" THEN "DOWN" ELSE st
<1>1. CASE bfd[k] = "absent"
  <2>1. UNCHANGED tables BY <1>1 DEF bfd_state_set_handler
  <2>2. \A q \in Prefixes : k \notin srt[q] BY <1>1 DEF TablesInv, ReachableAnnounced
  <2> QED BY <1>1, <2>1, <2>2 DEF tables, local
<1>2. CASE bfd[k] # "absent"
  <2>1. /\ bfd' = [bfd EXCEPT ![k] = v]
        /\ CASE v = "UP" -> SessionUp(k)
             [] v = "DOWN" -> Drop(nexthop[k] \ hold, k)
             [] OTHER -> UNCHANGED <<config, hold, nexthop, srt, marked, pending,
                                     session, appl>>
    BY <1>2 DEF bfd_state_set_handler
  <2> HIDE DEF v
  <2>2. bfd'[k] = v /\ \A j \in NextHops \ {k} : bfd'[j] = bfd[j]
    BY <2>1 DEF TablesInv, TablesType, BfdType
  <2>3. CASE v = "UP"
    <3>1. SessionUp(k) BY <2>1, <2>3
    <3>2. /\ UNCHANGED config
          /\ \A q \in Prefixes : \A j \in srt'[q] : j \in srt[q] \/ j = k
      BY <3>1 DEF SessionUp
    <3> QED BY <2>2, <2>3, <3>2 DEF v
  <2>4. CASE v = "DOWN"
    <3>1. Drop(nexthop[k] \ hold, k) BY <2>1, <2>4
    <3>2. /\ UNCHANGED config
          /\ \A q \in Prefixes : srt'[q] = IF q \in nexthop[k] \ hold
                                           THEN srt[q] \ {k} ELSE srt[q]
      BY <3>1 DEF Drop
    <3>3. \A q \in Prefixes : k \in srt[q] => q \in nexthop[k] \ hold
      BY DEF TablesInv, ReachableAnnounced, NexthopsIndexed, HeldNotReached
    <3>4. \A q \in Prefixes : k \notin srt'[q] BY <3>2, <3>3
    <3> QED BY <2>2, <2>4, <3>2, <3>4 DEF v
  <2>5. CASE v # "UP" /\ v # "DOWN" BY <2>1, <2>2, <2>5 DEF v
  <2> QED BY <2>3, <2>4, <2>5
<1> QED BY <1>1, <1>2

LEMMA GoneEffect ==
  ASSUME TablesInv, NEW k \in NextHops, bfd_state_del_handler(k)
  PROVE  /\ UNCHANGED <<config, bfd>>
         /\ \A q \in Prefixes : srt'[q] \subseteq srt[q] /\ k \notin srt'[q]
<1>1. \A q \in Prefixes : k \in srt[q] => q \in nexthop[k]
  BY DEF TablesInv, ReachableAnnounced, NexthopsIndexed
<1> QED BY <1>1 DEF bfd_state_del_handler, Drop

(***************************************************************************)
(* Each part is kept by every step                                         *)
(***************************************************************************)
\* The process is down after the step, or it was up before it and does not
\* leave the loop of its callbacks.
GoesOn == pc' = "down" \/ (pc # "down" /\ (pc = "run" => pc' = "run"))

LEMMA RouteKept ==
  ASSUME NEW p \in Prefixes, RouteTracked(p), GoesOn, route'[p] = route[p],
         routeQ'[p] = routeQ[p], config'[p] = config[p]
  PROVE  RouteTracked(p)'
  BY DEF RouteTracked, GoesOn, Tracks, Newest

LEMMA RouteStep ==
  ASSUME IInv, NEW p \in Prefixes, RouteTracked(p), [Next]_vars
  PROVE  RouteTracked(p)'
<1>1. CASE pc' = "down" BY <1>1 DEF RouteTracked
<1> SUFFICES ASSUME pc' # "down" PROVE RouteTracked(p)' BY <1>1
<1>2. CASE \/ UNCHANGED vars \/ Agent
           \/ \E i \in Intfs : AddAddress(i) \/ DelAddress(i) \/ interface_callback(i)
           \/ reconciliation \/ cleanup_local_bfd_table \/ Reconciled
           \/ \E k \in NextHops : RestoreState(k) \/ bfd_state_callback(k)
  <2>1. GoesOn /\ UNCHANGED <<route, routeQ>>
    BY <1>2 DEF GoesOn, vars, operated, queues, Agent, SessionState, SessionGone,
                AddAddress, DelAddress, interface_callback, reconciliation,
                cleanup_local_bfd_table, Reconciled, RestoreState, bfd_state_callback
  <2>2. UNCHANGED config
    <3>1. CASE \E k \in NextHops : RestoreState(k) \/ bfd_state_callback(k)
      BY <3>1, StateEffect, GoneEffect
         DEF RestoreState, bfd_state_callback, IInv, tables, local
    <3>2. CASE \E i \in Intfs : interface_callback(i)
      BY <3>2 DEF interface_callback, interface_set_handler, interface_del_handler,
                  tables, local
    <3>3. CASE \/ UNCHANGED vars \/ Agent \/ \E i \in Intfs : AddAddress(i) \/ DelAddress(i)
               \/ reconciliation \/ cleanup_local_bfd_table \/ Reconciled
      BY <3>3 DEF vars, Agent, SessionState, SessionGone, AddAddress, DelAddress,
                  reconciliation, cleanup_local_bfd_table, Reconciled, tables, local
    <3> QED BY <1>2, <3>1, <3>2, <3>3
  <2> QED BY <2>1, <2>2, RouteKept
<1>3. ASSUME NEW q \in Prefixes, NEW r \in Rows[q] \cup {NoRow}, WriteRoute(q, r)
      PROVE  RouteTracked(p)'
  <2>1. /\ pc' = pc /\ pc # "down" /\ UNCHANGED config
        /\ route' = [route EXCEPT ![q] = r] /\ routeQ' = Notified(routeQ, q, Op(r))
    BY <1>3 DEF WriteRoute, tables, local
  <2>2. Op(r) \in {"SET", "DEL"} /\ (Op(r) = "SET" <=> r # NoRow) BY DEF Op
  <2>3. /\ routeQ'[q] # <<>> /\ Newest(routeQ'[q]) = Op(r)
        /\ \A y \in Prefixes \ {q} : routeQ'[y] = routeQ[y]
    <3> DEFINE new == Notified(routeQ, q, Op(r))
    <3>1. routeQ \in [Prefixes -> Seq({"SET", "DEL"})] BY DEF IInv, DbType
    <3>2. /\ new[q] # <<>> /\ Newest(new[q]) = Op(r)
          /\ \A y \in Prefixes \ {q} : new[y] = routeQ[y]
      BY <2>1, <2>2, <3>1, NotifiedTracks
    <3>3. routeQ' = new BY <2>1
    <3> HIDE DEF new
    <3> QED BY <3>2, <3>3
  <2>4. CASE q = p
    <3>1. route'[p] = r BY <2>1, <2>4 DEF IInv, DbType
    <3> QED BY <2>2, <2>3, <2>4, <3>1 DEF RouteTracked, Tracks, Newest
  <2>5. CASE q # p
    <3>1. GoesOn /\ route'[p] = route[p] /\ routeQ'[p] = routeQ[p] /\ config'[p] = config[p]
      BY <2>1, <2>3, <2>5 DEF GoesOn, IInv, DbType
    <3> QED BY <3>1, RouteKept
  <2> QED BY <2>4, <2>5
<1>4. CASE prepare_selector
  <2> DEFINE there == [q \in Prefixes |-> route[q] # NoRow]
  <2>1. there \in [Prefixes -> BOOLEAN] OBVIOUS
  <2>2. /\ routeQ' = Restored(there) /\ route' = route /\ config'[p] = NoRow
    BY <1>4 DEF prepare_selector, operated, tables, local, IInv, Fresh, LocalInit
  <2>3. there[p] <=> route[p] # NoRow OBVIOUS
  <2> HIDE DEF there
  <2>4. Tracks(routeQ'[p], there[p]) /\ (routeQ'[p] = <<>> <=> ~there[p])
    BY <2>1, <2>2, RestoredTracks
  <2> QED BY <2>2, <2>3, <2>4 DEF RouteTracked, Tracks, Newest
<1>5. ASSUME NEW q \in Prefixes, RestoreRoute(q) PROVE RouteTracked(p)'
  <2>1. /\ GoesOn /\ UNCHANGED <<route, routeQ>> /\ pc = "routes"
        /\ static_route_set_handler(q, route[q])
    BY <1>5 DEF RestoreRoute, GoesOn, operated, queues
  <2>2. /\ \A y \in Prefixes \ {q} : config'[y] = config[y]
        /\ config'[q] = IF route[q].kind \in {"plain", "bfd"} THEN route[q] ELSE config[q]
    BY <2>1, SetEffect DEF IInv, DbType
  <2>3. CASE q # p BY <2>1, <2>2, <2>3, RouteKept
  <2>4. CASE q = p /\ routeQ[p] = <<>>
    <3>1. route[p] = NoRow BY <2>1, <2>4 DEF RouteTracked
    <3> QED BY <2>1, <2>2, <2>4, <3>1, RowFacts, RouteKept
  <2>5. CASE q = p /\ routeQ[p] # <<>>
    BY <2>1, <2>5 DEF RouteTracked, Tracks, Newest
  <2> QED BY <2>3, <2>4, <2>5
<1>6. ASSUME NEW q \in Prefixes, static_route_callback(q) PROVE RouteTracked(p)'
  <2>1. /\ GoesOn /\ UNCHANGED route /\ pc = "run" /\ pc' = "run" /\ routeQ[q] # <<>>
        /\ routeQ' = [routeQ EXCEPT ![q] = Tail(@)]
        /\ IF Head(routeQ[q]) = "DEL" THEN static_route_del_handler(q)
           ELSE static_route_set_handler(q, route[q])
    BY <1>6 DEF static_route_callback, GoesOn, operated
  <2>2. CASE q # p
    <3>1. config'[p] = config[p]
      <4>1. TablesInv /\ route[q] \in Row BY DEF IInv, DbType
      <4>2. CASE static_route_del_handler(q) BY <2>2, <4>1, <4>2, DelEffect
      <4>3. CASE static_route_set_handler(q, route[q])
        <5>1. \A y \in Prefixes \ {q} : config'[y] = config[y]
          BY <4>1, <4>3, SetEffect
        <5> QED BY <2>2, <5>1
      <4> QED BY <2>1, <4>2, <4>3
    <3>2. routeQ'[p] = routeQ[p] BY <2>1, <2>2 DEF IInv, DbType
    <3> QED BY <2>1, <3>1, <3>2, RouteKept
  <2>3. CASE q = p
    <3>1. routeQ[p] \in Seq({"SET", "DEL"}) /\ routeQ'[p] = Tail(routeQ[p])
      BY <2>1, <2>3 DEF IInv, DbType
    <3>2. /\ Head(routeQ[p]) \in {"SET", "DEL"}
          /\ routeQ'[p] = <<>> => Head(routeQ[p]) = Newest(routeQ[p])
          /\ routeQ'[p] # <<>> => Newest(routeQ'[p]) = Newest(routeQ[p])
      BY <2>1, <2>3, <3>1, Taken
    <3>3. Newest(routeQ[p]) = "SET" <=> route[p] # NoRow
      BY <2>1, <2>3 DEF RouteTracked, Tracks
    <3>4. ASSUME routeQ'[p] = <<>>, route[p].kind # "unmatched"
          PROVE  config'[p] = route[p]
      <4>1. CASE route[p] = NoRow
        <5>1. static_route_del_handler(p) BY <2>1, <2>3, <3>2, <3>3, <3>4, <4>1
        <5> QED BY <4>1, <5>1, DelEffect DEF IInv
      <4>2. CASE route[p] # NoRow
        <5>1. static_route_set_handler(p, route[p])
          BY <2>1, <2>3, <3>2, <3>3, <3>4, <4>2
        <5>2. route[p] \in Row /\ route[p].kind \in {"plain", "device", "bfd"}
          BY <3>4, <4>2, RowFacts DEF IInv, DbType, Row, Kinds
        <5>3. /\ route[p].kind # "device"
              /\ config'[p] = IF route[p].kind \in {"plain", "bfd"} THEN route[p]
                              ELSE config[p]
          BY <5>1, <5>2, SetEffect DEF IInv
        <5> QED BY <5>2, <5>3
      <4> QED BY <4>1, <4>2
    <3> QED BY <2>1, <3>2, <3>3, <3>4 DEF RouteTracked, Tracks, Newest
  <2> QED BY <2>2, <2>3
<1>7. CASE Stop \/ \E q \in Prefixes : TypeError(q) BY <1>7 DEF Stop, TypeError, Exit
<1> QED BY <1>2, <1>3, <1>4, <1>5, <1>6, <1>7 DEF Next, Operator, Daemon

LEMMA AddressKept ==
  ASSUME NEW i \in Intfs, AddressTracked(i), GoesOn, i \in addr' <=> i \in addr,
         intfQ'[i] = intfQ[i], i \in interface' <=> i \in interface
  PROVE  AddressTracked(i)'
  BY DEF AddressTracked, GoesOn, Tracks, Newest

LEMMA AddressStep ==
  ASSUME IInv, NEW i \in Intfs, AddressTracked(i), [Next]_vars
  PROVE  AddressTracked(i)'
<1>1. CASE pc' = "down" BY <1>1 DEF AddressTracked
<1> SUFFICES ASSUME pc' # "down" PROVE AddressTracked(i)' BY <1>1
<1>2. CASE \/ UNCHANGED vars \/ Agent \/ cleanup_local_bfd_table \/ Reconciled
           \/ \E p \in Prefixes : \/ \E r \in Rows[p] \cup {NoRow} : WriteRoute(p, r)
                                 \/ RestoreRoute(p) \/ static_route_callback(p)
           \/ \E k \in NextHops : RestoreState(k) \/ bfd_state_callback(k)
  <2>1. GoesOn /\ UNCHANGED <<addr, intfQ, interface>>
    BY <1>2 DEF GoesOn, vars, operated, queues, Agent, SessionState, SessionGone,
                WriteRoute, cleanup_local_bfd_table, Reconciled, RestoreRoute,
                static_route_callback, RestoreState, bfd_state_callback
  <2> QED BY <2>1, AddressKept
<1>3. CASE reconciliation
  <2>1. /\ GoesOn /\ pc # "down" /\ pc # "run" /\ UNCHANGED <<addr, intfQ>> /\ interface' = addr
    BY <1>3 DEF reconciliation, GoesOn, operated, queues
  <2> QED BY <2>1 DEF AddressTracked, Tracks, Newest
<1>4. ASSUME NEW j \in Intfs, NEW op \in {"SET", "DEL"}, pc # "down", pc' = pc,
             intfQ' = Notified(intfQ, j, op), UNCHANGED interface,
             addr' = IF op = "SET" THEN addr \cup {j} ELSE addr \ {j}
      PROVE  AddressTracked(i)'
  <2>1. /\ intfQ'[j] # <<>> /\ Newest(intfQ'[j]) = op
        /\ \A y \in Intfs \ {j} : intfQ'[y] = intfQ[y]
    <3> DEFINE new == Notified(intfQ, j, op)
    <3>1. intfQ \in [Intfs -> Seq({"SET", "DEL"})] BY DEF IInv, DbType
    <3>2. /\ new[j] # <<>> /\ Newest(new[j]) = op
          /\ \A y \in Intfs \ {j} : new[y] = intfQ[y]
      BY <1>4, <3>1, NotifiedTracks
    <3>3. intfQ' = new BY <1>4
    <3> HIDE DEF new
    <3> QED BY <3>2, <3>3
  <2>2. CASE j = i BY <1>4, <2>1, <2>2 DEF AddressTracked, Tracks, Newest
  <2>3. CASE j # i BY <1>4, <2>1, <2>3, AddressKept DEF GoesOn
  <2> QED BY <2>2, <2>3
<1>5. ASSUME NEW j \in Intfs, AddAddress(j) PROVE AddressTracked(i)'
  BY <1>4, <1>5 DEF AddAddress
<1>6. ASSUME NEW j \in Intfs, DelAddress(j) PROVE AddressTracked(i)'
  BY <1>4, <1>6 DEF DelAddress
<1>7. CASE prepare_selector
  <2> DEFINE there == [j \in Intfs |-> j \in addr]
  <2>1. there \in [Intfs -> BOOLEAN] OBVIOUS
  <2>2. /\ intfQ' = Restored(there) /\ addr' = addr /\ interface' = {}
    BY <1>7 DEF prepare_selector, operated, IInv, Fresh, LocalInit
  <2>3. there[i] <=> i \in addr OBVIOUS
  <2> HIDE DEF there
  <2>4. Tracks(intfQ'[i], there[i]) /\ (intfQ'[i] = <<>> <=> ~there[i])
    BY <2>1, <2>2, RestoredTracks
  <2> QED BY <2>2, <2>3, <2>4 DEF AddressTracked, Tracks, Newest
<1>8. ASSUME NEW j \in Intfs, interface_callback(j) PROVE AddressTracked(i)'
  <2>1. /\ GoesOn /\ UNCHANGED addr /\ pc = "run" /\ pc' = "run" /\ intfQ[j] # <<>>
        /\ intfQ' = [intfQ EXCEPT ![j] = Tail(@)]
        /\ interface' = IF Head(intfQ[j]) = "DEL" THEN interface \ {j}
                        ELSE IF j \in addr THEN interface \cup {j} ELSE interface
    BY <1>8 DEF interface_callback, interface_set_handler, interface_del_handler,
                GoesOn, operated
  <2>2. CASE j # i
    <3>1. intfQ'[i] = intfQ[i] BY <2>1, <2>2 DEF IInv, DbType
    <3> QED BY <2>1, <2>2, <3>1, AddressKept
  <2>3. CASE j = i
    <3>1. intfQ[i] \in Seq({"SET", "DEL"}) /\ intfQ'[i] = Tail(intfQ[i])
      BY <2>1, <2>3 DEF IInv, DbType
    <3>2. /\ Head(intfQ[i]) \in {"SET", "DEL"}
          /\ intfQ'[i] = <<>> => Head(intfQ[i]) = Newest(intfQ[i])
          /\ intfQ'[i] # <<>> => Newest(intfQ'[i]) = Newest(intfQ[i])
      BY <2>1, <2>3, <3>1, Taken
    <3>3. Newest(intfQ[i]) = "SET" <=> i \in addr
      BY <2>1, <2>3 DEF AddressTracked, Tracks
    <3> QED BY <2>1, <2>3, <3>2, <3>3 DEF AddressTracked, Tracks, Newest
  <2> QED BY <2>2, <2>3
<1>9. CASE Stop \/ \E q \in Prefixes : TypeError(q) BY <1>9 DEF Stop, TypeError, Exit
<1> QED BY <1>2, <1>3, <1>5, <1>6, <1>7, <1>8, <1>9 DEF Next, Operator, Daemon

LEMMA StateUnread ==
  ASSUME NEW k \in NextHops, StateTracked(k), GoesOn, state'[k] = state[k],
         stateQ'[k] = stateQ[k], bfd'[k] \in {"absent", "new", bfd[k]},
         \A q \in Prefixes : k \in srt'[q] => k \in srt[q] \/ bfd[k] = "UP"
  PROVE  StateTracked(k)'
<1>1. bfd'[k] \notin {"absent", "new", "DOWN"} => state'[k] # "none" BY DEF StateTracked
<1>2. CASE pc' = "down" BY <1>1, <1>2 DEF StateTracked
<1>3. CASE pc' # "down"
  <2>1. pc # "down" BY <1>3 DEF GoesOn
  <2>2. Tracks(stateQ[k], state[k] # "none")' BY <2>1 DEF StateTracked, Tracks, Newest
  <2>3. ASSUME stateQ[k] = <<>>
        PROVE  /\ bfd'[k] \notin {"absent", "new"} => state[k] \in {bfd'[k], "none"}
               /\ \A q \in Prefixes : k \in srt'[q] => state[k] \notin {"none", "DOWN"}
    <3>1. bfd[k] = "UP" => state[k] = "UP" BY <2>1, <2>3 DEF StateTracked
    <3> QED BY <2>1, <2>3, <3>1 DEF StateTracked
  <2> QED BY <1>1, <2>2, <2>3 DEF StateTracked
<1> QED BY <1>2, <1>3

\* The current state of the session was read.
LEMMA StateRead ==
  ASSUME IInv, NEW k \in NextHops, StateTracked(k), GoesOn, UNCHANGED state,
         bfd_state_set_handler(k, state[k]),
         Tracks(stateQ'[k], state[k] # "none")
  PROVE  StateTracked(k)'
<1> DEFINE v == IF state[k] = "none" THEN "DOWN" ELSE state[k]
<1>1. bfd'[k] \in {"absent", v} /\ \A q \in Prefixes : k \in srt'[q] => v # "DOWN"
  BY StateEffect DEF IInv
<1>2. /\ v # "DOWN" => state[k] \notin {"none", "DOWN"}
      /\ state[k] \in {v, "none"}
  OBVIOUS
<1> HIDE DEF v
<1> QED BY <1>1, <1>2 DEF StateTracked, Tracks, Newest

LEMMA SessionStep ==
  ASSUME IInv, NEW k \in NextHops, StateTracked(k), [Next]_vars
  PROVE  StateTracked(k)'
<1>1. CASE Stop \/ \E q \in Prefixes : TypeError(q)
  <2>1. pc' = "down" /\ bfd'[k] = "absent" BY <1>1 DEF Stop, TypeError, Exit
  <2> QED BY <2>1 DEF StateTracked
<1>2. ASSUME UNCHANGED <<pc, state, bfd, srt, stateQ>> PROVE StateTracked(k)'
  BY <1>2 DEF StateTracked, Tracks, Newest
<1>3. CASE \/ UNCHANGED vars \/ Operator
  BY <1>2, <1>3 DEF vars, queues, Operator, WriteRoute, AddAddress, DelAddress,
                    tables, local
<1>4. CASE reconciliation \/ cleanup_local_bfd_table \/ Reconciled
  <2>1. GoesOn /\ UNCHANGED <<state, stateQ, srt>>
    BY <1>4 DEF reconciliation, cleanup_local_bfd_table, Reconciled, GoesOn, queues,
                tables, local
  <2>2. bfd'[k] \in {"absent", "new", bfd[k]}
    BY <1>4 DEF reconciliation, cleanup_local_bfd_table, Reconciled, tables, local
  <2> QED BY <2>1, <2>2, StateUnread
<1>5. ASSUME NEW p \in Prefixes, RestoreRoute(p) \/ static_route_callback(p)
      PROVE  StateTracked(k)'
  <2>1. GoesOn /\ UNCHANGED <<state, stateQ>>
    BY <1>5 DEF RestoreRoute, static_route_callback, GoesOn, queues
  <2>2. static_route_set_handler(p, route[p]) \/ static_route_del_handler(p)
    BY <1>5 DEF RestoreRoute, static_route_callback
  <2>3. /\ bfd'[k] \in {"absent", "new", bfd[k]}
        /\ \A q \in Prefixes : k \in srt'[q] => k \in srt[q] \/ bfd[k] = "UP"
    BY <2>2, SetEffect, DelEffect DEF IInv, DbType
  <2> QED BY <2>1, <2>3, StateUnread
<1>6. ASSUME NEW i \in Intfs, interface_callback(i) PROVE StateTracked(k)'
  <2>1. GoesOn /\ UNCHANGED <<state, stateQ, srt>>
    BY <1>6 DEF interface_callback, GoesOn, interface_set_handler,
                interface_del_handler, tables, local
  <2>2. bfd'[k] \in {"absent", "new", bfd[k]}
    BY <1>6 DEF interface_callback, interface_set_handler, interface_del_handler,
                tables, local
  <2> QED BY <2>1, <2>2, StateUnread
<1>7. CASE prepare_selector
  <2> DEFINE there == [j \in NextHops |-> state[j] # "none"]
  <2>1. there \in [NextHops -> BOOLEAN] OBVIOUS
  <2>2. /\ stateQ' = Restored(there) /\ state' = state /\ bfd'[k] = "absent"
        /\ \A q \in Prefixes : srt'[q] = {}
    BY <1>7 DEF prepare_selector, tables, local, IInv, Fresh, LocalInit
  <2>3. there[k] <=> state[k] # "none" OBVIOUS
  <2> HIDE DEF there
  <2>4. Tracks(stateQ'[k], there[k]) BY <2>1, <2>2, RestoredTracks
  <2> QED BY <2>2, <2>3, <2>4 DEF StateTracked, Tracks, Newest
<1>8. ASSUME NEW j \in NextHops, NEW op \in {"SET", "DEL"}, NEW v,
             state' = [state EXCEPT ![j] = v], stateQ' = Notified(stateQ, j, op),
             op = "SET" <=> v # "none", op = "DEL" => bfd[j] = "absent",
             pc' = pc, UNCHANGED <<bfd, srt>>
      PROVE  StateTracked(k)'
  <2>1. CASE j # k
    <3>1. state'[k] = state[k] /\ stateQ'[k] = stateQ[k]
      BY <1>8, <2>1 DEF IInv, DbType, Notified
    <3> QED BY <1>8, <3>1 DEF StateTracked, Tracks, Newest
  <2>2. CASE j = k
    <3>1. state'[k] = v BY <1>8, <2>2 DEF IInv, DbType
    <3>2. bfd'[k] \notin {"absent", "new", "DOWN"} => state'[k] # "none"
      BY <1>8, <2>2, <3>1
    <3>3. ASSUME pc # "down" PROVE stateQ'[k] # <<>> /\ Newest(stateQ'[k]) = op
      <4> DEFINE new == Notified(stateQ, k, op)
      <4>1. stateQ \in [NextHops -> Seq({"SET", "DEL"})] BY DEF IInv, DbType
      <4>2. new[k] # <<>> /\ Newest(new[k]) = op BY <3>3, <4>1, NotifiedTracks
      <4>3. stateQ' = new BY <1>8, <2>2
      <4> HIDE DEF new
      <4> QED BY <4>2, <4>3
    <3> QED BY <1>8, <3>1, <3>2, <3>3 DEF StateTracked, Tracks, Newest
  <2> QED BY <2>1, <2>2
<1>9. ASSUME NEW j \in NextHops, SessionGone(j) PROVE StateTracked(k)'
  <2>1. bfd[j] = "absent" BY <1>9 DEF SessionGone, IInv, TablesInv, Watched
  <2> QED BY <1>8, <1>9, <2>1 DEF SessionGone, tables, local
<1>10. ASSUME NEW j \in NextHops, NEW s \in States[j], SessionState(j, s)
       PROVE  StateTracked(k)'
  <2>1. s # "none" BY StatesAssumption
  <2> QED BY <1>8, <1>10, <2>1 DEF SessionState, tables, local
<1>11. ASSUME NEW j \in NextHops, RestoreState(j) PROVE StateTracked(k)'
  <2>1. /\ GoesOn /\ UNCHANGED <<state, stateQ>> /\ pc # "down"
        /\ bfd_state_set_handler(j, state[j])
    BY <1>11 DEF RestoreState, GoesOn, queues
  <2>2. CASE j # k
    <3>1. /\ bfd'[k] = bfd[k]
          /\ \A q \in Prefixes : k \in srt'[q] => k \in srt[q]
      BY <2>1, <2>2, StateEffect DEF IInv
    <3> QED BY <2>1, <3>1, StateUnread
  <2>3. CASE j = k BY <2>1, <2>3, StateRead DEF StateTracked
  <2> QED BY <2>2, <2>3
<1>12. ASSUME NEW j \in NextHops, bfd_state_callback(j) PROVE StateTracked(k)'
  <2>1. /\ GoesOn /\ UNCHANGED state /\ pc # "down" /\ stateQ[j] # <<>>
        /\ stateQ' = [stateQ EXCEPT ![j] = Tail(@)]
        /\ IF Head(stateQ[j]) = "DEL" THEN bfd_state_del_handler(j)
           ELSE IF state[j] # "none" THEN bfd_state_set_handler(j, state[j])
           ELSE UNCHANGED tables
    BY <1>12 DEF bfd_state_callback, GoesOn
  <2>2. CASE j # k
    <3>1. /\ bfd'[k] = bfd[k]
          /\ \A q \in Prefixes : k \in srt'[q] => k \in srt[q]
      <4>1. TablesInv BY DEF IInv
      <4>2. CASE bfd_state_del_handler(j) BY <4>1, <4>2, GoneEffect
      <4>3. CASE bfd_state_set_handler(j, state[j])
        BY <2>2, <4>1, <4>3, StateEffect
      <4>4. CASE UNCHANGED tables BY <4>4 DEF tables, local
      <4> QED BY <2>1, <4>2, <4>3, <4>4
    <3>2. stateQ'[k] = stateQ[k] BY <2>1, <2>2 DEF IInv, DbType
    <3> QED BY <2>1, <3>1, <3>2, StateUnread
  <2>3. CASE j = k
    <3>1. stateQ[k] \in Seq({"SET", "DEL"}) /\ stateQ'[k] = Tail(stateQ[k])
      BY <2>1, <2>3 DEF IInv, DbType
    <3>2. /\ Head(stateQ[k]) \in {"SET", "DEL"}
          /\ stateQ'[k] = <<>> => Head(stateQ[k]) = Newest(stateQ[k])
          /\ stateQ'[k] # <<>> => Newest(stateQ'[k]) = Newest(stateQ[k])
      BY <2>1, <2>3, <3>1, Taken
    <3>3. Newest(stateQ[k]) = "SET" <=> state[k] # "none"
      BY <2>1, <2>3 DEF StateTracked, Tracks
    <3>4. Tracks(stateQ'[k], state[k] # "none") BY <3>2, <3>3 DEF Tracks
    <3>5. CASE Head(stateQ[k]) = "DEL"
      <4>1. bfd' = bfd /\ \A q \in Prefixes : k \notin srt'[q]
        BY <2>1, <2>3, <3>5, GoneEffect DEF IInv
      <4>2. stateQ'[k] = <<>> => state[k] = "none" BY <3>2, <3>3, <3>5
      <4> QED BY <2>1, <3>4, <4>1, <4>2 DEF StateTracked, Tracks, Newest
    <3>6. CASE Head(stateQ[k]) # "DEL" /\ state[k] # "none"
      BY <2>1, <2>3, <3>4, <3>6, StateRead
    <3>7. CASE Head(stateQ[k]) # "DEL" /\ state[k] = "none"
      <4>1. UNCHANGED <<bfd, srt>> BY <2>1, <2>3, <3>7 DEF tables, local
      <4>2. stateQ'[k] # <<>> BY <3>2, <3>3, <3>7
      <4> QED BY <2>1, <3>4, <4>1, <4>2 DEF StateTracked, Tracks, Newest
    <3> QED BY <3>5, <3>6, <3>7
  <2> QED BY <2>2, <2>3
<1> QED BY <1>1, <1>3, <1>4, <1>5, <1>6, <1>7, <1>9, <1>10, <1>11, <1>12
        DEF Next, Agent, Daemon

LEMMA QInvInductive == Spec => [](IInv /\ QInv)
<1>1. Init => QInv
  <2> SUFFICES ASSUME Init PROVE QInv OBVIOUS
  <2> QED BY DEF Init, LocalInit, QInv, RouteTracked, AddressTracked, StateTracked
<1>2. IInv /\ QInv /\ [Next]_vars => QInv'
  <2> SUFFICES ASSUME IInv, QInv, [Next]_vars PROVE QInv' OBVIOUS
  <2>1. \A p \in Prefixes : RouteTracked(p)' BY RouteStep DEF QInv
  <2>2. \A i \in Intfs : AddressTracked(i)' BY AddressStep DEF QInv
  <2>3. \A k \in NextHops : StateTracked(k)' BY SessionStep DEF QInv
  <2> QED BY <2>1, <2>2, <2>3 DEF QInv
<1> QED BY <1>1, <1>2, InitInv, NextInv, PTL DEF Spec

\* With no notification left, the local copies of the routes, the addresses
\* and the session states are what the databases hold, whatever changed while
\* the daemon was down or restoring, and however long the queues are.
THEOREM CurrentAtRest == Spec => []LocalCurrent
<1>1. IInv /\ QInv => LocalCurrent
  <2> SUFFICES ASSUME IInv, QInv, pc = "run", Idle
               PROVE  /\ \A p \in Prefixes :
                           route[p].kind # "unmatched" => config[p] = route[p]
                      /\ interface = addr
                      /\ \A k \in NextHops :
                           bfd[k] \notin {"absent", "new"} =>
                             state[k] \in {bfd[k], "none"}
    BY DEF LocalCurrent, AtRest
  <2>1. \A p \in Prefixes : route[p].kind # "unmatched" => config[p] = route[p]
    BY DEF Idle, QInv, RouteTracked
  <2>2. interface = addr
    <3>1. \A i \in Intfs : i \in interface <=> i \in addr
      BY DEF Idle, QInv, AddressTracked
    <3>2. interface \subseteq Intfs /\ addr \subseteq Intfs
      BY DEF IInv, DbType, TablesInv, TablesType
    <3> QED BY <3>1, <3>2
  <2>3. \A k \in NextHops :
          bfd[k] \notin {"absent", "new"} => state[k] \in {bfd[k], "none"}
    BY DEF Idle, QInv, StateTracked
  <2> QED BY <2>1, <2>2, <2>3
<1> QED BY <1>1, QInvInductive, PTL

\* With no notification left, no route has a reachable next hop whose session
\* is down or gone.
THEOREM NoneDown == Spec => []NoneDownAnnounced
<1>1. IInv /\ QInv => NoneDownAnnounced
  <2>1. IInv => \A p \in Prefixes : srt[p] \subseteq NextHops
    BY DEF IInv, TablesInv, TablesType
  <2> QED BY <2>1 DEF NoneDownAnnounced, AtRest, Idle, QInv, StateTracked
<1> QED BY <1>1, QInvInductive, PTL
=============================================================================
