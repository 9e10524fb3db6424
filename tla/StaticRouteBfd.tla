--------------------------- MODULE StaticRouteBfd ---------------------------
(***************************************************************************)
(* staticroutebfd (main.py): one BFD session per next hop of a BFD-enabled *)
(* static route, and in the APPL_DB the route through the next hops whose  *)
(* session is up.  The daemon works from its local tables; it learns of    *)
(* CONFIG_DB and STATE_DB from the notifications of SubscriberStateTable,  *)
(* handled later and in any order between the tables.                      *)
(*                                                                         *)
(* A key is a model value.  A next hop stands for its (vrf, ip) pair, and  *)
(* a row gives the interface of each of its next hops, so that a next hop  *)
(* has one interface in a row.  The writes of a handler are one step.  Left*)
(* out: the two address families of an interface, a BFD-enabled row with   *)
(* no nexthop field, the blackhole, distance and advertise fields.         *)
(***************************************************************************)
EXTENDS Naturals, Sequences

CONSTANTS
  Prefixes,  \* keys of STATIC_ROUTE
  NextHops,  \* (vrf, ip) of a next hop; also the key of its BFD session
  Intfs,     \* interface names
  None,      \* no interface: not a next hop of the row
  Rows,      \* rows an operator writes for each key of STATIC_ROUTE
  States,    \* states the BFD agent reports of each session
  MaxPending \* bound: notifications of one key that wait

\* kind: "none", no row; "plain", bfd not true; "device", bfd not true and no
\* nexthop field; "bfd", bfd true; "unmatched", bfd true and an ifname list
\* that is missing or of another length.
Kinds    == {"none", "plain", "device", "bfd", "unmatched"}
Paths    == [NextHops -> Intfs \cup {None}]
NoPaths  == [k \in NextHops |-> None]
Row      == [kind : Kinds, nhs : Paths]
NoRow    == [kind |-> "none", nhs |-> NoPaths]
Uses(r)  == {k \in NextHops : r.nhs[k] # None}
BfdOn(r) == r.kind \in {"bfd", "unmatched"}

ASSUME NoneAssumption == None \notin Intfs
ASSUME RowsAssumption ==
  /\ Rows \in [Prefixes -> SUBSET Row]
  /\ \A p \in Prefixes : \A r \in Rows[p] :
       r.kind # "none" /\ (Uses(r) = {} <=> r.kind = "device")
ASSUME StatesAssumption ==
  /\ States \in [NextHops -> SUBSET STRING]
  /\ \A k \in NextHops : States[k] \cap {"none", "absent", "new"} = {}
ASSUME MaxPendingAssumption == MaxPending \in Nat \ {0}

VARIABLES
  route,    \* CONFIG_DB STATIC_ROUTE
  addr,     \* CONFIG_DB interface tables: interfaces with an address
  session,  \* APPL_DB BFD_SESSION_TABLE: sessions asked for
  appl,     \* APPL_DB STATIC_ROUTE; NoPaths, no row
  state,    \* STATE_DB BFD_SESSION_TABLE; "none", no row
  routeQ,   \* notifications of each row of STATIC_ROUTE,
  intfQ,    \* of the interface tables
  stateQ,   \* and of the session states
  pc,       \* "down", "subscribed", restoring "routes" or "states", or "run"
  todo,     \* keys that reconciliation still has to restore
  config,   \* local_db[LOCAL_CONFIG_TABLE]
  hold,     \* prefixes whose bfd_nh_hold is "true"
  nexthop,  \* LOCAL_NEXTHOP_TABLE: prefixes that use the next hop
  srt,      \* LOCAL_SRT_TABLE: next hops of the prefix that are up
  bfd,      \* LOCAL_BFD_TABLE: "absent", "new" without a state, or the state
  marked,   \* sessions of it whose static_route is "true"
  pending,  \* LOCAL_BFD_PENDING_TABLE: interface and next hop
  interface \* LOCAL_INTERFACE_TABLE: interfaces with an address

operated == <<route, addr>>
queues   == <<routeQ, intfQ, stateQ>>
local    == <<config, hold, nexthop, srt, bfd, marked, pending>>
tables   == <<local, session, appl>>
vars     == <<operated, state, queues, pc, todo, interface, tables>>

Post(q, op) == IF q # <<>> /\ q[Len(q)] = op THEN q ELSE Append(q, op)

\* What the subscriber of a table that changed has to handle.
Notified(q, key, op) ==
  IF pc = "down" THEN q ELSE [q EXCEPT ![key] = Post(@, op)]

Room(q, key, op) == Len(Post(q[key], op)) <= MaxPending

Op(r) == IF r = NoRow THEN "DEL" ELSE "SET"

LocalInit ==
  /\ config = [p \in Prefixes |-> NoRow] /\ hold = {}
  /\ nexthop = [k \in NextHops |-> {}]
  /\ srt = [p \in Prefixes |-> {}]
  /\ bfd = [k \in NextHops |-> "absent"] /\ marked = {}
  /\ pending = {} /\ interface = {}

Init ==
  /\ route = [p \in Prefixes |-> NoRow] /\ addr = {}
  /\ session = {} /\ appl = [p \in Prefixes |-> NoPaths]
  /\ state = [k \in NextHops |-> "none"]
  /\ routeQ = [p \in Prefixes |-> <<>>] /\ intfQ = [i \in Intfs |-> <<>>]
  /\ stateQ = [k \in NextHops |-> <<>>]
  /\ pc = "down" /\ todo = {}
  /\ LocalInit

(***************************************************************************)
(* The operator and the BFD orchestration agent, which keeps a state row   *)
(* for the sessions asked for.                                             *)
(***************************************************************************)
WriteRoute(p, r) ==
  /\ route[p] # r /\ Room(routeQ, p, Op(r))
  /\ route' = [route EXCEPT ![p] = r]
  /\ routeQ' = Notified(routeQ, p, Op(r))
  /\ UNCHANGED <<addr, state, intfQ, stateQ, pc, todo, interface, tables>>

AddAddress(i) ==
  /\ i \notin addr /\ Room(intfQ, i, "SET")
  /\ addr' = addr \cup {i}
  /\ intfQ' = Notified(intfQ, i, "SET")
  /\ UNCHANGED <<route, state, routeQ, stateQ, pc, todo, interface, tables>>

DelAddress(i) ==
  /\ i \in addr /\ Room(intfQ, i, "DEL")
  /\ addr' = addr \ {i}
  /\ intfQ' = Notified(intfQ, i, "DEL")
  /\ UNCHANGED <<route, state, routeQ, stateQ, pc, todo, interface, tables>>

SessionState(k, s) ==
  /\ k \in session /\ state[k] # s /\ Room(stateQ, k, "SET")
  /\ state' = [state EXCEPT ![k] = s]
  /\ stateQ' = Notified(stateQ, k, "SET")
  /\ UNCHANGED <<operated, routeQ, intfQ, pc, todo, interface, tables>>

SessionGone(k) ==
  /\ k \notin session /\ state[k] # "none" /\ Room(stateQ, k, "DEL")
  /\ state' = [state EXCEPT ![k] = "none"]
  /\ stateQ' = Notified(stateQ, k, "DEL")
  /\ UNCHANGED <<operated, routeQ, intfQ, pc, todo, interface, tables>>

(***************************************************************************)
(* Static routes                                                           *)
(***************************************************************************)
\* Mutant of remove_from_nh_table_entry: the last prefix stays.
remove_from_nh_table_entry_but_last(ks, p) ==
  [k \in NextHops |-> IF k \in ks /\ nexthop[k] # {p} THEN nexthop[k] \ {p}
                     ELSE nexthop[k]]

remove_from_nh_table_entry(ks, p) ==
  [k \in NextHops |-> IF k \in ks THEN nexthop[k] \ {p} ELSE nexthop[k]]

\* Mutant of Unused: the other routes of the next hop are not looked at.
Unused_by_this_route(ks, p) == ks

\* Next hops of ks that no route uses once p is gone: their sessions end.
Unused(ks, p) == {k \in ks : nexthop[k] \ {p} = {}}

remove_sessions(gone) ==
  [k \in NextHops |-> IF k \in gone THEN "absent" ELSE bfd[k]]

reconstruct_static_route_config(r, reachable) ==
  [k \in NextHops |-> IF k \in reachable THEN r.nhs[k] ELSE None]

\* Mutant of Withdraw: the reachable next hops stay.
Withdraw_reachable(p) ==
  LET ks   == Uses(config[p])
      gone == Unused(ks, p)
  IN /\ nexthop' = remove_from_nh_table_entry(ks, p)
     /\ bfd' = remove_sessions(gone) /\ marked' = marked \ gone
     /\ session' = session \ gone
     /\ appl' = [appl EXCEPT ![p] = NoPaths]
     /\ UNCHANGED srt

\* What a BFD-enabled route leaves behind when it is deleted or no longer
\* BFD-enabled.  A request for a session that is still pending stays.
Withdraw(p) ==
  LET ks   == Uses(config[p])
      gone == Unused(ks, p)
  IN /\ nexthop' = remove_from_nh_table_entry(ks, p)
     /\ bfd' = remove_sessions(gone) /\ marked' = marked \ gone
     /\ session' = session \ gone
     /\ appl' = [appl EXCEPT ![p] = NoPaths]
     /\ srt' = [srt EXCEPT ![p] = {}]

static_route_del_handler(p) ==
  /\ IF config[p].kind = "bfd" THEN Withdraw(p)
     ELSE UNCHANGED <<nexthop, bfd, marked, session, appl, srt>>
  /\ config' = [config EXCEPT ![p] = NoRow]
  /\ hold' = hold \ {p}
  /\ UNCHANGED pending

\* A row that is not BFD-enabled is kept to see a later change of its flag.
SetPlain(p, r) ==
  /\ IF config[p].kind = "bfd" THEN Withdraw(p)
     ELSE UNCHANGED <<nexthop, bfd, marked, session, appl, srt>>
  /\ config' = [config EXCEPT ![p] = r]
  /\ hold' = hold \ {p}
  /\ UNCHANGED pending

\* Mutant of Toggled: a route that is BFD-enabled is shown in full again.
Toggled_again(p, r) ==
  IF config[p].kind # "none" THEN [appl EXCEPT ![p] = r.nhs] ELSE appl

\* handle_bfd_change to enabled: the route with all its next hops.
Toggled(p, r) ==
  IF config[p].kind = "plain" THEN [appl EXCEPT ![p] = r.nhs] ELSE appl

\* Mutant of SetUnmatched: the row is kept.
SetUnmatched_kept(p, r) ==
  /\ appl' = Toggled(p, r)
  /\ config' = [config EXCEPT ![p] = r]
  /\ UNCHANGED <<hold, nexthop, srt, bfd, marked, pending, session>>

\* The lists do not match: the flag change is announced, nothing is kept.
SetUnmatched(p, r) ==
  /\ appl' = Toggled(p, r)
  /\ UNCHANGED <<local, session>>

SetBfd(p, r) ==
  LET cur       == config[p]
      removed   == IF cur.kind = "bfd"
                   THEN {k \in Uses(cur) : r.nhs[k] # cur.nhs[k]} ELSE {}
      gone      == Unused(removed, p)
      users     == remove_from_nh_table_entry(removed, p)
      known     == remove_sessions(gone)
      missing   == {k \in Uses(r) : users[k] = {} /\ known[k] = "absent"}
      postponed == {k \in missing : r.nhs[k] \notin interface}
      created   == missing \ postponed
      sessions  == [k \in NextHops |-> IF k \in created THEN "new" ELSE known[k]]
      up        == {k \in Uses(r) : sessions[k] = "UP"}  \* refresh_active_nh
      reachable == (srt[p] \ removed) \cup up
  IN /\ config' = [config EXCEPT ![p] = r]
     /\ nexthop' = [k \in NextHops |-> IF k \in Uses(r) THEN users[k] \cup {p}
                                                        ELSE users[k]]
     /\ bfd' = sessions
     /\ marked' = (marked \ gone) \cup {k \in Uses(r) : sessions[k] # "absent"}
     /\ session' = (session \ gone) \cup created
     /\ pending' = pending \cup {<<r.nhs[k], k>> : k \in postponed}
     /\ srt' = [srt EXCEPT ![p] = reachable]
     /\ hold' = IF cur.kind = "plain" /\ up = {} THEN hold \cup {p}
                                                 ELSE hold \ {p}
     /\ appl' = IF up = {} THEN Toggled(p, r)
                ELSE [appl EXCEPT ![p] =
                        reconstruct_static_route_config(r, reachable)]

static_route_set_handler(p, r) ==
  \/ r.kind = "none" /\ UNCHANGED tables
  \/ r.kind = "plain" /\ SetPlain(p, r)
  \/ r.kind = "unmatched" /\ SetUnmatched(p, r)
  \/ r.kind = "bfd" /\ SetBfd(p, r)

(***************************************************************************)
(* Interfaces and session states                                           *)
(***************************************************************************)
interface_set_handler(i) ==
  LET ready == {k \in NextHops : <<i, k>> \in pending}  \* update_bfd_pending
  IN /\ interface' = interface \cup {i}
     /\ session' = session \cup ready
     /\ bfd' = [k \in NextHops |-> IF k \in ready THEN "new" ELSE bfd[k]]
     /\ marked' = marked \cup ready
     /\ pending' = {x \in pending : x[1] # i}
     /\ UNCHANGED <<config, hold, nexthop, srt, appl>>

\* Mutant of interface_del_handler: the address stays.
interface_del_handler_kept(i) == UNCHANGED <<interface, tables>>

interface_del_handler(i) ==
  /\ interface' = interface \ {i}
  /\ UNCHANGED tables

\* The routes of ps lose next hop k: announced through the others, if any.
Drop(ps, k) ==
  /\ srt' = [p \in Prefixes |-> IF p \in ps THEN srt[p] \ {k} ELSE srt[p]]
  /\ appl' = [p \in Prefixes |->
                IF p \in ps
                THEN reconstruct_static_route_config(config[p], srt[p] \ {k})
                ELSE appl[p]]
  /\ UNCHANGED <<config, hold, nexthop, marked, pending, session>>

\* Mutant of SessionUp: the route stays on hold.
SessionUp_held(k) ==
  LET ps == {p \in nexthop[k] : k \notin srt[p]}
  IN /\ srt' = [p \in Prefixes |-> IF p \in ps THEN srt[p] \cup {k} ELSE srt[p]]
     /\ appl' = [p \in Prefixes |->
                   IF p \in ps
                   THEN reconstruct_static_route_config(config[p],
                                                        srt[p] \cup {k})
                   ELSE appl[p]]
     /\ UNCHANGED <<config, hold, nexthop, marked, pending, session>>

SessionUp(k) ==
  LET ps == {p \in nexthop[k] : k \notin srt[p]}
  IN /\ srt' = [p \in Prefixes |-> IF p \in ps THEN srt[p] \cup {k} ELSE srt[p]]
     /\ appl' = [p \in Prefixes |->
                   IF p \in ps
                   THEN reconstruct_static_route_config(config[p],
                                                        srt[p] \cup {k})
                   ELSE appl[p]]
     /\ hold' = hold \ ps
     /\ UNCHANGED <<config, nexthop, marked, pending, session>>

\* Mutant of bfd_state_set_handler: the state is kept, the routes are not
\* looked at unless the session is up.
bfd_state_set_handler_up_only(k, s) ==
  LET st == IF s = "none" THEN "DOWN" ELSE s
  IN IF bfd[k] = "absent" THEN UNCHANGED tables
     ELSE /\ bfd' = [bfd EXCEPT ![k] = st]
          /\ IF st = "UP" THEN SessionUp(k)
             ELSE UNCHANGED <<config, hold, nexthop, srt, marked, pending,
                              session, appl>>

\* s is "none" when the row is gone: data without a state counts as DOWN.
bfd_state_set_handler(k, s) ==
  LET st == IF s = "none" THEN "DOWN" ELSE s
  IN IF bfd[k] = "absent" THEN UNCHANGED tables
     ELSE /\ bfd' = [bfd EXCEPT ![k] = st]
          /\ \/ st = "UP" /\ SessionUp(k)
             \/ st = "DOWN" /\ Drop(nexthop[k] \ hold, k)
             \/ /\ st \notin {"UP", "DOWN"}
                /\ UNCHANGED <<config, hold, nexthop, srt, marked, pending,
                               session, appl>>

bfd_state_del_handler(k) ==
  /\ Drop(nexthop[k], k)
  /\ UNCHANGED bfd

(***************************************************************************)
(* The process: start, reconciliation, the callbacks, and its end          *)
(***************************************************************************)
Idle ==
  /\ \A p \in Prefixes : routeQ[p] = <<>>
  /\ \A i \in Intfs : intfQ[i] = <<>>
  /\ \A k \in NextHops : stateQ[k] = <<>>

Restored(there) == [x \in DOMAIN there |-> IF there[x] THEN <<"SET">> ELSE <<>>]

prepare_selector ==
  /\ pc = "down"
  /\ routeQ' = Restored([p \in Prefixes |-> route[p] # NoRow])
  /\ intfQ' = Restored([i \in Intfs |-> i \in addr])
  /\ stateQ' = Restored([k \in NextHops |-> state[k] # "none"])
  /\ pc' = "subscribed"
  /\ UNCHANGED <<operated, state, todo, interface, tables>>

\* The first notification starts it: first the addresses and the sessions.
reconciliation ==
  /\ pc = "subscribed" /\ ~Idle
  /\ interface' = addr
  /\ bfd' = [k \in NextHops |-> IF k \in session THEN "new" ELSE "absent"]
  /\ pc' = "routes" /\ todo' = {p \in Prefixes : route[p] # NoRow}
  /\ UNCHANGED <<operated, state, queues, session, appl, config, hold, nexthop,
                 srt, marked, pending>>

RestoreRoute(p) ==
  /\ pc = "routes" /\ p \in todo
  /\ static_route_set_handler(p, route[p])
  /\ todo' = todo \ {p}
  /\ UNCHANGED <<operated, state, queues, pc, interface>>

cleanup_local_bfd_table ==
  /\ pc = "routes" /\ todo = {}
  /\ bfd' = [k \in NextHops |-> IF k \in marked THEN bfd[k] ELSE "absent"]
  /\ pc' = "states" /\ todo' = {k \in NextHops : state[k] # "none"}
  /\ UNCHANGED <<operated, state, queues, interface, session, appl, config,
                 hold, nexthop, srt, marked, pending>>

RestoreState(k) ==
  /\ pc = "states" /\ k \in todo
  /\ bfd_state_set_handler(k, state[k])
  /\ todo' = todo \ {k}
  /\ UNCHANGED <<operated, state, queues, pc, interface>>

Reconciled ==
  /\ pc = "states" /\ todo = {}
  /\ pc' = "run"
  /\ UNCHANGED <<operated, state, queues, todo, interface, tables>>

\* A subscriber reads the row when it takes a notification; a row that has
\* vanished since is passed over.
static_route_callback(p) ==
  /\ pc = "run" /\ routeQ[p] # <<>>
  /\ routeQ' = [routeQ EXCEPT ![p] = Tail(@)]
  /\ IF Head(routeQ[p]) = "DEL" THEN static_route_del_handler(p)
     ELSE static_route_set_handler(p, route[p])
  /\ UNCHANGED <<operated, state, intfQ, stateQ, pc, todo, interface>>

interface_callback(i) ==
  /\ pc = "run" /\ intfQ[i] # <<>>
  /\ intfQ' = [intfQ EXCEPT ![i] = Tail(@)]
  /\ IF Head(intfQ[i]) = "DEL" THEN interface_del_handler(i)
     ELSE IF i \in addr THEN interface_set_handler(i)
     ELSE UNCHANGED <<interface, tables>>
  /\ UNCHANGED <<operated, state, routeQ, stateQ, pc, todo>>

bfd_state_callback(k) ==
  /\ pc = "run" /\ stateQ[k] # <<>>
  /\ stateQ' = [stateQ EXCEPT ![k] = Tail(@)]
  /\ IF Head(stateQ[k]) = "DEL" THEN bfd_state_del_handler(k)
     ELSE IF state[k] # "none" THEN bfd_state_set_handler(k, state[k])
     ELSE UNCHANGED tables
  /\ UNCHANGED <<operated, state, routeQ, intfQ, pc, todo, interface>>

\* The process ends: its local tables and its subscriptions are gone.
Exit ==
  /\ pc' = "down" /\ todo' = {}
  /\ routeQ' = [p \in Prefixes |-> <<>>] /\ intfQ' = [i \in Intfs |-> <<>>]
  /\ stateQ' = [k \in NextHops |-> <<>>]
  /\ config' = [p \in Prefixes |-> NoRow] /\ hold' = {}
  /\ nexthop' = [k \in NextHops |-> {}]
  /\ srt' = [p \in Prefixes |-> {}]
  /\ bfd' = [k \in NextHops |-> "absent"] /\ marked' = {}
  /\ pending' = {} /\ interface' = {}
  /\ UNCHANGED <<operated, state>>

Stop ==
  /\ pc # "down"
  /\ Exit
  /\ UNCHANGED <<session, appl>>

\* A row with no nexthop field ends the process, after handle_bfd_change:
\* len(nh_list) of line 415 is taken of None.
TypeError(p) ==
  /\ \/ pc = "run" /\ routeQ[p] # <<>> /\ Head(routeQ[p]) = "SET"
     \/ pc = "routes" /\ p \in todo
  /\ route[p].kind = "device"
  /\ Exit
  /\ LET was  == config[p].kind = "bfd"
     IN /\ session' = IF was THEN session \ Unused(Uses(config[p]), p)
                      ELSE session
        /\ appl' = IF was THEN [appl EXCEPT ![p] = NoPaths] ELSE appl

Operator ==
  \/ \E p \in Prefixes : \E r \in Rows[p] \cup {NoRow} : WriteRoute(p, r)
  \/ \E i \in Intfs : AddAddress(i) \/ DelAddress(i)

Agent ==
  \E k \in NextHops : SessionGone(k) \/ \E s \in States[k] : SessionState(k, s)

Daemon ==
  \/ prepare_selector \/ reconciliation \/ cleanup_local_bfd_table
  \/ Reconciled \/ Stop
  \/ \E p \in Prefixes :
       RestoreRoute(p) \/ static_route_callback(p) \/ TypeError(p)
  \/ \E k \in NextHops : RestoreState(k) \/ bfd_state_callback(k)
  \/ \E i \in Intfs : interface_callback(i)

Next == Operator \/ Agent \/ Daemon

Spec == Init /\ [][Next]_vars
(***************************************************************************)
(* Properties                                                              *)
(***************************************************************************)
SessionStates ==
  {"none", "absent", "new", "DOWN"} \cup (UNION {States[k] : k \in NextHops})

\* Every variable has its type, and no refused row is kept.
TypeOK ==
  /\ route \in [Prefixes -> Row] /\ addr \subseteq Intfs
  /\ session \subseteq NextHops /\ appl \in [Prefixes -> Paths]
  /\ \A p \in Prefixes : route[p] \in Rows[p] \cup {NoRow}
  /\ state \in [NextHops -> SessionStates]
  /\ \A k \in NextHops : state[k] \in States[k] \cup {"none"}
  /\ routeQ \in [Prefixes -> Seq({"SET", "DEL"})]
  /\ intfQ \in [Intfs -> Seq({"SET", "DEL"})]
  /\ stateQ \in [NextHops -> Seq({"SET", "DEL"})]
  /\ pc \in {"down", "subscribed", "routes", "states", "run"}
  /\ todo \subseteq Prefixes \cup NextHops
  /\ config \in [Prefixes -> Row] /\ hold \subseteq Prefixes
  /\ nexthop \in [NextHops -> SUBSET Prefixes]
  /\ srt \in [Prefixes -> SUBSET NextHops]
  /\ bfd \in [NextHops -> SessionStates]
  /\ \A k \in NextHops : bfd[k] \in States[k] \cup {"absent", "new", "DOWN"}
  /\ \A p \in Prefixes : config[p].kind \in {"none", "plain", "bfd"}
  /\ marked \subseteq NextHops
  /\ pending \subseteq Intfs \X NextHops /\ interface \subseteq Intfs

\* The next-hop table lists exactly the BFD-enabled routes through each next
\* hop: no route misses the state changes of a session, none that was
\* deleted or changed is touched by them, and a session is ended exactly
\* when its last route goes (lines 165-174, 450-460, 524-534).
NexthopsIndexed ==
  \A p \in Prefixes, k \in NextHops :
    p \in nexthop[k] <=> config[p].kind = "bfd" /\ k \in Uses(config[p])

\* A route that has reachable next hops is in the APPL_DB through each of
\* them, with the interface it is configured with, after any order of route,
\* interface and session changes and restarts; and each of these next hops
\* has a session that was not last reported down (lines 319-347, 593-704).
ReachableAnnounced ==
  \A p \in Prefixes : \A k \in srt[p] :
    /\ config[p].kind = "bfd" /\ k \in Uses(config[p])
    /\ appl[p][k] = config[p].nhs[k]
    /\ bfd[k] \notin {"absent", "DOWN"}

\* A route on hold is a BFD-enabled one that no session has made reachable,
\* and what is announced of it is all of its next hops or nothing: the skip
\* of a DOWN state on hold never leaves a next hop that is down announced
\* among others (lines 399-409, 676).
HeldNotReached ==
  \A p \in hold :
    /\ config[p].kind = "bfd" /\ srt[p] = {}
    /\ appl[p] \in {NoPaths, config[p].nhs}

\* Every next hop of a BFD-enabled route has a session, known here and asked
\* for in the APPL_DB, or a cached request that waits for the address of an
\* interface; and no request waits for an address the daemon has learned
\* (lines 220-243, 457-494).
Watched ==
  /\ \A k \in NextHops :
       /\ nexthop[k] # {} =>
            bfd[k] # "absent" \/ \E i \in Intfs : <<i, k>> \in pending
       /\ bfd[k] # "absent" => k \in session
  /\ \A x \in pending : x[1] \notin interface

AtRest == pc = "run" /\ Idle

\* With no notification left, the local copies are what the databases hold,
\* whatever was changed while the daemon was down or restoring: the routes
\* (an unmatched row apart, which is refused), the addresses, and the states
\* of the sessions it has a state of, unless the row is gone (lines 248-300,
\* 736-756).
LocalCurrent ==
  AtRest =>
    /\ \A p \in Prefixes : route[p].kind # "unmatched" => config[p] = route[p]
    /\ interface = addr
    /\ \A k \in NextHops :
         bfd[k] \notin {"absent", "new"} => state[k] \in {bfd[k], "none"}

\* With no notification left, no route is announced through a next hop whose
\* session is down or gone (lines 639-704).
NoneDownAnnounced ==
  AtRest => \A p \in Prefixes : \A k \in srt[p] : state[k] \notin {"none", "DOWN"}

Mode ==
  [p \in Prefixes |->
     IF config[p].kind # "bfd" THEN "off"
     ELSE IF srt[p] # {} THEN "on" ELSE IF p \in hold THEN "hold" ELSE "wait"]

Shown == [p \in Prefixes |-> {k \in NextHops : appl[p][k] # None}]

Routes == INSTANCE BfdRoute
          WITH Routes <- Prefixes, mode <- Mode, reach <- srt, shown <- Shown

\* The daemon implements BfdRoute, whatever the routes that share a session
\* do: among others, a route is shown through a new next hop only when that
\* next hop was reported up or the bfd flag was just set, and it is put on
\* hold only when it becomes BFD-enabled (lines 319-347, 366-545, 639-704).
RouteLifeCycle == Routes!Spec
=============================================================================
