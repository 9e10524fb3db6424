---------------------------- MODULE IccpSession ----------------------------
(***************************************************************************)
(* One MC-LAG session of iccpd between two switches: the TCP connection,   *)
(* the ICCP connection state machine (iccp_csm.c), the application state   *)
(* machine (app_csm.c) and the mLACP synchronisation state machine         *)
(* (mlacp_fsm.c), driven by the scheduler loop (scheduler.c).              *)
(*                                                                         *)
(* iccpd is single threaded: an iteration of scheduler_loop handles the    *)
(* ready descriptors and then runs heartbeat_update, iccp_csm_transit,     *)
(* app_csm_transit and mlacp_fsm_transit.  pc[n] says where in the         *)
(* iteration node n is; the two nodes interleave freely and interact only  *)
(* through TCP.                                                            *)
(*                                                                         *)
(* One PortChannel stands for all: the code handles each one alike and     *)
(* they share nothing but need_to_sync.  Messages that carry data and      *)
(* never move a state machine (system config, peer link, MAC, ARP, ND) are *)
(* left out.                                                               *)
(***************************************************************************)
EXTENDS Naturals, Sequences

CONSTANTS
  Active,       \* the node with the lower IP: TCP client, role ACTIVE
  Standby,      \* the other node: TCP server, role STANDBY
  Conn,         \* connection slots; connect() fails when none is free
  NoConn,       \* sock_fd <= 0
  RgIds,        \* values of icc_rg_id the configuration may give a node
  MaxInFlight,  \* bound: messages under way when the operator acts
  MaxHeartbeat  \* bound: messages under way when a heartbeat is sent

ASSUME NodesDiffer == Active # Standby
ASSUME NoConnFresh == NoConn \notin Conn
ASSUME BoundsNat == MaxInFlight \in Nat /\ MaxHeartbeat \in Nat

Node == {Active, Standby}
Peer(n) == IF n = Active THEN Standby ELSE Active

IccpStates  == {"NONEXISTENT", "INITIALIZED", "CAPSENT", "CAPREC",
                "CONNECTING", "OPERATIONAL"}
AppStates   == {"NONEXISTENT", "OPERATIONAL"}
MlacpStates == {"INIT", "STAGE1", "STAGE2", "EXCHANGE", "ERROR"}
Roles       == {"NONE", "ACTIVE", "STANDBY"}
IccpMsgs    == {"CAPABILITY", "RG_CONNECT", "NAK"}
MlacpMsgs   == {"SYNC_REQUEST", "SYNC_START", "SYNC_DONE", "AGG_CONFIG",
                "AGG_PURGE", "HEARTBEAT"}
Msgs        == IccpMsgs \cup MlacpMsgs

VARIABLES
  pc,       \* where node n is in its scheduler iteration
  ready,    \* descriptors of the current epoll batch not yet handled
  sock,     \* csm->sock_fd
  open,     \* open[c]: the nodes whose end of connection c is open
  backlog,  \* connections waiting in the server's listen queue
  wire,     \* wire[c][n]: messages sent on c and not yet read by n
  role,     \* csm->role_type
  iccp,     \* csm->current_state
  info,     \* csm->iccp_info flags and status_code
  iccpq,    \* csm->msg_list
  app,      \* app_csm.current_state
  mlacp,    \* the MLACP(csm) fields below, one record per node
  mlacpq,   \* MLACP(csm).mlacp_msg_list
  prev,     \* the static prev_state of mlacp_fsm_transit
  up,       \* ICCP state last reported to mclagsyncd
  rgid      \* csm->iccp_info.icc_rg_id

tcpvars  == <<sock, open, backlog, wire>>
iccpvars == <<role, iccp, info, iccpq>>
appvars  == <<app, mlacp, mlacpq, prev, up>>
vars     == <<pc, ready, tcpvars, iccpvars, appvars, rgid>>

InfoReset == [sender_cap |-> FALSE, peer_cap |-> FALSE,
              sender_rg |-> FALSE, peer_rg |-> FALSE, status |-> FALSE]

\* The descriptors epoll_wait may report to a node whose connection is c.
Watched(c) == IF c = NoConn THEN {"listen"} ELSE {"peer", "listen"}

\* state: current_state; wait: wait_for_sync_data; need: need_to_sync;
\* pif: the peer's PortChannel is in pif_list; lif: ours is in lif_list and
\* its port_config_sync is set ("unsent") or clear ("sent"), or it is not
\* ("no"); purge: it is in lif_purge_list.
MlacpInit == [state |-> "INIT", wait |-> FALSE, need |-> FALSE,
              pif |-> FALSE, lif |-> "no", purge |-> FALSE]

Init ==
  /\ pc = [n \in Node |-> "events"]
  /\ ready = [n \in Node |-> Watched(NoConn)]
  /\ sock = [n \in Node |-> NoConn]
  /\ open = [c \in Conn |-> {}]
  /\ backlog = <<>>
  /\ wire = [c \in Conn |-> [n \in Node |-> <<>>]]
  /\ role = [n \in Node |-> "NONE"]
  /\ iccp = [n \in Node |-> "NONEXISTENT"]
  /\ info = [n \in Node |-> InfoReset]
  /\ iccpq = [n \in Node |-> <<>>]
  /\ app = [n \in Node |-> "NONEXISTENT"]
  /\ mlacp = [n \in Node |-> MlacpInit]
  /\ mlacpq = [n \in Node |-> <<>>]
  /\ prev = [n \in Node |-> "INIT"]
  /\ up = [n \in Node |-> FALSE]
  /\ rgid \in [Node -> RgIds]

(***************************************************************************)
(* TCP: a close discards what the closing end has not read; the other end  *)
(* reads what was sent before it and then end of file, or at once a reset. *)
(***************************************************************************)
Deliver(n, out) ==
  LET c == sock[n] p == Peer(n) IN
  wire' = IF c # NoConn /\ p \in open[c]
          THEN [wire EXCEPT ![c][p] = @ \o out]
          ELSE wire

InFlight(n) ==
  IF sock[n] = NoConn THEN 0
  ELSE Len(wire[sock[n]][Active]) + Len(wire[sock[n]][Standby])

CloseEnd(n, c) ==
  /\ open' = [open EXCEPT ![c] = @ \ {n}]
  /\ wire' = [wire EXCEPT ![c][n] = <<>>]

socket_cleanup(n) ==
  /\ sock' = [sock EXCEPT ![n] = NoConn]
  /\ IF sock[n] = NoConn THEN UNCHANGED <<open, wire>>
                         ELSE CloseEnd(n, sock[n])

\* Mutant of session_disconnect: app_csm_init is not called.
session_disconnect_keeps_app(n) ==
  /\ socket_cleanup(n)
  /\ role' = [role EXCEPT ![n] = "NONE"]
  /\ iccp' = [iccp EXCEPT ![n] = "NONEXISTENT"]
  /\ info' = [info EXCEPT ![n] = InfoReset]
  /\ iccpq' = [iccpq EXCEPT ![n] = <<>>]
  /\ UNCHANGED <<backlog, appvars, rgid>>

(***************************************************************************)
(* scheduler_session_disconnect_handler with iccp_csm_status_reset(csm, 0),*)
(* app_csm_init and mlacp_init: lif_list survives, everything learnt from  *)
(* the peer goes.                                                          *)
(***************************************************************************)
session_disconnect(n) ==
  /\ socket_cleanup(n)
  /\ role' = [role EXCEPT ![n] = "NONE"]
  /\ iccp' = [iccp EXCEPT ![n] = "NONEXISTENT"]
  /\ info' = [info EXCEPT ![n] = InfoReset]
  /\ iccpq' = [iccpq EXCEPT ![n] = <<>>]
  /\ app' = [app EXCEPT ![n] = "NONEXISTENT"]
  /\ mlacp' = [mlacp EXCEPT ![n] = [@ EXCEPT !.state = "INIT",
                 !.need = FALSE, !.pif = FALSE, !.purge = FALSE]]
  /\ mlacpq' = [mlacpq EXCEPT ![n] = <<>>]
  /\ up' = [up EXCEPT ![n] = FALSE]
  /\ UNCHANGED <<backlog, prev, rgid>>

(***************************************************************************)
(* Handlers of ready descriptors (iccp_handle_events).  A descriptor is    *)
(* handled at most once per iteration; mclagsyncd's carries any number of  *)
(* configuration commands.  The batch holds descriptor numbers: when a     *)
(* command closes the connection and accept() then reuses its number, the  *)
(* event of the old connection reads from the new one.                     *)
(***************************************************************************)
Handle(n, fd) ==
  /\ pc[n] = "events"
  /\ fd \in ready[n]
  /\ ready' = [ready EXCEPT ![n] = @ \ {fd}]
  /\ UNCHANGED pc

\* Mutant of csm_read: application messages are not told apart.
csm_read_one_queue(n) ==
  /\ Handle(n, "peer")
  /\ sock[n] # NoConn
  /\ wire[sock[n]][n] # <<>>
  /\ wire' = [wire EXCEPT ![sock[n]][n] = Tail(@)]
  /\ iccpq' = [iccpq EXCEPT ![n] = Append(@, Head(wire[sock[n]][n]))]
  /\ UNCHANGED <<sock, open, backlog, role, iccp, info, appvars, rgid>>

\* scheduler_csm_read_callback: one message, put in the queue of its layer.
csm_read(n) ==
  /\ Handle(n, "peer")
  /\ sock[n] # NoConn
  /\ LET c == sock[n] IN
     /\ wire[c][n] # <<>>
     /\ wire' = [wire EXCEPT ![c][n] = Tail(@)]
     /\ IF Head(wire[c][n]) \in IccpMsgs
        THEN /\ iccpq' = [iccpq EXCEPT ![n] = Append(@, Head(wire[c][n]))]
             /\ UNCHANGED mlacpq
        ELSE /\ mlacpq' = [mlacpq EXCEPT ![n] = Append(@, Head(wire[c][n]))]
             /\ UNCHANGED iccpq
  /\ UNCHANGED <<sock, open, backlog, role, iccp, info, app, mlacp, prev,
                 up, rgid>>

\* recv fails: the peer closed its end (a reset may overtake unread data).
csm_read_error(n) ==
  /\ Handle(n, "peer")
  /\ sock[n] # NoConn
  /\ Peer(n) \notin open[sock[n]]
  /\ session_disconnect(n)

\* scheduler_server_accept: a second connection is refused while sock_fd > 0.
server_accept(n) ==
  /\ n = Standby
  /\ Handle(n, "listen")
  /\ backlog # <<>>
  /\ backlog' = Tail(backlog)
  /\ \/ /\ sock[n] # NoConn
        /\ CloseEnd(n, Head(backlog))
        /\ UNCHANGED <<sock, iccp, role>>
     \/ /\ sock[n] = NoConn
        /\ sock' = [sock EXCEPT ![n] = Head(backlog)]
        /\ role' = [role EXCEPT ![n] = IF @ = "NONE" THEN "STANDBY" ELSE @]
        /\ iccp' = [iccp EXCEPT ![n] = "NONEXISTENT"]
        /\ UNCHANGED <<open, wire>>
  /\ UNCHANGED <<info, iccpq, appvars, rgid>>

\* A configuration command that ends the session (set_peer_link,
\* set_peer_address, ..., or the peer-link interface being deleted).
config_disconnect(n) ==
  /\ pc[n] = "events"
  /\ session_disconnect(n)
  /\ UNCHANGED <<pc, ready>>

\* attach_mclag_domain_to_port_channel / mlacp_bind_local_if.
attach(n) ==
  /\ pc[n] = "events"
  /\ InFlight(n) < MaxInFlight
  /\ mlacp[n].lif = "no"
  /\ mlacp' = [mlacp EXCEPT ![n] = [@ EXCEPT !.lif = "unsent", !.purge = FALSE]]
  /\ UNCHANGED <<pc, ready, tcpvars, iccpvars, app, mlacpq, prev, up,
                 rgid>>

\* detach_mclag_domain_to_port_channel / mlacp_unbind_local_if, and
\* local_if_destroy of the PortChannel.
detach(n) ==
  /\ pc[n] = "events"
  /\ InFlight(n) < MaxInFlight
  /\ mlacp[n].lif # "no"
  /\ mlacp' = [mlacp EXCEPT ![n] = [@ EXCEPT !.lif = "no",
                 !.purge = (mlacp[n].state = "EXCHANGE")]]
  /\ UNCHANGED <<pc, ready, tcpvars, iccpvars, app, mlacpq, prev, up,
                 rgid>>

\* The process dies and is started again: the kernel closes its sockets.
restart(n) ==
  /\ LET mine == {sock[n]} \cup
                 (IF n = Standby THEN {backlog[i] : i \in 1..Len(backlog)}
                                 ELSE {})
     IN /\ open' = [c \in Conn |-> IF c \in mine THEN open[c] \ {n}
                                                 ELSE open[c]]
        /\ wire' = [c \in Conn |-> IF c \in mine
                                   THEN [wire[c] EXCEPT ![n] = <<>>]
                                   ELSE wire[c]]
  /\ backlog' = IF n = Standby THEN <<>> ELSE backlog
  /\ sock' = [sock EXCEPT ![n] = NoConn]
  /\ pc' = [pc EXCEPT ![n] = "events"]
  /\ ready' = [ready EXCEPT ![n] = Watched(NoConn)]
  /\ role' = [role EXCEPT ![n] = "NONE"]
  /\ iccp' = [iccp EXCEPT ![n] = "NONEXISTENT"]
  /\ info' = [info EXCEPT ![n] = InfoReset]
  /\ iccpq' = [iccpq EXCEPT ![n] = <<>>]
  /\ app' = [app EXCEPT ![n] = "NONEXISTENT"]
  /\ mlacp' = [mlacp EXCEPT ![n] = MlacpInit]
  /\ mlacpq' = [mlacpq EXCEPT ![n] = <<>>]
  /\ prev' = [prev EXCEPT ![n] = "INIT"]
  /\ up' = [up EXCEPT ![n] = FALSE]
  /\ UNCHANGED rgid

(***************************************************************************)
(* scheduler_transit_fsm: heartbeat_update, iccp_csm_transit,              *)
(* app_csm_transit and the head of mlacp_fsm_transit are one step, for     *)
(* they touch the node's own state and at most append to its connection;   *)
(* the passes of mlacp_fsm_transit's loop are steps of their own.          *)
(***************************************************************************)
\* The next epoll_wait watches the listening socket and the connection c.
EndIteration(n, c) ==
  /\ pc' = [pc EXCEPT ![n] = "events"]
  /\ ready' = [ready EXCEPT ![n] = Watched(c)]

\* app_csm_transit, and mlacp_fsm_transit up to its loop: without a session
\* it returns (the reset it makes there when the state is not INIT is never
\* needed: SessionLayered), with one it may send a heartbeat.
AppTransit(n, s, out) ==
  LET oper == s = "OPERATIONAL" \/ app[n] = "OPERATIONAL" IN
  /\ app' = [app EXCEPT ![n] = IF oper THEN "OPERATIONAL" ELSE @]
  /\ \/ Deliver(n, out)
     \/ /\ oper
        /\ InFlight(n) < MaxHeartbeat
        /\ Deliver(n, Append(out, "HEARTBEAT"))
  /\ IF oper THEN pc' = [pc EXCEPT ![n] = "loop"] /\ UNCHANGED ready
             ELSE EndIteration(n, sock[n])

\* Mutant of Correspond: the RG id is checked on notifications only.
Correspond_no_id_check(n) ==
  LET i == info[n] IN
  IF iccpq[n] = <<>> THEN i
  ELSE CASE Head(iccpq[n]) = "CAPABILITY" -> [i EXCEPT !.peer_cap = TRUE]
         [] Head(iccpq[n]) = "RG_CONNECT" -> [i EXCEPT !.peer_rg = TRUE]
         [] Head(iccpq[n]) = "NAK" ->
              [i EXCEPT !.status = rgid[n] # rgid[Peer(n)]]

\* iccp_csm_correspond_from_msg on the message iccp_csm_dequeue_msg returns;
\* every message but CAPABILITY carries the sender's RG id.
Correspond(n) ==
  LET i == info[n] IN
  IF iccpq[n] = <<>> THEN i
  ELSE CASE Head(iccpq[n]) = "CAPABILITY" -> [i EXCEPT !.peer_cap = TRUE]
         [] Head(iccpq[n]) = "RG_CONNECT" ->
              [i EXCEPT !.peer_rg = TRUE, !.status = rgid[n] # rgid[Peer(n)]]
         [] Head(iccpq[n]) = "NAK" ->
              [i EXCEPT !.status = rgid[n] # rgid[Peer(n)]]

\* The iccp_csm_enter_state_* functions.
EnterState(s, i) ==
  CASE s = "INITIALIZED" -> [i EXCEPT !.sender_cap = TRUE]
    [] s = "CAPREC"      -> [i EXCEPT !.sender_cap = TRUE, !.peer_cap = TRUE]
    [] s = "CONNECTING"  -> [i EXCEPT !.sender_rg = TRUE]
    [] s = "OPERATIONAL" -> [i EXCEPT !.sender_rg = TRUE, !.peer_rg = TRUE]
    [] OTHER             -> i

Dequeue(n) == iccpq' = [iccpq EXCEPT ![n] = IF @ = <<>> THEN @ ELSE Tail(@)]

\* iccp_csm_transit with a connection: dequeue, send out, move to state s.
IccpStep(n, s, out) ==
  /\ pc[n] = "events"
  /\ sock[n] # NoConn
  /\ iccp' = [iccp EXCEPT ![n] = s]
  /\ info' = [info EXCEPT ![n] = IF s # iccp[n] \/ iccpq[n] # <<>>
                                 THEN EnterState(s, Correspond(n))
                                 ELSE Correspond(n)]
  /\ Dequeue(n)
  /\ AppTransit(n, s, out)
  /\ UNCHANGED <<sock, open, backlog, role, mlacp, mlacpq, prev, up, rgid>>

\* No socket: the server waits to be connected to; the client waits for
\* CONNECT_INTERVAL_SEC or its connect() fails.  (The role that the attempt
\* may fix already is fixed again on connecting; nothing reads it before.)
transit_idle(n) ==
  /\ pc[n] = "events"
  /\ iccp[n] = "NONEXISTENT"
  /\ sock[n] = NoConn
  /\ Dequeue(n)
  /\ EndIteration(n, NoConn)
  /\ UNCHANGED <<tcpvars, role, iccp, info, appvars, rgid>>

\* scheduler_prepare_session / session_client_conn_handler: the client's
\* connect() succeeds once the connection is in the listen queue.
transit_connect(n) ==
  /\ n = Active
  /\ pc[n] = "events"
  /\ iccp[n] = "NONEXISTENT"
  /\ sock[n] = NoConn
  /\ \E c \in Conn :
       /\ open[c] = {}
       /\ sock' = [sock EXCEPT ![n] = c]
       /\ open' = [open EXCEPT ![c] = Node]
       /\ backlog' = Append(backlog, c)
       /\ EndIteration(n, c)
  /\ role' = [role EXCEPT ![n] = "ACTIVE"]
  /\ iccp' = [iccp EXCEPT ![n] = "INITIALIZED"]
  /\ info' = [info EXCEPT ![n] = EnterState("INITIALIZED", @)]
  /\ Dequeue(n)
  /\ UNCHANGED <<wire, appvars, rgid>>

\* NONEXISTENT with an accepted socket: the message dequeued here is lost.
transit_accepted(n) ==
  /\ pc[n] = "events"
  /\ iccp[n] = "NONEXISTENT"
  /\ sock[n] # NoConn
  /\ iccp' = [iccp EXCEPT ![n] = "INITIALIZED"]
  /\ info' = [info EXCEPT ![n] = EnterState("INITIALIZED", @)]
  /\ Dequeue(n)
  /\ EndIteration(n, sock[n])
  /\ UNCHANGED <<tcpvars, role, appvars, rgid>>

transit_initialized(n) ==
  /\ iccp[n] = "INITIALIZED"
  /\ IccpStep(n, IF Correspond(n).peer_cap THEN "CAPREC" ELSE "CAPSENT",
              <<"CAPABILITY">>)

transit_capsent(n) ==
  /\ iccp[n] = "CAPSENT"
  /\ IccpStep(n, IF Correspond(n).peer_cap THEN "CAPREC" ELSE "CAPSENT", <<>>)

transit_caprec(n) ==
  /\ iccp[n] = "CAPREC"
  /\ LET i == Correspond(n) IN
     \/ /\ i.status
        /\ InFlight(n) <= MaxInFlight
        /\ IccpStep(n, "CAPREC", <<"NAK">>)
     \/ /\ ~i.status
        /\ IccpStep(n, IF i.peer_rg THEN "OPERATIONAL" ELSE "CONNECTING",
                    <<"RG_CONNECT">>)

transit_connecting(n) ==
  /\ iccp[n] = "CONNECTING"
  /\ LET i == Correspond(n) IN
     \/ /\ i.status
        /\ IccpStep(n, "CAPREC", <<"NAK">>)
     \/ /\ ~i.status
        /\ IccpStep(n, IF i.peer_rg THEN "OPERATIONAL" ELSE "CONNECTING",
                    <<>>)

\* RG_DISCONNECT is never sent, so OPERATIONAL is left only by a reset.
transit_operational(n) ==
  /\ iccp[n] = "OPERATIONAL"
  /\ IccpStep(n, "OPERATIONAL", <<>>)

\* heartbeat_check: nothing was read for session_timeout seconds.  The rest
\* of the iteration finds no connection, and connect() must wait.
heartbeat_timeout(n) ==
  /\ pc[n] = "events"
  /\ sock[n] # NoConn
  /\ session_disconnect(n)
  /\ EndIteration(n, NoConn)

(***************************************************************************)
(* The loop of mlacp_fsm_transit dequeues one message per pass and ends    *)
(* with a pass that finds the queue empty.  The handlers below map the     *)
(* MLACP record to the one they leave; their Out counterparts give what    *)
(* they send.                                                              *)
(***************************************************************************)
\* current_state++
Succ(s) == CASE s = "INIT"     -> "STAGE1"
             [] s = "STAGE1"   -> "STAGE2"
             [] s = "STAGE2"   -> "EXCHANGE"
             [] s = "EXCHANGE" -> "ERROR"
             [] s = "ERROR"    -> "ERROR"

\* mlacp_sync_send_aggConf clears port_config_sync.
Synced(lif) == IF lif = "no" THEN "no" ELSE "sent"

\* mlacp_sync_send_all_info_handler.
SendAll(m) == [m EXCEPT !.lif = Synced(@), !.wait = FALSE,
                        !.state = Succ(@)]

\* Mutant of SendAllOut: only what has port_config_sync set is sent.
SendAllOut_unsent_only(m) ==
  <<"SYNC_START">> \o (IF m.lif = "unsent" THEN <<"AGG_CONFIG">> ELSE <<>>)
                   \o <<"SYNC_DONE">>

SendAllOut(m) == <<"SYNC_START">>
                 \o (IF m.lif # "no" THEN <<"AGG_CONFIG">> ELSE <<>>)
                 \o <<"SYNC_DONE">>

\* Mutant of Receive: the start of the peer's data is taken for its end.
Receive_start_ends(m, msg) ==
  CASE msg = "AGG_CONFIG"   -> [m EXCEPT !.pif = TRUE]
    [] msg = "AGG_PURGE"    -> IF m.pif THEN [m EXCEPT !.pif = FALSE]
                                        ELSE [m EXCEPT !.need = TRUE]
    [] msg \in {"SYNC_START", "SYNC_DONE"} -> [m EXCEPT !.wait = FALSE]
    [] msg = "SYNC_REQUEST" -> SendAll(m)
    [] OTHER                -> m

\* mlacp_sync_receiver_handler; "NULL" when there is no message.
Receive(m, msg) ==
  CASE msg = "AGG_CONFIG"   -> [m EXCEPT !.pif = TRUE]
    [] msg = "AGG_PURGE"    -> IF m.pif THEN [m EXCEPT !.pif = FALSE]
                                        ELSE [m EXCEPT !.need = TRUE]
    [] msg = "SYNC_DONE"    -> [m EXCEPT !.wait = FALSE]
    [] msg = "SYNC_REQUEST" -> SendAll(m)
    [] OTHER                -> m
ReceiveOut(m, msg) == IF msg = "SYNC_REQUEST" THEN SendAllOut(m) ELSE <<>>

\* Mutant of StageSend: the type of the message is not looked at.
StageSend_any_message(m, msg) ==
  IF ~m.wait /\ msg # "NULL" THEN SendAll(m) ELSE m

\* mlacp_stage_sync_send_handler: only a request is looked at.
StageSend(m, msg) ==
  IF ~m.wait /\ msg = "SYNC_REQUEST" THEN SendAll(m) ELSE m
StageSendOut(m, msg) ==
  IF ~m.wait /\ msg = "SYNC_REQUEST" THEN SendAllOut(m) ELSE <<>>

\* mlacp_stage_sync_request_handler: the pass that sends the request does
\* not look at the message it dequeued.
StageRequest(m, msg) ==
  IF ~m.wait THEN [m EXCEPT !.wait = TRUE]
  ELSE LET r == Receive(m, msg) IN
       IF r.wait THEN r ELSE [r EXCEPT !.state = Succ(@)]
StageRequestOut(m, msg) ==
  IF ~m.wait THEN <<"SYNC_REQUEST">> ELSE ReceiveOut(m, msg)

\* mlacp_stage_handler: ACTIVE sends in stage 1, STANDBY in stage 2.
Sends(n, m) == (m.state = "STAGE1") = (role[n] = "ACTIVE")
Stage(n, m, msg) == IF Sends(n, m) THEN StageSend(m, msg)
                                   ELSE StageRequest(m, msg)
StageOut(n, m, msg) == IF Sends(n, m) THEN StageSendOut(m, msg)
                                      ELSE StageRequestOut(m, msg)

\* mlacp_exchange_handler: receive, then send what is pending.
Exchange(m, msg) ==
  LET r == Receive(m, msg) IN
  [r EXCEPT !.need = FALSE, !.purge = FALSE, !.lif = Synced(@)]
ExchangeOut(m, msg) ==
  LET r == Receive(m, msg) IN
  ReceiveOut(m, msg)
  \o (IF r.need THEN <<"SYNC_REQUEST">> ELSE <<>>)
  \o (IF r.purge THEN <<"AGG_PURGE">> ELSE <<>>)
  \o (IF r.lif = "unsent" THEN <<"AGG_CONFIG">> ELSE <<>>)

Msg(n) == IF mlacpq[n] = <<>> THEN "NULL" ELSE Head(mlacpq[n])

\* Mutant of Pass: prev_state is assigned after the handler, not before.
Pass_prev_late(n, m, out) ==
  /\ pc[n] = "loop"
  /\ mlacp' = [mlacp EXCEPT ![n] = m]
  /\ mlacpq' = [mlacpq EXCEPT ![n] = IF @ = <<>> THEN @ ELSE Tail(@)]
  /\ up' = [up EXCEPT ![n] = @ \/ /\ prev[n] # "EXCHANGE"
                                  /\ mlacp[n].state = "EXCHANGE"]
  /\ prev' = [prev EXCEPT ![n] = m.state]
  /\ IF mlacpq[n] = <<>> THEN EndIteration(n, sock[n])
                         ELSE UNCHANGED <<pc, ready>>
  /\ Deliver(n, out)
  /\ UNCHANGED <<sock, open, backlog, iccpvars, app, rgid>>

\* What every pass in a state other than INIT does around its handler:
\* dequeue, mlacp_peer_conn_handler on entry to EXCHANGE, leave the loop
\* when there was no message.
Pass(n, m, out) ==
  /\ pc[n] = "loop"
  /\ mlacp' = [mlacp EXCEPT ![n] = m]
  /\ mlacpq' = [mlacpq EXCEPT ![n] = IF @ = <<>> THEN @ ELSE Tail(@)]
  /\ up' = [up EXCEPT ![n] = @ \/ /\ prev[n] # "EXCHANGE"
                                  /\ mlacp[n].state = "EXCHANGE"]
  /\ prev' = [prev EXCEPT ![n] = mlacp[n].state]
  /\ IF mlacpq[n] = <<>> THEN EndIteration(n, sock[n])
                         ELSE UNCHANGED <<pc, ready>>
  /\ Deliver(n, out)
  /\ UNCHANGED <<sock, open, backlog, iccpvars, app, rgid>>

\* Mutant of pass_init: wait_for_sync_data of the last session is kept.
pass_init_keeps_wait(n) ==
  /\ pc[n] = "loop"
  /\ mlacp[n].state = "INIT"
  /\ LET m == [mlacp[n] EXCEPT !.state = "STAGE1"] IN
     /\ mlacp' = [mlacp EXCEPT ![n] = Stage(n, m, "NULL")]
     /\ Deliver(n, StageOut(n, m, "NULL"))
  /\ prev' = [prev EXCEPT ![n] = "INIT"]
  /\ UNCHANGED <<pc, ready, sock, open, backlog, iccpvars, app, mlacpq,
                 up, rgid>>

\* The first pass of a session: no dequeue, INIT becomes STAGE1.
pass_init(n) ==
  /\ pc[n] = "loop"
  /\ mlacp[n].state = "INIT"
  /\ LET m == [mlacp[n] EXCEPT !.state = "STAGE1", !.wait = FALSE] IN
     /\ mlacp' = [mlacp EXCEPT ![n] = Stage(n, m, "NULL")]
     /\ Deliver(n, StageOut(n, m, "NULL"))
  /\ prev' = [prev EXCEPT ![n] = "INIT"]
  /\ UNCHANGED <<pc, ready, sock, open, backlog, iccpvars, app, mlacpq,
                 up, rgid>>

pass_stage(n) ==
  /\ mlacp[n].state \in {"STAGE1", "STAGE2"}
  /\ Pass(n, Stage(n, mlacp[n], Msg(n)), StageOut(n, mlacp[n], Msg(n)))

pass_exchange(n) ==
  /\ mlacp[n].state = "EXCHANGE"
  /\ Pass(n, Exchange(mlacp[n], Msg(n)), ExchangeOut(mlacp[n], Msg(n)))

pass_error(n) ==
  /\ mlacp[n].state = "ERROR"
  /\ Pass(n, mlacp[n], <<>>)

(***************************************************************************)
(* The system.                                                             *)
(***************************************************************************)
Transit(n) ==
  \/ transit_idle(n) \/ transit_connect(n) \/ transit_accepted(n)
  \/ transit_initialized(n) \/ transit_capsent(n) \/ transit_caprec(n)
  \/ transit_connecting(n) \/ transit_operational(n)

\* The steps a node takes by itself.
Step(n) ==
  \/ csm_read(n) \/ csm_read_error(n) \/ server_accept(n)
  \/ Transit(n)
  \/ pass_init(n) \/ pass_stage(n) \/ pass_exchange(n) \/ pass_error(n)

\* What the operator and the environment do.
Configure(n) == attach(n) \/ detach(n)
Fault(n) == heartbeat_timeout(n) \/ config_disconnect(n) \/ restart(n)

Next == \E n \in Node : Step(n) \/ Configure(n) \/ Fault(n)

Spec == Init /\ [][Next]_vars

\* Both ends wait for an ICCP message that is not coming (it was dequeued
\* in NONEXISTENT): nobody sends heartbeats before OPERATIONAL.
Stalled(n) ==
  /\ sock[n] # NoConn
  /\ \A m \in Node : /\ sock[m] = sock[n]
                     /\ wire[sock[n]][m] = <<>>
                     /\ iccpq[m] = <<>>
                     /\ iccp[m] \in {"CAPSENT", "CONNECTING"}

\* The loop never stops: epoll_wait returns at the latest after its timeout,
\* and a descriptor that stays ready is reported again in every iteration;
\* the client tries to connect every CONNECT_INTERVAL_SEC; a connection on
\* which nothing is read times out.
Fairness ==
  /\ \A n \in Node :
       /\ WF_vars(Step(n))
       /\ SF_vars(csm_read(n) \/ csm_read_error(n))
       /\ WF_vars(Stalled(n) /\ heartbeat_timeout(n))
  /\ SF_vars(server_accept(Standby))
  /\ SF_vars(transit_connect(Active))

FairSpec == Spec /\ Fairness

(***************************************************************************)
(* Properties.                                                             *)
(***************************************************************************)
MlacpRecords == [state : MlacpStates, wait : BOOLEAN, need : BOOLEAN,
                 pif : BOOLEAN, lif : {"no", "unsent", "sent"},
                 purge : BOOLEAN]
InfoRecords  == [sender_cap : BOOLEAN, peer_cap : BOOLEAN,
                 sender_rg : BOOLEAN, peer_rg : BOOLEAN, status : BOOLEAN]

\* Type correctness of the session state of both nodes and of TCP.
TypeOK ==
  /\ pc \in [Node -> {"events", "loop"}]
  /\ ready \in [Node -> SUBSET {"peer", "listen"}]
  /\ sock \in [Node -> Conn \cup {NoConn}]
  /\ open \in [Conn -> SUBSET Node]
  /\ backlog \in Seq(Conn)
  /\ wire \in [Conn -> [Node -> Seq(Msgs)]]
  /\ role \in [Node -> Roles]
  /\ iccp \in [Node -> IccpStates]
  /\ info \in [Node -> InfoRecords]
  /\ iccpq \in [Node -> Seq(IccpMsgs)]
  /\ app \in [Node -> AppStates]
  /\ mlacp \in [Node -> MlacpRecords]
  /\ mlacpq \in [Node -> Seq(MlacpMsgs)]
  /\ prev \in [Node -> MlacpStates]
  /\ up \in [Node -> BOOLEAN]
  /\ rgid \in [Node -> RgIds]

MyRole(n) == IF n = Active THEN "ACTIVE" ELSE "STANDBY"

\* The layers are up only above one another, at every point of an iteration
\* and across disconnects, restarts and stale epoll events: the mLACP
\* synchronisation runs only over an operational application, that over an
\* operational ICCP connection, that over a socket, with the role its IP
\* gives the node.  So the reset in iccp_csm_transit that frees the CSM
\* scheduler_transit_fsm goes on to use, and the one at the head of
\* mlacp_fsm_transit, are never taken.
SessionLayered ==
  \A n \in Node :
    /\ mlacp[n].state # "INIT" => app[n] = "OPERATIONAL"
    /\ app[n] = "OPERATIONAL" => iccp[n] = "OPERATIONAL"
    /\ iccp[n] # "NONEXISTENT" => sock[n] # NoConn /\ role[n] = MyRole(n)

\* The nodes that hold the two ends of one connection.
Connected == sock[Active] # NoConn /\ sock[Active] = sock[Standby]

\* Over one connection the two synchronisations advance in step: ACTIVE
\* sends in stage 1 while STANDBY requests, then the other way round, and
\* ACTIVE is in EXCHANGE only when STANDBY is.
StageAgreement ==
  Connected =>
    LET a == mlacp[Active].state  s == mlacp[Standby].state IN
    /\ a \in {"INIT", "STAGE1"} => s \in {"INIT", "STAGE1"}
    /\ a = "STAGE2" => s \in {"STAGE1", "STAGE2", "EXCHANGE"}
    /\ a \in {"EXCHANGE", "ERROR"} => s \in {"EXCHANGE", "ERROR"}

\* A pass of the stage handlers that does not look at its message never
\* dequeues one that carries the peer's configuration or moves its stage:
\* mlacp_stage_sync_send_handler looks only at requests, and the pass of
\* mlacp_stage_sync_request_handler that sends the request at none.
NoSyncMessageDropped ==
  \A n \in Node :
    (pc[n] = "loop" /\ mlacp[n].state \in {"STAGE1", "STAGE2"}) =>
      /\ Sends(n, mlacp[n]) => Msg(n) \in {"NULL", "HEARTBEAT", "SYNC_REQUEST"}
      /\ (~Sends(n, mlacp[n]) /\ ~mlacp[n].wait) =>
            Msg(n) \in {"NULL", "HEARTBEAT"}

\* mlacp_peer_conn_handler runs before the node has spent an iteration in
\* EXCHANGE, in every session and not only in the first of the process
\* (prev_state outlives sessions), and the session is reported down as soon
\* as it is left.
UpIffExchange ==
  \A n \in Node :
    /\ (pc[n] = "events" /\ mlacp[n].state = "EXCHANGE") => up[n]
    /\ up[n] => mlacp[n].state \in {"EXCHANGE", "ERROR"}

\* Both nodes are in EXCHANGE on one connection and nothing is under way.
Settled ==
  /\ Connected
  /\ \A n \in Node : /\ mlacp[n].state = "EXCHANGE"
                     /\ pc[n] = "events"
                     /\ mlacpq[n] = <<>>
                     /\ wire[sock[n]][n] = <<>>
                     /\ ~mlacp[n].purge

\* Once everything sent is handled, the peer knows each PortChannel whose
\* configuration a node has sent, however attach, detach, stages and
\* reconnects were interleaved.
SentPortKnown ==
  Settled => \A n \in Node : mlacp[n].lif = "sent" => mlacp[Peer(n)].pif

\* Nodes whose redundancy group ids differ never get past the NAKs of the
\* RG connect handshake.
MismatchRefused ==
  rgid[Active] # rgid[Standby] =>
    \A n \in Node : iccp[n] # "OPERATIONAL" /\ mlacp[n].state = "INIT"

\* mlacp_fsm_transit: "should not be here" on the ERROR arm.
NeverError == \A n \in Node : mlacp[n].state # "ERROR"

\* Once everything sent is handled, the standby keeps no peer PortChannel
\* the active node no longer has (it would keep using the active node's
\* system MAC for it).
NoStalePif ==
  Settled => (mlacp[Standby].pif => mlacp[Active].lif # "no")

\* No disturbance other than the timeout that ends a stalled handshake.
Undisturbed == \A n \in Node : Fault(n) => Stalled(n) /\ heartbeat_timeout(n)

\* When disturbances cease, two nodes of one redundancy group reach EXCHANGE
\* and stay there, whatever the disturbances left behind: half-open
\* connections, dead ones in the listen queue, a lost capability message.
ReachesExchange ==
  (rgid[Active] = rgid[Standby] /\ <>[][Undisturbed]_vars) =>
    <>[](\A n \in Node : mlacp[n].state = "EXCHANGE")
=============================================================================
