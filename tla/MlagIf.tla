------------------------------- MODULE MlagIf -------------------------------
(***************************************************************************)
(* One MLAG PortChannel of iccpd on two switches: its link state, its      *)
(* isolation from the peer link, the disabling of its traffic until the    *)
(* peer has acknowledged that it is up, and what the peer knows of it      *)
(* (mlacp_link_handler.c, the sending and receiving half of mlacp_fsm.c,   *)
(* mlacp_sync_update.c, app_csm.c, iccp_cli.c).                            *)
(*                                                                         *)
(* The session below it is IccpSession's, reduced to a connection both of  *)
(* whose ends have reached APP_OPERATIONAL.  An iteration of the scheduler *)
(* loop of one node is one step: its passes over the mLACP queue touch     *)
(* only the node's own state and append to the connection.  Messages that  *)
(* leave this state alone (system config, PortChannel and peer link info,  *)
(* MAC, ARP, ND, heartbeats, the start marker of the data) are left out.   *)
(* mclagsyncd is connected: writes to it succeed.                          *)
(***************************************************************************)
EXTENDS Naturals, Sequences

CONSTANTS
  Active,      \* the node with role ACTIVE
  Standby,     \* the node with role STANDBY
  PeerLinks,   \* whether peer_link_if is set, as far as runs vary it
  MaxInFlight  \* bound: messages under way when the operator or a link acts

ASSUME NodesDiffer == Active # Standby
ASSUME BoundNat == MaxInFlight \in Nat
ASSUME PeerLinksBoolean == PeerLinks \subseteq BOOLEAN

Node == {Active, Standby}
Peer(n) == IF n = Active THEN Standby ELSE Active

Stages == {"INIT", "STAGE1", "STAGE2", "EXCHANGE", "ERROR"}

\* Aggregator config, the same with the purge flag, aggregator state up and
\* down, interface-up ack, sync request, end of sync data.
Msgs == {"CONF", "PURGE", "UP", "DOWN", "ACK", "REQ", "DONE"}

VARIABLES
  node,     \* node[n]: the state of node n, fields below
  wire,     \* wire[n]: messages sent to n and not yet read
  open,     \* the nodes whose end of the connection is open
  peerlink, \* csm->peer_link_if is set during a session
  detached  \* history: the nodes whose PortChannel was ever detached

vars == <<node, wire, open, peerlink, detached>>

\* stage, wait, need: MLACP(csm).current_state, wait_for_sync_data and
\* need_to_sync; link: lif->state up, and lif->po_active, which follows it
\* (update_po_if_info when bound, the netlink handler when not); bound:
\* lif->csm is set; cfg, changed: port_config_sync, changed; purge: lif is
\* in lif_purge_list; tdis: is_traffic_disable; iso: isolate_to_peer_link;
\* pif: state of the peer's PortChannel in pif_list; out: what the node
\* writes to its socket during the step.
NodeInit == [stage |-> "INIT", wait |-> FALSE, need |-> FALSE,
             link |-> FALSE, bound |-> FALSE, cfg |-> FALSE,
             changed |-> TRUE, purge |-> FALSE, tdis |-> FALSE,
             iso |-> FALSE, pif |-> "none", out |-> <<>>]

Init ==
  /\ node = [n \in Node |-> NodeInit]
  /\ wire = [n \in Node |-> <<>>]
  /\ open = {}
  /\ peerlink \in PeerLinks
  /\ detached = {}

Send(m, msgs) == [m EXCEPT !.out = @ \o msgs]
State(up) == IF up THEN "UP" ELSE "DOWN"
Pif(up) == IF up THEN "up" ELSE "down"

(***************************************************************************)
(* mlacp_link_handler.c.  Each handler maps the node to what it leaves.    *)
(***************************************************************************)
\* update_peerlink_isolate_from_lif: a peer PortChannel that is not known
\* counts as up.
isolate_from_lif(m, up) ==
  IF peerlink /\ m.stage = "EXCHANGE" /\ up
  THEN [m EXCEPT !.iso = (m.pif # "down")] ELSE m

\* update_peerlink_isolate_from_pif, past its test for a change.
isolate_from_pif(m, up) ==
  IF peerlink /\ m.stage = "EXCHANGE" /\ m.bound /\ m.link
  THEN [m EXCEPT !.iso = up] ELSE m

\* mlacp_link_disable_traffic_distribution.
disable_traffic(m) ==
  IF m.bound /\ m.stage = "EXCHANGE" /\ ~m.link
  THEN [m EXCEPT !.tdis = TRUE] ELSE m

\* mlacp_link_enable_traffic_distribution.
enable_traffic(m) == IF m.bound THEN [m EXCEPT !.tdis = FALSE] ELSE m

\* mlacp_portchannel_state_handler with update_po_if_info.
state_handler(m, up) ==
  LET i == isolate_from_lif(m, up)
      p == [i EXCEPT !.link = up, !.changed = @ \/ m.link # up]
  IN  IF up THEN p ELSE disable_traffic(p)

\* Mutant of peer_conn_handler: lif_list is not gone over.
peer_conn_handler_no_ports(m) == m

\* mlacp_peer_conn_handler.
peer_conn_handler(m) == IF m.bound THEN state_handler(m, m.link) ELSE m

\* mlacp_peer_disconn_handler.
peer_disconn_handler(m) ==
  IF m.bound THEN enable_traffic([m EXCEPT !.iso = FALSE]) ELSE m

\* mlacp_mlag_intf_detach_handler with mlacp_mlag_link_del_handler.
intf_detach_handler(m) ==
  LET d == IF m.stage = "EXCHANGE" THEN [m EXCEPT !.iso = FALSE] ELSE m
  IN  IF peerlink THEN d ELSE enable_traffic(d)

(***************************************************************************)
(* mlacp_fsm.c and mlacp_sync_update.c.                                    *)
(***************************************************************************)
\* current_state++
Succ(s) == CASE s = "INIT"     -> "STAGE1"
             [] s = "STAGE1"   -> "STAGE2"
             [] s = "STAGE2"   -> "EXCHANGE"
             [] s = "EXCHANGE" -> "ERROR"
             [] s = "ERROR"    -> "ERROR"

\* mlacp_sync_send_all_info_handler: aggConf, aggState, ..., done.
SendAll(m) ==
  LET s == IF m.bound
           THEN Send([m EXCEPT !.cfg = FALSE, !.changed = FALSE],
                     <<"CONF", State(m.link)>>)
           ELSE m
  IN  [Send(s, <<"DONE">>) EXCEPT !.wait = FALSE, !.stage = Succ(@)]

\* mlacp_fsm_update_Agg_conf: a new peer PortChannel is up.
update_Agg_conf(m) ==
  IF m.pif # "none" THEN m
  ELSE isolate_from_pif([m EXCEPT !.pif = "up"], TRUE)

\* mlacp_fsm_update_Agg_conf with the purge flag.
purge_Agg_conf(m) ==
  IF m.pif # "none" THEN [m EXCEPT !.pif = "none"] ELSE [m EXCEPT !.need = TRUE]

\* Mutant of update_Aggport_state: the value of the TLV is stored.
update_Aggport_state_raw(m, up) ==
  IF m.pif \in {"none", Pif(up)} THEN m
  ELSE [isolate_from_pif(m, up) EXCEPT !.pif = State(up)]

\* mlacp_fsm_update_Aggport_state.
update_Aggport_state(m, up) ==
  IF m.pif \in {"none", Pif(up)} THEN m
  ELSE [isolate_from_pif(m, up) EXCEPT !.pif = Pif(up)]

\* mlacp_fsm_send_if_up_ack.
send_if_up_ack(m) == IF m.stage = "EXCHANGE" THEN Send(m, <<"ACK">>) ELSE m

\* Mutant of recv_aggState: only a change of state is acknowledged.
recv_aggState_acks_change(m, up) ==
  LET u == update_Aggport_state(m, up)
  IN  IF up /\ m.pif # "up" THEN send_if_up_ack(u) ELSE u

\* mlacp_sync_recv_aggState: acknowledged also when nothing was updated.
recv_aggState(m, up) ==
  LET u == update_Aggport_state(m, up)
  IN  IF up THEN send_if_up_ack(u) ELSE u

\* Mutant of recv_if_up_ack: the link is not looked at.
recv_if_up_ack_always(m) == enable_traffic(m)

\* mlacp_fsm_recv_if_up_ack: ignored when the PortChannel has gone down.
recv_if_up_ack(m) == IF m.link THEN enable_traffic(m) ELSE m

\* mlacp_sync_receiver_handler; "NULL" when there is no message.
Receive(m, msg) ==
  CASE msg = "CONF"  -> update_Agg_conf(m)
    [] msg = "PURGE" -> purge_Agg_conf(m)
    [] msg = "UP"    -> recv_aggState(m, TRUE)
    [] msg = "DOWN"  -> recv_aggState(m, FALSE)
    [] msg = "ACK"   -> recv_if_up_ack(m)
    [] msg = "REQ"   -> SendAll(m)
    [] msg = "DONE"  -> [m EXCEPT !.wait = FALSE]
    [] OTHER         -> m

\* mlacp_stage_handler: ACTIVE sends in stage 1, STANDBY in stage 2; the
\* other one requests and then waits for the end of the data.
Stage(n, m, msg) ==
  IF (m.stage = "STAGE1") = (n = Active)
  THEN IF ~m.wait /\ msg = "REQ" THEN SendAll(m) ELSE m
  ELSE IF ~m.wait THEN Send([m EXCEPT !.wait = TRUE], <<"REQ">>)
  ELSE LET r == Receive(m, msg)
       IN  IF r.wait THEN r ELSE [r EXCEPT !.stage = Succ(@)]

\* The sending half of mlacp_exchange_handler: request, purge, config (a
\* PortChannel that is down gets its traffic disabled first), state.
\* sent: the write of the state succeeds.
FlushRequest(m) ==
  IF m.need THEN Send([m EXCEPT !.need = FALSE], <<"REQ">>) ELSE m
FlushPurge(m) ==
  IF m.purge THEN [Send(m, <<"PURGE">>) EXCEPT !.purge = FALSE] ELSE m
FlushConfig(m) ==
  IF m.bound /\ m.cfg
  THEN Send([disable_traffic(m) EXCEPT !.cfg = FALSE], <<"CONF">>) ELSE m
FlushState(m, sent) ==
  IF m.bound /\ m.changed
  THEN Send([m EXCEPT !.changed = ~sent], <<State(m.link)>>) ELSE m
Flush(m, sent) ==
  FlushState(FlushConfig(FlushPurge(FlushRequest(m))), sent)

\* A pass of the loop of mlacp_fsm_transit, past the dequeue.
Pass(n, m, msg, sent) ==
  CASE m.stage \in {"STAGE1", "STAGE2"} -> Stage(n, m, msg)
    [] m.stage = "EXCHANGE"             -> Flush(Receive(m, msg), sent)
    [] OTHER                            -> m

\* Mutant of Transit: local_if_change_flag_clear ends every iteration.
Transit_clears_changed(n, m, msg, sent) ==
  LET a == Pass(n, m, msg, sent)
      b == IF m.stage # "EXCHANGE" /\ a.stage = "EXCHANGE"
           THEN peer_conn_handler(a) ELSE a
  IN  [Pass(n, b, "NULL", sent) EXCEPT !.changed = FALSE]

\* mlacp_fsm_transit on at most one message: its pass, and the pass that
\* finds the queue empty.  A pass that enters EXCHANGE (only a message can)
\* is followed by mlacp_peer_conn_handler.
Transit(n, m, msg, sent) ==
  LET a == Pass(n, m, msg, sent)
      b == IF m.stage # "EXCHANGE" /\ a.stage = "EXCHANGE"
           THEN peer_conn_handler(a) ELSE a
  IN  Pass(n, b, "NULL", sent)

\* The first pass of a session: INIT becomes STAGE1.
Start(m) == IF m.stage = "INIT" THEN [m EXCEPT !.stage = "STAGE1", !.wait = FALSE]
                                ELSE m

(***************************************************************************)
(* Actions.                                                                *)
(***************************************************************************)
InFlight == Len(wire[Active]) + Len(wire[Standby])

\* Node n becomes m; what m wrote reaches the peer unless it has closed.
Becomes(n, m, input) ==
  /\ node' = [node EXCEPT ![n] = [m EXCEPT !.out = <<>>]]
  /\ wire' = [k \in Node |->
               IF k = n THEN input
               ELSE IF k \in open THEN wire[k] \o m.out ELSE wire[k]]

\* A write to a connection whose other end is closed may fail.
Sent(n) == IF Peer(n) \in open THEN {TRUE} ELSE BOOLEAN

\* An iteration that reads a message of the session.
read(n) ==
  /\ n \in open
  /\ node[n].stage # "INIT"
  /\ wire[n] # <<>>
  /\ \E sent \in Sent(n) :
       Becomes(n, Transit(n, node[n], Head(wire[n]), sent), Tail(wire[n]))
  /\ UNCHANGED <<open, peerlink, detached>>

\* An iteration that reads none.
idle(n) ==
  /\ n \in open
  /\ \E sent \in Sent(n) :
       Becomes(n, Transit(n, Start(node[n]), "NULL", sent), wire[n])
  /\ UNCHANGED <<open, peerlink, detached>>

\* netlink: the PortChannel goes up or down (iccp_from_netlink_port_state_
\* handler when it is bound, the flags alone when it is not).
link_change(n) ==
  /\ InFlight < MaxInFlight
  /\ LET m == node[n] IN
     Becomes(n, IF m.bound THEN state_handler(m, ~m.link)
                           ELSE [m EXCEPT !.link = ~@], wire[n])
  /\ UNCHANGED <<open, peerlink, detached>>

\* iccp_cli_attach_mclag_domain_to_port_channel: mlacp_bind_local_if and
\* mlacp_mlag_link_add_handler.
attach(n) ==
  /\ InFlight < MaxInFlight
  /\ ~node[n].bound
  /\ LET m == [node[n] EXCEPT !.bound = TRUE, !.cfg = TRUE, !.purge = FALSE] IN
     Becomes(n, isolate_from_lif(m, m.link), wire[n])
  /\ UNCHANGED <<open, peerlink, detached>>

\* iccp_cli_detach_mclag_domain_to_port_channel: the detach handler and
\* mlacp_unbind_local_if.
detach(n) ==
  /\ InFlight < MaxInFlight
  /\ node[n].bound
  /\ LET m == intf_detach_handler(node[n]) IN
     Becomes(n, [m EXCEPT !.bound = FALSE, !.purge = (m.stage = "EXCHANGE")],
             wire[n])
  /\ detached' = detached \cup {n}
  /\ UNCHANGED <<open, peerlink>>

\* A new connection has reached APP_OPERATIONAL on both nodes.
session_up ==
  /\ open = {}
  /\ open' = Node
  /\ UNCHANGED <<node, wire, peerlink, detached>>

\* scheduler_session_disconnect_handler, whatever calls it.
session_down(n) ==
  /\ LET m == peer_disconn_handler(node[n]) IN
     Becomes(n, [m EXCEPT !.stage = "INIT", !.need = FALSE, !.purge = FALSE,
                          !.pif = "none"], <<>>)
  /\ open' = open \ {n}
  /\ UNCHANGED <<peerlink, detached>>

Step(n) == read(n) \/ idle(n)
Disturb(n) == link_change(n) \/ attach(n) \/ detach(n) \/ session_down(n)

Next == session_up \/ \E n \in Node : Step(n) \/ Disturb(n)

Spec == Init /\ [][Next]_vars

(***************************************************************************)
(* Properties.                                                             *)
(***************************************************************************)
NodeRecords == [stage : Stages, wait : BOOLEAN, need : BOOLEAN,
                link : BOOLEAN, bound : BOOLEAN, cfg : BOOLEAN,
                changed : BOOLEAN, purge : BOOLEAN, tdis : BOOLEAN,
                iso : BOOLEAN, pif : {"none", "up", "down"},
                out : Seq(Msgs)]

\* Type correctness; nothing a step writes is left behind in out.
TypeOK ==
  /\ node \in [Node -> NodeRecords]
  /\ \A n \in Node : node[n].out = <<>>
  /\ wire \in [Node -> Seq(Msgs)]
  /\ open \subseteq Node
  /\ peerlink \in BOOLEAN
  /\ detached \subseteq Node

\* In EXCHANGE the PortChannel is isolated from the peer link exactly when
\* the peer's is known to be up, whatever order of link flaps, attaches,
\* peer updates and reconnects led there: isolated while the peer's is down
\* the traffic for it would be lost, not isolated while it is up frames
\* would arrive twice.
IsolationFollowsPeer ==
  \A n \in Node :
    LET m == node[n] IN
    (peerlink /\ m.stage = "EXCHANGE" /\ m.bound /\ m.link /\ m.pif # "none")
      => (m.iso <=> m.pif = "up")

\* In EXCHANGE the traffic of a PortChannel that is down is disabled, so
\* that it cannot come up before the peer isolates it, once an attach has
\* been announced to the peer.
DownMeansDisabled ==
  \A n \in Node :
    LET m == node[n] IN
    (m.stage = "EXCHANGE" /\ m.bound /\ ~m.link /\ ~m.cfg) => m.tdis

\* Both nodes are in EXCHANGE and everything pending has been handled.
Settled ==
  /\ open = Node
  /\ \A n \in Node : /\ node[n].stage = "EXCHANGE"
                     /\ wire[n] = <<>>
                     /\ ~(node[n].bound /\ (node[n].cfg \/ node[n].changed))
                     /\ ~node[n].purge /\ ~node[n].need

\* Once everything is handled, a PortChannel that is up passes traffic: no
\* order of flaps, stages, acks and reconnects loses the ack it waits for.
TrafficRestored ==
  Settled => \A n \in Node \ detached :
               node[n].bound /\ node[n].link => ~node[n].tdis

\* Once everything is handled, the peer knows the state of the PortChannel,
\* also when it changed in a stage in which nothing is sent.
PeerStateCurrent ==
  Settled => \A n \in Node \ detached :
               node[n].bound => node[Peer(n)].pif = Pif(node[n].link)

\* mlacp_mlag_intf_detach_handler: a PortChannel that has come up and is
\* detached before the ack arrives is unblocked.
DetachUnblocks ==
  \A n \in Node : ~node[n].bound /\ node[n].link => ~node[n].tdis
=============================================================================
