------------------------- MODULE IccpSessionProofs -------------------------
(***************************************************************************)
(* Proofs about IccpSession for any number of connection slots, any        *)
(* redundancy group ids and any bound: type correctness, the layering of   *)
(* the state machines, the refusal of mismatched group ids, and the report *)
(* that the session is up.                                                 *)
(*                                                                         *)
(* The second half defines the invariant of the synchronisation and how its *)
(* parts survive the sending and the reading of messages; IccpStageProofs  *)
(* proves that every action keeps it.                                      *)
(***************************************************************************)
EXTENDS IccpSession, SequenceTheorems, TLAPS

(***************************************************************************)
(* Types of the operators the actions are built from.                      *)
(***************************************************************************)
\* The peer of a node is the other node.
LEMMA PeerNode == \A n \in Node : Peer(n) \in Node /\ Peer(n) # n
  BY NodesDiffer DEF Node, Peer

\* current_state++ stays within the enumeration (ERROR is its last value).
LEMMA SuccType == \A s \in MlacpStates : Succ(s) \in MlacpStates
  BY DEF MlacpStates, Succ

\* Sequences of at most one message.
LEMMA OneMessage == <<>> \in Seq(Msgs) /\ \A x \in Msgs : <<x>> \in Seq(Msgs)
  OBVIOUS

\* Every message name the model sends is a message.
LEMMA Names == {"CAPABILITY", "RG_CONNECT", "NAK", "SYNC_REQUEST",
                "SYNC_START", "SYNC_DONE", "AGG_CONFIG", "AGG_PURGE",
                "HEARTBEAT"} \subseteq Msgs
  BY DEF Msgs, IccpMsgs, MlacpMsgs

\* The messages of a full synchronisation are mLACP messages.
LEMMA SendAllType ==
  ASSUME NEW m \in MlacpRecords
  PROVE  SendAll(m) \in MlacpRecords /\ SendAllOut(m) \in Seq(Msgs)
<1>1. SendAll(m) \in MlacpRecords
  BY SuccType, Zenon DEF SendAll, Synced, MlacpRecords
<1>2. <<"SYNC_START">> \in Seq(Msgs) /\ <<"SYNC_DONE">> \in Seq(Msgs)
      /\ <<"AGG_CONFIG">> \in Seq(Msgs)
  BY OneMessage, Names
<1>3. (IF m.lif # "no" THEN <<"AGG_CONFIG">> ELSE <<>>) \in Seq(Msgs)
  BY <1>2
<1> QED BY <1>1, <1>2, <1>3 DEF SendAllOut

\* The receiver keeps the record's type whatever it receives.
LEMMA ReceiveType ==
  ASSUME NEW m \in MlacpRecords, NEW msg
  PROVE  Receive(m, msg) \in MlacpRecords /\ ReceiveOut(m, msg) \in Seq(Msgs)
<1>1. SendAll(m) \in MlacpRecords /\ SendAllOut(m) \in Seq(Msgs)
  BY SendAllType
<1>2. Receive(m, msg) \in MlacpRecords
  BY <1>1, ZenonT(30) DEF Receive, MlacpRecords
<1>3. ReceiveOut(m, msg) \in Seq(Msgs)
  BY <1>1 DEF ReceiveOut
<1> QED BY <1>2, <1>3

\* So do the stage handlers.
LEMMA StageType ==
  ASSUME NEW n \in Node, NEW m \in MlacpRecords, NEW msg
  PROVE  Stage(n, m, msg) \in MlacpRecords /\ StageOut(n, m, msg) \in Seq(Msgs)
<1>1. /\ SendAll(m) \in MlacpRecords /\ SendAllOut(m) \in Seq(Msgs)
      /\ Receive(m, msg) \in MlacpRecords /\ ReceiveOut(m, msg) \in Seq(Msgs)
  BY SendAllType, ReceiveType
<1>2. StageSend(m, msg) \in MlacpRecords /\ StageSendOut(m, msg) \in Seq(Msgs)
  BY <1>1 DEF StageSend, StageSendOut
<1>3. StageRequest(m, msg) \in MlacpRecords
  BY <1>1, SuccType, Zenon DEF StageRequest, MlacpRecords
<1>4. StageRequestOut(m, msg) \in Seq(Msgs)
  BY <1>1, OneMessage, Names DEF StageRequestOut
<1> QED BY <1>2, <1>3, <1>4 DEF Stage, StageOut

\* And the exchange handler.
LEMMA ExchangeType ==
  ASSUME NEW m \in MlacpRecords, NEW msg
  PROVE  Exchange(m, msg) \in MlacpRecords /\ ExchangeOut(m, msg) \in Seq(Msgs)
<1> DEFINE r == Receive(m, msg)
           a == IF r.need THEN <<"SYNC_REQUEST">> ELSE <<>>
           b == IF r.purge THEN <<"AGG_PURGE">> ELSE <<>>
           c == IF r.lif = "unsent" THEN <<"AGG_CONFIG">> ELSE <<>>
<1>1. r \in MlacpRecords /\ ReceiveOut(m, msg) \in Seq(Msgs)
  BY ReceiveType
<1>2. Exchange(m, msg) \in MlacpRecords
  BY <1>1, ZenonT(30) DEF Exchange, Synced, MlacpRecords
<1>3. a \in Seq(Msgs) /\ b \in Seq(Msgs) /\ c \in Seq(Msgs)
  BY OneMessage, Names
<1>4. ExchangeOut(m, msg) = ReceiveOut(m, msg) \o a \o b \o c
  BY DEF ExchangeOut
<1> HIDE DEF a, b, c
<1> QED BY <1>1, <1>2, <1>3, <1>4

\* The ICCP flags keep their type.
LEMMA CorrespondType ==
  ASSUME TypeOK, NEW n \in Node
  PROVE  /\ Correspond(n) \in InfoRecords
         /\ \A s : EnterState(s, Correspond(n)) \in InfoRecords
<1>1. info[n] \in InfoRecords /\ iccpq[n] \in Seq(IccpMsgs)
  BY DEF TypeOK
<1>2. CASE iccpq[n] = <<>>
  <2>1. Correspond(n) = info[n] BY <1>2 DEF Correspond
  <2> QED BY <1>1, <2>1, Zenon DEF EnterState, InfoRecords
<1>3. CASE iccpq[n] # <<>>
  <2>1. Head(iccpq[n]) \in IccpMsgs BY <1>1, <1>3
  <2>2. Correspond(n) \in InfoRecords
    BY <1>1, <1>3, <2>1, Zenon DEF Correspond, InfoRecords, IccpMsgs
  <2> QED BY <2>2, Zenon DEF EnterState, InfoRecords
<1> QED BY <1>2, <1>3

\* Sending appends to the peer's input and changes nothing else of TCP.
LEMMA DeliverType ==
  ASSUME TypeOK, NEW n \in Node, NEW out \in Seq(Msgs), Deliver(n, out)
  PROVE  wire' \in [Conn -> [Node -> Seq(Msgs)]]
<1> DEFINE c == sock[n]  p == Peer(n)
<1>1. wire \in [Conn -> [Node -> Seq(Msgs)]] BY DEF TypeOK
<1>2. CASE c # NoConn /\ p \in open[c]
  <2>1. c \in Conn /\ p \in Node BY <1>2, PeerNode DEF TypeOK
  <2>2. wire[c][p] \o out \in Seq(Msgs) BY <1>1, <2>1
  <2>3. wire' = [wire EXCEPT ![c][p] = wire[c][p] \o out]
    BY <1>2 DEF Deliver
  <2> HIDE DEF c, p
  <2> QED BY <1>1, <2>1, <2>2, <2>3
<1>3. CASE ~(c # NoConn /\ p \in open[c])
  BY <1>1, <1>3 DEF Deliver
<1> QED BY <1>2, <1>3

\* Closing an end keeps the types of TCP.
LEMMA CloseEndType ==
  ASSUME TypeOK, NEW n \in Node, NEW c \in Conn, CloseEnd(n, c)
  PROVE  /\ open' \in [Conn -> SUBSET Node]
         /\ wire' \in [Conn -> [Node -> Seq(Msgs)]]
<1>1. open' \in [Conn -> SUBSET Node] BY DEF TypeOK, CloseEnd
<1>2. <<>> \in Seq(Msgs) OBVIOUS
<1>3. wire' \in [Conn -> [Node -> Seq(Msgs)]] BY <1>2 DEF TypeOK, CloseEnd
<1> QED BY <1>1, <1>3

\* A disconnect resets the session to well-typed values.
LEMMA DisconnectType ==
  ASSUME TypeOK, NEW n \in Node, session_disconnect(n),
         pc' \in [Node -> {"events", "loop"}],
         ready' \in [Node -> SUBSET {"peer", "listen"}]
  PROVE  TypeOK'
<1>1. /\ sock' \in [Node -> Conn \cup {NoConn}]
      /\ open' \in [Conn -> SUBSET Node]
      /\ wire' \in [Conn -> [Node -> Seq(Msgs)]]
  <2>1. sock' \in [Node -> Conn \cup {NoConn}]
    BY DEF TypeOK, session_disconnect, socket_cleanup
  <2>2. CASE sock[n] = NoConn
    BY <2>1, <2>2 DEF TypeOK, session_disconnect, socket_cleanup
  <2>3. CASE sock[n] # NoConn
    <3>1. sock[n] \in Conn BY <2>3 DEF TypeOK
    <3>2. CloseEnd(n, sock[n])
      BY <2>3 DEF session_disconnect, socket_cleanup
    <3> QED BY <2>1, <3>1, <3>2, CloseEndType
  <2> QED BY <2>2, <2>3
<1>2. /\ role' \in [Node -> Roles] /\ iccp' \in [Node -> IccpStates]
      /\ info' \in [Node -> InfoRecords]
  BY DEF TypeOK, session_disconnect, Roles, IccpStates, InfoRecords, InfoReset
<1>3. iccpq' \in [Node -> Seq(IccpMsgs)] /\ mlacpq' \in [Node -> Seq(MlacpMsgs)]
  BY DEF TypeOK, session_disconnect
<1>4. app' \in [Node -> AppStates] /\ up' \in [Node -> BOOLEAN]
  BY DEF TypeOK, session_disconnect, AppStates
<1>5. mlacp' \in [Node -> MlacpRecords]
  <2> DEFINE m == [mlacp[n] EXCEPT !.state = "INIT", !.need = FALSE,
                                   !.pif = FALSE, !.purge = FALSE]
  <2>1. mlacp[n] \in MlacpRecords BY DEF TypeOK
  <2>2. m \in MlacpRecords BY <2>1, Zenon DEF MlacpRecords, MlacpStates
  <2>3. mlacp' = [mlacp EXCEPT ![n] = m] BY DEF session_disconnect
  <2> QED BY <2>2, <2>3 DEF TypeOK
<1>6. backlog' \in Seq(Conn) /\ prev' \in [Node -> MlacpStates]
      /\ rgid' \in [Node -> RgIds]
  BY DEF TypeOK, session_disconnect
<1> QED BY <1>1, <1>2, <1>3, <1>4, <1>5, <1>6 DEF TypeOK

\* Ending an iteration sets pc and ready to well-typed values.
LEMMA EndIterationType ==
  ASSUME TypeOK, NEW n \in Node, NEW c, EndIteration(n, c)
  PROVE  /\ pc' \in [Node -> {"events", "loop"}]
         /\ ready' \in [Node -> SUBSET {"peer", "listen"}]
  BY DEF TypeOK, EndIteration, Watched

\* Dequeuing keeps the type of the ICCP queue.
LEMMA DequeueType ==
  ASSUME TypeOK, NEW n \in Node, Dequeue(n)
  PROVE  iccpq' \in [Node -> Seq(IccpMsgs)]
<1>1. iccpq[n] \in Seq(IccpMsgs) BY DEF TypeOK
<1>2. (IF iccpq[n] = <<>> THEN iccpq[n] ELSE Tail(iccpq[n])) \in Seq(IccpMsgs)
  BY <1>1
<1> QED BY <1>2 DEF TypeOK, Dequeue

\* iccp_csm_transit with a connection keeps every type.
LEMMA IccpStepType ==
  ASSUME TypeOK, NEW n \in Node, NEW s \in IccpStates, NEW out \in Seq(Msgs),
         IccpStep(n, s, out)
  PROVE  TypeOK'
<1>1. AppTransit(n, s, out) BY DEF IccpStep
<1>2. app' \in [Node -> AppStates]
  BY <1>1 DEF TypeOK, AppTransit, AppStates
<1>3. wire' \in [Conn -> [Node -> Seq(Msgs)]]
  <2>1. Append(out, "HEARTBEAT") \in Seq(Msgs) BY Names
  <2>2. Deliver(n, out) \/ Deliver(n, Append(out, "HEARTBEAT"))
    BY <1>1 DEF AppTransit
  <2> QED BY <2>1, <2>2, DeliverType, Zenon
<1>4. /\ pc' \in [Node -> {"events", "loop"}]
      /\ ready' \in [Node -> SUBSET {"peer", "listen"}]
  <2>1. CASE EndIteration(n, sock[n]) BY <2>1, EndIterationType
  <2>2. CASE pc' = [pc EXCEPT ![n] = "loop"] /\ UNCHANGED ready
    BY <2>2 DEF TypeOK
  <2> QED BY <1>1, <2>1, <2>2 DEF AppTransit
<1>5. iccp' \in [Node -> IccpStates] BY DEF TypeOK, IccpStep
<1>6. info' \in [Node -> InfoRecords]
  <2>1. /\ Correspond(n) \in InfoRecords
        /\ EnterState(s, Correspond(n)) \in InfoRecords
    BY CorrespondType
  <2> QED BY <2>1 DEF TypeOK, IccpStep
<1>7. iccpq' \in [Node -> Seq(IccpMsgs)] BY DequeueType DEF IccpStep
<1>8. UNCHANGED <<sock, open, backlog, role, mlacp, mlacpq, prev, up, rgid>>
  BY DEF IccpStep
<1> QED BY <1>2, <1>3, <1>4, <1>5, <1>6, <1>7, <1>8 DEF TypeOK

\* A pass of the mLACP loop keeps every type.
LEMMA PassType ==
  ASSUME TypeOK, NEW n \in Node, NEW m \in MlacpRecords, NEW out \in Seq(Msgs),
         Pass(n, m, out)
  PROVE  TypeOK'
<1>1. wire' \in [Conn -> [Node -> Seq(Msgs)]] BY DeliverType DEF Pass
<1>2. mlacp' \in [Node -> MlacpRecords] BY DEF TypeOK, Pass
<1>3. mlacpq' \in [Node -> Seq(MlacpMsgs)]
  <2>1. mlacpq[n] \in Seq(MlacpMsgs) BY DEF TypeOK
  <2>2. (IF mlacpq[n] = <<>> THEN mlacpq[n] ELSE Tail(mlacpq[n]))
          \in Seq(MlacpMsgs)
    BY <2>1
  <2> QED BY <2>2 DEF TypeOK, Pass
<1>4. up' \in [Node -> BOOLEAN]
  <2> DEFINE u == up[n] \/ (prev[n] # "EXCHANGE" /\ mlacp[n].state = "EXCHANGE")
  <2>1. up' = [up EXCEPT ![n] = u] BY DEF Pass
  <2>2. u \in BOOLEAN BY DEF TypeOK
  <2> QED BY <2>1, <2>2 DEF TypeOK
<1>5. prev' \in [Node -> MlacpStates]
  <2>1. mlacp[n].state \in MlacpStates BY DEF TypeOK, MlacpRecords
  <2> QED BY <2>1 DEF TypeOK, Pass
<1>6. /\ pc' \in [Node -> {"events", "loop"}]
      /\ ready' \in [Node -> SUBSET {"peer", "listen"}]
  <2>1. CASE EndIteration(n, sock[n]) BY <2>1, EndIterationType
  <2>2. CASE UNCHANGED <<pc, ready>> BY <2>2 DEF TypeOK
  <2> QED BY <2>1, <2>2 DEF Pass
<1>7. UNCHANGED <<sock, open, backlog, role, iccp, info, iccpq, app, rgid>>
  BY DEF Pass, iccpvars
<1> QED BY <1>1, <1>2, <1>3, <1>4, <1>5, <1>6, <1>7 DEF TypeOK

\* The message a pass handles is typed by its queue or is "NULL"; the record
\* and the output of every pass are typed.
LEMMA PassesType ==
  ASSUME TypeOK, NEW n \in Node
  PROVE  /\ pass_init(n) => TypeOK'
         /\ pass_stage(n) => TypeOK'
         /\ pass_exchange(n) => TypeOK'
         /\ pass_error(n) => TypeOK'
<1>1. mlacp[n] \in MlacpRecords BY DEF TypeOK
<1>2. ASSUME pass_init(n) PROVE TypeOK'
  <2> DEFINE m == [mlacp[n] EXCEPT !.state = "STAGE1", !.wait = FALSE]
  <2>1. m \in MlacpRecords BY <1>1, Zenon DEF MlacpRecords, MlacpStates
  <2> HIDE DEF m
  <2>2. /\ Stage(n, m, "NULL") \in MlacpRecords
        /\ StageOut(n, m, "NULL") \in Seq(Msgs)
    BY <2>1, StageType
  <2>3. /\ mlacp' = [mlacp EXCEPT ![n] = Stage(n, m, "NULL")]
        /\ Deliver(n, StageOut(n, m, "NULL"))
    BY <1>2 DEF pass_init, m
  <2>4. wire' \in [Conn -> [Node -> Seq(Msgs)]] BY <2>2, <2>3, DeliverType
  <2>5. mlacp' \in [Node -> MlacpRecords] BY <2>2, <2>3 DEF TypeOK
  <2>6. prev' \in [Node -> MlacpStates]
    BY <1>2 DEF pass_init, TypeOK, MlacpStates
  <2>7. UNCHANGED <<pc, ready, sock, open, backlog, role, iccp, info, iccpq,
                    app, mlacpq, up, rgid>>
    BY <1>2 DEF pass_init, iccpvars
  <2> QED BY <2>4, <2>5, <2>6, <2>7 DEF TypeOK
<1>3. ASSUME pass_stage(n) PROVE TypeOK'
  BY <1>1, <1>3, StageType, PassType DEF pass_stage
<1>4. ASSUME pass_exchange(n) PROVE TypeOK'
  BY <1>1, <1>4, ExchangeType, PassType DEF pass_exchange
<1>5. ASSUME pass_error(n) PROVE TypeOK'
  BY <1>1, <1>5, OneMessage, PassType, Zenon DEF pass_error
<1> QED BY <1>2, <1>3, <1>4, <1>5

\* The handlers of ready descriptors and the commands keep every type.
LEMMA EventsType ==
  ASSUME TypeOK, NEW n \in Node
  PROVE  /\ csm_read(n) => TypeOK'
         /\ csm_read_error(n) => TypeOK'
         /\ server_accept(n) => TypeOK'
         /\ config_disconnect(n) => TypeOK'
         /\ heartbeat_timeout(n) => TypeOK'
<1>1. ASSUME NEW fd, Handle(n, fd)
      PROVE  /\ pc' \in [Node -> {"events", "loop"}]
             /\ ready' \in [Node -> SUBSET {"peer", "listen"}]
  BY <1>1 DEF TypeOK, Handle
<1>2. ASSUME csm_read(n) PROVE TypeOK'
  <2> DEFINE c == sock[n]  msg == Head(wire[c][n])
  <2>1. c \in Conn BY <1>2 DEF csm_read, TypeOK
  <2>2. wire[c][n] \in Seq(Msgs) /\ wire[c][n] # <<>>
    BY <1>2, <2>1 DEF csm_read, TypeOK
  <2>3. msg \in Msgs /\ Tail(wire[c][n]) \in Seq(Msgs) BY <2>2
  <2>4. wire' = [wire EXCEPT ![c][n] = Tail(wire[c][n])]
    BY <1>2 DEF csm_read
  <2>5. wire' \in [Conn -> [Node -> Seq(Msgs)]]
    <3> HIDE DEF c
    <3> QED BY <2>1, <2>3, <2>4 DEF TypeOK
  <2>6. iccpq' \in [Node -> Seq(IccpMsgs)] /\ mlacpq' \in [Node -> Seq(MlacpMsgs)]
    <3>1. CASE msg \in IccpMsgs
      <4>1. iccpq' = [iccpq EXCEPT ![n] = Append(iccpq[n], msg)]
            /\ UNCHANGED mlacpq
        BY <1>2, <3>1 DEF csm_read
      <4>2. Append(iccpq[n], msg) \in Seq(IccpMsgs)
        <5>1. iccpq[n] \in Seq(IccpMsgs) BY DEF TypeOK
        <5> HIDE DEF msg
        <5> QED BY <3>1, <5>1
      <4> QED BY <4>1, <4>2 DEF TypeOK
    <3>2. CASE msg \notin IccpMsgs
      <4>1. mlacpq' = [mlacpq EXCEPT ![n] = Append(mlacpq[n], msg)]
            /\ UNCHANGED iccpq
        BY <1>2, <3>2 DEF csm_read
      <4>2. msg \in MlacpMsgs BY <2>3, <3>2 DEF Msgs
      <4>3. Append(mlacpq[n], msg) \in Seq(MlacpMsgs)
        <5>1. mlacpq[n] \in Seq(MlacpMsgs) BY DEF TypeOK
        <5> HIDE DEF msg
        <5> QED BY <4>2, <5>1
      <4> QED BY <4>1, <4>3 DEF TypeOK
    <3> QED BY <3>1, <3>2
  <2>7. UNCHANGED <<sock, open, backlog, role, iccp, info, app, mlacp, prev,
                    up, rgid>>
    BY <1>2 DEF csm_read
  <2> HIDE DEF c, msg
  <2>8. /\ pc' \in [Node -> {"events", "loop"}]
        /\ ready' \in [Node -> SUBSET {"peer", "listen"}]
    BY <1>1, <1>2 DEF csm_read
  <2> QED BY <2>5, <2>6, <2>7, <2>8 DEF TypeOK
<1>3. ASSUME csm_read_error(n) PROVE TypeOK'
  BY <1>1, <1>3, DisconnectType DEF csm_read_error
<1>4. ASSUME server_accept(n) PROVE TypeOK'
  <2>1. backlog \in Seq(Conn) /\ backlog # <<>>
    BY <1>4 DEF TypeOK, server_accept
  <2>2. Head(backlog) \in Conn /\ backlog' \in Seq(Conn)
    BY <1>4, <2>1 DEF server_accept
  <2>3. /\ pc' \in [Node -> {"events", "loop"}]
        /\ ready' \in [Node -> SUBSET {"peer", "listen"}]
    BY <1>1, <1>4 DEF server_accept
  <2>4. UNCHANGED <<info, iccpq, app, mlacp, mlacpq, prev, up, rgid>>
    BY <1>4 DEF server_accept, appvars
  <2>5. CASE CloseEnd(n, Head(backlog)) /\ UNCHANGED <<sock, iccp, role>>
    BY <2>2, <2>3, <2>4, <2>5, CloseEndType DEF TypeOK
  <2>6. CASE /\ sock' = [sock EXCEPT ![n] = Head(backlog)]
             /\ role' = [role EXCEPT ![n] = IF @ = "NONE" THEN "STANDBY" ELSE @]
             /\ iccp' = [iccp EXCEPT ![n] = "NONEXISTENT"]
             /\ UNCHANGED <<open, wire>>
    <3>1. sock' \in [Node -> Conn \cup {NoConn}] BY <2>2, <2>6 DEF TypeOK
    <3>2. role' \in [Node -> Roles] /\ iccp' \in [Node -> IccpStates]
      BY <2>6 DEF TypeOK, Roles, IccpStates
    <3> QED BY <2>2, <2>3, <2>4, <2>6, <3>1, <3>2 DEF TypeOK
  <2> QED BY <1>4, <2>5, <2>6 DEF server_accept
<1>5. ASSUME config_disconnect(n) PROVE TypeOK'
  BY <1>5, DisconnectType, Zenon DEF config_disconnect, TypeOK
<1>6. ASSUME heartbeat_timeout(n) PROVE TypeOK'
  BY <1>6, EndIterationType, DisconnectType DEF heartbeat_timeout
<1> QED BY <1>2, <1>3, <1>4, <1>5, <1>6

\* Commands and a restart keep every type.
LEMMA ConfigType ==
  ASSUME TypeOK, NEW n \in Node
  PROVE  /\ attach(n) => TypeOK'
         /\ detach(n) => TypeOK'
         /\ restart(n) => TypeOK'
<1>1. mlacp[n] \in MlacpRecords BY DEF TypeOK
<1>2. ASSUME attach(n) PROVE TypeOK'
  <2> DEFINE m == [mlacp[n] EXCEPT !.lif = "unsent", !.purge = FALSE]
  <2>1. m \in MlacpRecords BY <1>1, Zenon DEF MlacpRecords
  <2>2. mlacp' = [mlacp EXCEPT ![n] = m] BY <1>2 DEF attach
  <2>3. mlacp' \in [Node -> MlacpRecords] BY <2>1, <2>2 DEF TypeOK
  <2> QED BY <1>2, <2>3 DEF TypeOK, attach, tcpvars, iccpvars
<1>3. ASSUME detach(n) PROVE TypeOK'
  <2> DEFINE m == [mlacp[n] EXCEPT !.lif = "no",
                     !.purge = (mlacp[n].state = "EXCHANGE")]
  <2>1. m \in MlacpRecords BY <1>1, Zenon DEF MlacpRecords
  <2>2. mlacp' = [mlacp EXCEPT ![n] = m] BY <1>3 DEF detach
  <2>3. mlacp' \in [Node -> MlacpRecords] BY <2>1, <2>2 DEF TypeOK
  <2> QED BY <1>3, <2>3 DEF TypeOK, detach, tcpvars, iccpvars
<1>4. ASSUME restart(n) PROVE TypeOK'
  <2>1. /\ pc' \in [Node -> {"events", "loop"}]
        /\ ready' \in [Node -> SUBSET {"peer", "listen"}]
        /\ sock' \in [Node -> Conn \cup {NoConn}]
    BY <1>4 DEF TypeOK, restart, Watched
  <2>2. open' \in [Conn -> SUBSET Node] BY <1>4 DEF TypeOK, restart
  <2>3. wire' \in [Conn -> [Node -> Seq(Msgs)]]
    <3>1. \A c \in Conn : /\ wire[c] \in [Node -> Seq(Msgs)]
                          /\ [wire[c] EXCEPT ![n] = <<>>] \in [Node -> Seq(Msgs)]
      BY OneMessage DEF TypeOK
    <3> QED BY <1>4, <3>1 DEF restart
  <2>4. backlog' \in Seq(Conn) BY <1>4 DEF TypeOK, restart
  <2>5. /\ role' \in [Node -> Roles] /\ iccp' \in [Node -> IccpStates]
        /\ info' \in [Node -> InfoRecords] /\ app' \in [Node -> AppStates]
    BY <1>4 DEF TypeOK, restart, Roles, IccpStates, InfoRecords, InfoReset,
                AppStates
  <2>6. iccpq' \in [Node -> Seq(IccpMsgs)] /\ mlacpq' \in [Node -> Seq(MlacpMsgs)]
    BY <1>4 DEF TypeOK, restart
  <2>7. mlacp' \in [Node -> MlacpRecords]
    BY <1>4, Zenon DEF TypeOK, restart, MlacpInit, MlacpRecords, MlacpStates
  <2>8. prev' \in [Node -> MlacpStates] /\ up' \in [Node -> BOOLEAN]
        /\ rgid' \in [Node -> RgIds]
    BY <1>4 DEF TypeOK, restart, MlacpStates
  <2> QED BY <2>1, <2>2, <2>3, <2>4, <2>5, <2>6, <2>7, <2>8 DEF TypeOK
<1> QED BY <1>2, <1>3, <1>4

\* The steps of iccp_csm_transit keep every type.
LEMMA TransitType ==
  ASSUME TypeOK, NEW n \in Node, Transit(n)
  PROVE  TypeOK'
<1>1. <<>> \in Seq(Msgs) /\ <<"CAPABILITY">> \in Seq(Msgs)
      /\ <<"NAK">> \in Seq(Msgs) /\ <<"RG_CONNECT">> \in Seq(Msgs)
  BY OneMessage, Names
<1>2. {"INITIALIZED", "CAPSENT", "CAPREC", "CONNECTING", "OPERATIONAL"}
        \subseteq IccpStates
  BY DEF IccpStates
<1>3. EnterState("INITIALIZED", info[n]) \in InfoRecords
  <2>1. info[n] \in InfoRecords BY DEF TypeOK
  <2>2. EnterState("INITIALIZED", info[n]) = [info[n] EXCEPT !.sender_cap = TRUE]
    BY DEF EnterState
  <2> QED BY <2>1, <2>2, ZenonT(30) DEF InfoRecords
<1>4. CASE transit_idle(n)
  BY <1>4, DequeueType, EndIterationType, SMTT(20)
     DEF transit_idle, tcpvars, appvars, TypeOK
<1>5. CASE transit_connect(n)
  <2>1. PICK c \in Conn : /\ sock' = [sock EXCEPT ![n] = c]
                         /\ open' = [open EXCEPT ![c] = Node]
                         /\ backlog' = Append(backlog, c)
                         /\ EndIteration(n, c)
    BY <1>5, ZenonT(30) DEF transit_connect
  <2>2. /\ sock' \in [Node -> Conn \cup {NoConn}]
        /\ open' \in [Conn -> SUBSET Node]
        /\ backlog' \in Seq(Conn)
    BY <2>1 DEF TypeOK
  <2>3. /\ pc' \in [Node -> {"events", "loop"}]
        /\ ready' \in [Node -> SUBSET {"peer", "listen"}]
    BY <2>1, EndIterationType
  <2>4. /\ role' \in [Node -> Roles] /\ iccp' \in [Node -> IccpStates]
        /\ info' \in [Node -> InfoRecords]
    BY <1>2, <1>3, <1>5 DEF transit_connect, TypeOK, Roles
  <2>5. iccpq' \in [Node -> Seq(IccpMsgs)]
    BY <1>5, DequeueType DEF transit_connect
  <2> QED BY <1>5, <2>2, <2>3, <2>4, <2>5 DEF transit_connect, appvars, TypeOK
<1>6. CASE transit_accepted(n)
  <2>1. /\ pc' \in [Node -> {"events", "loop"}]
        /\ ready' \in [Node -> SUBSET {"peer", "listen"}]
    BY <1>6, EndIterationType DEF transit_accepted
  <2>2. iccp' \in [Node -> IccpStates] /\ info' \in [Node -> InfoRecords]
    BY <1>2, <1>3, <1>6, ZenonT(30) DEF transit_accepted, TypeOK
  <2>3. iccpq' \in [Node -> Seq(IccpMsgs)]
    BY <1>6, DequeueType DEF transit_accepted
  <2> QED BY <1>6, <2>1, <2>2, <2>3, ZenonT(30)
             DEF transit_accepted, tcpvars, appvars, TypeOK
<1>7. CASE transit_initialized(n)
  BY <1>1, <1>2, <1>7, IccpStepType, Zenon DEF transit_initialized
<1>8. CASE transit_capsent(n)
  BY <1>1, <1>2, <1>8, IccpStepType, Zenon DEF transit_capsent
<1>9. CASE transit_caprec(n)
  BY <1>1, <1>2, <1>9, IccpStepType, Zenon DEF transit_caprec
<1>10. CASE transit_connecting(n)
  BY <1>1, <1>2, <1>10, IccpStepType, Zenon DEF transit_connecting
<1>11. CASE transit_operational(n)
  BY <1>1, <1>2, <1>11, IccpStepType, Zenon DEF transit_operational
<1> QED BY <1>4, <1>5, <1>6, <1>7, <1>8, <1>9, <1>10, <1>11 DEF Transit

\* Type correctness of the session model: every queue holds only messages of
\* its layer (iccp_csm_enqueue_msg, app_csm_enqueue_msg), every state machine
\* stays within its enumeration.
THEOREM TypeCorrect == Spec => []TypeOK
<1>1. Init => TypeOK
  <2> SUFFICES ASSUME Init PROVE TypeOK OBVIOUS
  <2>1. MlacpInit \in MlacpRecords
    BY DEF MlacpInit, MlacpRecords, MlacpStates
  <2>2. InfoReset \in InfoRecords BY DEF InfoReset, InfoRecords
  <2> QED BY <2>1, <2>2 DEF Init, TypeOK, Watched, Roles, IccpStates, AppStates,
                            MlacpStates
<1>2. TypeOK /\ [Next]_vars => TypeOK'
  <2> SUFFICES ASSUME TypeOK, [Next]_vars PROVE TypeOK' OBVIOUS
  <2>1. CASE UNCHANGED vars
    BY <2>1 DEF vars, tcpvars, iccpvars, appvars, TypeOK
  <2>2. ASSUME NEW n \in Node, Step(n) PROVE TypeOK'
    BY <2>2, EventsType, TransitType, PassesType DEF Step
  <2>3. ASSUME NEW n \in Node, Configure(n) \/ Fault(n) PROVE TypeOK'
    BY <2>3, EventsType, ConfigType DEF Configure, Fault
  <2> QED BY <2>1, <2>2, <2>3 DEF Next
<1> QED BY <1>1, <1>2, PTL DEF Spec

(***************************************************************************)
(* Layering.  SessionLayered is not inductive: a pass of the mLACP loop    *)
(* assumes that the application is operational, which only pc says; and    *)
(* the role, checked when ICCP starts, is fixed when the socket is.        *)
(***************************************************************************)
LayerInv ==
  \A n \in Node :
    /\ mlacp[n].state # "INIT" => app[n] = "OPERATIONAL"
    /\ app[n] = "OPERATIONAL" => iccp[n] = "OPERATIONAL"
    /\ iccp[n] # "NONEXISTENT" => sock[n] # NoConn
    /\ pc[n] = "loop" => app[n] = "OPERATIONAL"
    /\ role[n] \in {"NONE", MyRole(n)}
    /\ sock[n] # NoConn => role[n] = MyRole(n)

\* A disconnect leaves the node with no layer up.
LEMMA DisconnectLayers ==
  ASSUME TypeOK, LayerInv, NEW n \in Node, session_disconnect(n),
         pc[n] = "events", pc' = [pc EXCEPT ![n] = "events"]
  PROVE  LayerInv'
<1>1. /\ sock' = [sock EXCEPT ![n] = NoConn]
      /\ role' = [role EXCEPT ![n] = "NONE"]
      /\ iccp' = [iccp EXCEPT ![n] = "NONEXISTENT"]
      /\ app' = [app EXCEPT ![n] = "NONEXISTENT"]
      /\ mlacp' = [mlacp EXCEPT ![n] = [mlacp[n] EXCEPT !.state = "INIT",
                     !.need = FALSE, !.pif = FALSE, !.purge = FALSE]]
  BY DEF session_disconnect, socket_cleanup
<1>2. mlacp[n] \in MlacpRecords BY DEF TypeOK
<1>3. mlacp'[n].state = "INIT"
  BY <1>1, <1>2 DEF TypeOK, MlacpRecords
<1>4. \A k \in Node : k # n =>
        /\ sock'[k] = sock[k] /\ role'[k] = role[k] /\ iccp'[k] = iccp[k]
        /\ app'[k] = app[k] /\ mlacp'[k] = mlacp[k] /\ pc'[k] = pc[k]
  BY <1>1 DEF TypeOK
<1>5. /\ sock'[n] = NoConn /\ role'[n] = "NONE" /\ iccp'[n] = "NONEXISTENT"
      /\ app'[n] = "NONEXISTENT" /\ pc'[n] = "events"
  BY <1>1, Zenon DEF TypeOK
<1> QED BY <1>3, <1>4, <1>5 DEF LayerInv

\* A step of a connected ICCP state machine to s that does not lose an
\* operational application keeps the layers.
LEMMA IccpStepLayers ==
  ASSUME TypeOK, LayerInv, NEW n \in Node, NEW s \in IccpStates, NEW out,
         IccpStep(n, s, out), app[n] = "OPERATIONAL" => s = "OPERATIONAL"
  PROVE  LayerInv'
<1>1. /\ UNCHANGED <<sock, role, mlacp>>
      /\ iccp' = [iccp EXCEPT ![n] = s]
      /\ sock[n] # NoConn
      /\ AppTransit(n, s, out)
  BY Zenon DEF IccpStep
<1> DEFINE oper == s = "OPERATIONAL" \/ app[n] = "OPERATIONAL"
<1>2. /\ app' = [app EXCEPT ![n] = IF oper THEN "OPERATIONAL" ELSE app[n]]
      /\ pc' = [pc EXCEPT ![n] = IF oper THEN "loop" ELSE "events"]
  BY <1>1 DEF AppTransit, EndIteration
<1> QED BY <1>1, <1>2, Zenon DEF TypeOK, LayerInv

\* A pass of the loop leaves the lower layers alone.
LEMMA PassLayers ==
  ASSUME TypeOK, LayerInv, NEW n \in Node, pc[n] = "loop",
         UNCHANGED <<sock, role, iccp, app>>, NEW m,
         mlacp' = [mlacp EXCEPT ![n] = m],
         pc' \in {pc, [pc EXCEPT ![n] = "events"]}
  PROVE  LayerInv'
  BY DEF TypeOK, LayerInv

\* Every step keeps the layers.
LEMMA LayerStep ==
  ASSUME TypeOK, LayerInv, [Next]_vars
  PROVE  LayerInv'
<1>1. CASE UNCHANGED vars
  BY <1>1, SMTT(20) DEF vars, tcpvars, iccpvars, appvars, LayerInv
<1>2. ASSUME NEW n \in Node, csm_read(n) PROVE LayerInv'
  BY <1>2 DEF csm_read, Handle, LayerInv
<1>3. ASSUME NEW n \in Node, csm_read_error(n) PROVE LayerInv'
  <2>1. pc[n] = "events" /\ pc' = [pc EXCEPT ![n] = "events"]
    BY <1>3 DEF csm_read_error, Handle, TypeOK
  <2> QED BY <1>3, <2>1, DisconnectLayers, ZenonT(30) DEF csm_read_error
<1>4. ASSUME NEW n \in Node, server_accept(n) PROVE LayerInv'
  <2>1. UNCHANGED <<pc, app, mlacp>> /\ n = Standby
    BY <1>4 DEF server_accept, Handle, appvars
  <2>2. CASE UNCHANGED <<sock, iccp, role>> BY <2>1, <2>2, SMTT(20)
                                               DEF LayerInv
  <2>3. CASE /\ sock[n] = NoConn
             /\ sock' = [sock EXCEPT ![n] = Head(backlog)]
             /\ role' = [role EXCEPT ![n] = IF @ = "NONE" THEN "STANDBY" ELSE @]
             /\ iccp' = [iccp EXCEPT ![n] = "NONEXISTENT"]
    <3>1. iccp[n] = "NONEXISTENT" BY <2>3 DEF LayerInv
    <3>2. iccp' = iccp BY <2>3, <3>1 DEF TypeOK
    <3>3. MyRole(n) = "STANDBY" BY <2>1, NodesDiffer, ZenonT(30) DEF MyRole
    <3>4. role'[n] = MyRole(n) BY <2>3, <3>3 DEF LayerInv, TypeOK
    <3>5. \A k \in Node : k # n => role'[k] = role[k] /\ sock'[k] = sock[k]
      BY <2>3 DEF TypeOK
    <3> QED BY <2>1, <2>3, <3>1, <3>2, <3>4, <3>5 DEF LayerInv
  <2> QED BY <1>4, <2>2, <2>3 DEF server_accept
<1>5. ASSUME NEW n \in Node, config_disconnect(n) PROVE LayerInv'
  <2>1. pc[n] = "events" /\ pc' = [pc EXCEPT ![n] = "events"]
    BY <1>5 DEF config_disconnect, TypeOK
  <2> QED BY <1>5, <2>1, DisconnectLayers, Zenon DEF config_disconnect
<1>6. ASSUME NEW n \in Node, heartbeat_timeout(n) PROVE LayerInv'
  BY <1>6, DisconnectLayers, ZenonT(30) DEF heartbeat_timeout, EndIteration
<1>7. ASSUME NEW n \in Node, attach(n) \/ detach(n) PROVE LayerInv'
  <2>1. UNCHANGED <<pc, sock, role, iccp, app>>
    BY <1>7 DEF attach, detach, tcpvars, iccpvars
  <2>2. mlacp[n] \in MlacpRecords BY DEF TypeOK
  <2>3. mlacp'[n].state = mlacp[n].state
    <3>1. CASE attach(n)
      <4>1. mlacp'[n] = [mlacp[n] EXCEPT !.lif = "unsent", !.purge = FALSE]
        BY <3>1 DEF attach, TypeOK
      <4> QED BY <2>2, <4>1 DEF MlacpRecords
    <3>2. CASE detach(n)
      <4>1. mlacp'[n] = [mlacp[n] EXCEPT !.lif = "no",
                           !.purge = (mlacp[n].state = "EXCHANGE")]
        BY <3>2 DEF detach, TypeOK
      <4> QED BY <2>2, <4>1 DEF MlacpRecords
    <3> QED BY <1>7, <3>1, <3>2
  <2>4. \A k \in Node : k # n => mlacp'[k] = mlacp[k]
    BY <1>7, ZenonT(30) DEF attach, detach, TypeOK
  <2> QED BY <2>1, <2>3, <2>4, ZenonT(30) DEF LayerInv
<1>8. ASSUME NEW n \in Node, restart(n) PROVE LayerInv'
  <2>1. mlacp'[n].state = "INIT" BY <1>8, Zenon DEF restart, MlacpInit, TypeOK
  <2>2. /\ sock'[n] = NoConn /\ role'[n] = "NONE" /\ iccp'[n] = "NONEXISTENT"
        /\ app'[n] = "NONEXISTENT" /\ pc'[n] = "events"
    BY <1>8, Zenon DEF restart, TypeOK
  <2>3. \A k \in Node : k # n =>
          /\ sock'[k] = sock[k] /\ role'[k] = role[k] /\ iccp'[k] = iccp[k]
          /\ app'[k] = app[k] /\ mlacp'[k] = mlacp[k] /\ pc'[k] = pc[k]
    BY <1>8, Zenon DEF restart, TypeOK
  <2> QED BY <2>1, <2>2, <2>3 DEF LayerInv
<1>9. ASSUME NEW n \in Node, transit_idle(n) PROVE LayerInv'
  <2>1. UNCHANGED <<sock, role, iccp, app, mlacp>>
        /\ pc' = [pc EXCEPT ![n] = "events"]
    BY <1>9, Zenon DEF transit_idle, EndIteration, tcpvars, appvars
  <2> QED BY <2>1, Zenon DEF LayerInv, TypeOK
<1>10. ASSUME NEW n \in Node, transit_connect(n) PROVE LayerInv'
  <2>1. PICK c \in Conn : sock' = [sock EXCEPT ![n] = c] /\ EndIteration(n, c)
    BY <1>10, ZenonT(30) DEF transit_connect
  <2>2. /\ n = Active /\ iccp[n] = "NONEXISTENT"
        /\ role' = [role EXCEPT ![n] = "ACTIVE"]
        /\ iccp' = [iccp EXCEPT ![n] = "INITIALIZED"]
        /\ UNCHANGED <<app, mlacp>>
    BY <1>10 DEF transit_connect, appvars
  <2>3. role'[n] = MyRole(n) /\ sock'[n] # NoConn /\ pc'[n] = "events"
    BY <2>1, <2>2, NoConnFresh, SMTT(20) DEF TypeOK, MyRole, EndIteration
  <2>4. \A k \in Node : k # n =>
          /\ sock'[k] = sock[k] /\ role'[k] = role[k] /\ iccp'[k] = iccp[k]
          /\ pc'[k] = pc[k]
    BY <2>1, <2>2 DEF TypeOK, EndIteration
  <2>5. app[n] # "OPERATIONAL" /\ mlacp[n].state = "INIT"
    BY <2>2 DEF LayerInv
  <2>6. app' = app /\ mlacp' = mlacp BY <2>2
  <2> QED BY <2>3, <2>4, <2>5, <2>6, ZenonT(30) DEF LayerInv
<1>11. ASSUME NEW n \in Node, transit_accepted(n) PROVE LayerInv'
  <2>1. /\ UNCHANGED <<sock, role, app, mlacp>>
        /\ pc' = [pc EXCEPT ![n] = "events"]
        /\ iccp' = [iccp EXCEPT ![n] = "INITIALIZED"]
        /\ iccp[n] = "NONEXISTENT" /\ sock[n] # NoConn
    BY <1>11 DEF transit_accepted, EndIteration, tcpvars, appvars
  <2> QED BY <2>1 DEF LayerInv, TypeOK
<1>12. ASSUME NEW n \in Node,
              \/ transit_initialized(n) \/ transit_capsent(n)
              \/ transit_caprec(n) \/ transit_connecting(n)
       PROVE  LayerInv'
  <2>1. app[n] # "OPERATIONAL"
    BY <1>12, Zenon DEF LayerInv, transit_initialized, transit_capsent,
                 transit_caprec, transit_connecting
  <2>2. \E s \in IccpStates : \E out : IccpStep(n, s, out)
    BY <1>12 DEF transit_initialized, transit_capsent, transit_caprec,
                 transit_connecting, IccpStates
  <2> QED BY <2>1, <2>2, IccpStepLayers, Zenon
<1>13. ASSUME NEW n \in Node, transit_operational(n) PROVE LayerInv'
  BY <1>13, IccpStepLayers DEF transit_operational, IccpStates
<1>14. ASSUME NEW n \in Node, pass_init(n) PROVE LayerInv'
  BY <1>14, PassLayers, Zenon DEF pass_init, iccpvars
<1>15. ASSUME NEW n \in Node, NEW m, NEW out, Pass(n, m, out) PROVE LayerInv'
  BY <1>15, PassLayers, Zenon DEF Pass, EndIteration, iccpvars
<1>16. ASSUME NEW n \in Node,
              pass_stage(n) \/ pass_exchange(n) \/ pass_error(n)
       PROVE  LayerInv'
  BY <1>15, <1>16 DEF pass_stage, pass_exchange, pass_error
<1> QED
  BY <1>1, <1>2, <1>3, <1>4, <1>5, <1>6, <1>7, <1>8, <1>9, <1>10, <1>11,
     <1>12, <1>13, <1>14, <1>16, ZenonT(30)
     DEF Next, Step, Transit, Configure, Fault

\* The layers are up only above one another, for any number of connection
\* slots and any bound.  Hence iccp_csm_transit never takes the path that
\* frees the CSM it is handed, which its caller goes on to use.
THEOREM Layered == Spec => []SessionLayered
<1>1. Init => LayerInv
  BY DEF Init, LayerInv, MlacpInit
<1>2. TypeOK /\ LayerInv /\ [Next]_vars => LayerInv'
  BY LayerStep, SMTT(20)
<1>3. LayerInv => SessionLayered
  BY ZenonT(30) DEF LayerInv, SessionLayered
<1> QED BY <1>1, <1>2, <1>3, TypeCorrect, PTL DEF Spec

(***************************************************************************)
(* Refusal of mismatched redundancy group ids.  What the handshake keeps   *)
(* invariant is that a node that has seen the peer's RG_CONNECT also has   *)
(* the error status, which bars the way to OPERATIONAL.                    *)
(***************************************************************************)
RefusedInv ==
  rgid[Active] # rgid[Standby] =>
    \A n \in Node : /\ iccp[n] # "OPERATIONAL"
                    /\ info[n].peer_rg => info[n].status

\* Between mismatched nodes no message clears the status.
LEMMA CorrespondRefuses ==
  ASSUME TypeOK, RefusedInv, NEW n \in Node, rgid[Active] # rgid[Standby]
  PROVE  Correspond(n).peer_rg => Correspond(n).status
<1>1. info[n] \in InfoRecords /\ (info[n].peer_rg => info[n].status)
  BY DEF TypeOK, RefusedInv
<1>2. rgid[n] # rgid[Peer(n)] BY NodesDiffer DEF Node, Peer
<1>3. CASE iccpq[n] = <<>> BY <1>1, <1>3 DEF Correspond
<1>4. CASE iccpq[n] # <<>>
  <2>1. Head(iccpq[n]) \in IccpMsgs
    <3>1. iccpq[n] \in Seq(IccpMsgs) BY SMTT(20) DEF TypeOK
    <3> QED BY <1>4, <3>1
  <2> QED BY <1>1, <1>2, <1>4, <2>1, Zenon
             DEF Correspond, IccpMsgs, InfoRecords
<1> QED BY <1>3, <1>4

\* A step of the handshake to a state below OPERATIONAL keeps the refusal.
LEMMA IccpStepRefuses ==
  ASSUME TypeOK, RefusedInv, NEW n \in Node, NEW out,
         NEW s \in IccpStates \ {"OPERATIONAL"},
         rgid[Active] # rgid[Standby], IccpStep(n, s, out)
  PROVE  RefusedInv'
<1> DEFINE i == Correspond(n)
<1>1. i \in InfoRecords /\ (i.peer_rg => i.status)
  BY CorrespondType, CorrespondRefuses
<1>2. /\ EnterState(s, i).peer_rg = i.peer_rg
      /\ EnterState(s, i).status = i.status
  <2> HIDE DEF i
  <2> QED BY <1>1 DEF EnterState, InfoRecords
<1>3. /\ iccp' = [iccp EXCEPT ![n] = s]
      /\ info' \in {[info EXCEPT ![n] = i], [info EXCEPT ![n] = EnterState(s, i)]}
      /\ UNCHANGED rgid
  BY ZenonT(30) DEF IccpStep
<1> HIDE DEF i
<1>4. info'[n].peer_rg => info'[n].status BY <1>1, <1>2, <1>3, SMTT(20)
                                             DEF TypeOK
<1>5. iccp'[n] # "OPERATIONAL" BY <1>3 DEF TypeOK
<1>6. \A k \in Node : k # n => iccp'[k] = iccp[k] /\ info'[k] = info[k]
  BY <1>3 DEF TypeOK
<1> QED BY <1>4, <1>5, <1>6 DEF RefusedInv

\* Every step keeps the refusal.
LEMMA RefusedStep ==
  ASSUME TypeOK, RefusedInv, [Next]_vars
  PROVE  RefusedInv'
<1> SUFFICES ASSUME (rgid[Active] # rgid[Standby])' PROVE RefusedInv'
  BY DEF RefusedInv
<1>1. CASE UNCHANGED vars BY <1>1 DEF vars, iccpvars, RefusedInv
<1>2. ASSUME NEW n \in Node, rgid' = rgid,
             iccp' \in {iccp, [iccp EXCEPT ![n] = "NONEXISTENT"]},
             info' \in {info, [info EXCEPT ![n] = InfoReset]}
      PROVE  RefusedInv'
  <2>1. ~InfoReset.peer_rg BY DEF InfoReset
  <2> SUFFICES ASSUME NEW k \in Node
               PROVE  /\ iccp'[k] # "OPERATIONAL"
                      /\ info'[k].peer_rg => info'[k].status
    BY DEF RefusedInv
  <2>2. iccp[k] # "OPERATIONAL" /\ (info[k].peer_rg => info[k].status)
    BY <1>2 DEF RefusedInv
  <2>3. iccp'[k] \in {iccp[k], "NONEXISTENT"} BY <1>2 DEF TypeOK
  <2>4. info'[k] = info[k] \/ info'[k] = InfoReset BY <1>2 DEF TypeOK
  <2> QED BY <2>1, <2>2, <2>3, <2>4
<1>3. ASSUME NEW n \in Node, session_disconnect(n) PROVE RefusedInv'
  BY <1>2, <1>3, Zenon DEF session_disconnect
<1>4. ASSUME NEW n \in Node,
             \/ csm_read(n) \/ csm_read_error(n) \/ server_accept(n)
             \/ config_disconnect(n) \/ heartbeat_timeout(n)
      PROVE  RefusedInv'
  BY <1>2, <1>3, <1>4 DEF csm_read, csm_read_error, server_accept,
       config_disconnect, heartbeat_timeout
<1>5. ASSUME NEW n \in Node, Configure(n) \/ restart(n) \/ transit_idle(n)
      PROVE  RefusedInv'
  BY <1>2, <1>5 DEF Configure, attach, detach, restart, transit_idle, iccpvars
<1>6. ASSUME NEW n \in Node, transit_connect(n) \/ transit_accepted(n)
      PROVE  RefusedInv'
  <2>1. info[n] \in InfoRecords BY DEF TypeOK
  <2>2. EnterState("INITIALIZED", info[n]) = [info[n] EXCEPT !.sender_cap = TRUE]
    BY DEF EnterState
  <2>3. /\ iccp' = [iccp EXCEPT ![n] = "INITIALIZED"] /\ rgid' = rgid
        /\ info' = [info EXCEPT ![n] = [info[n] EXCEPT !.sender_cap = TRUE]]
    BY <1>6, <2>2 DEF transit_connect, transit_accepted
  <2>4. info'[n].peer_rg = info[n].peer_rg /\ info'[n].status = info[n].status
    BY <2>1, <2>3 DEF TypeOK, InfoRecords
  <2> QED BY <2>3, <2>4 DEF RefusedInv, TypeOK
<1>7. ASSUME NEW n \in Node, NEW s \in IccpStates, NEW out,
             IccpStep(n, s, out), s # "OPERATIONAL"
      PROVE  RefusedInv'
  <2>1. rgid' = rgid BY <1>7 DEF IccpStep
  <2> QED BY <1>7, <2>1, IccpStepRefuses
<1>8. ASSUME NEW n \in Node, transit_initialized(n) \/ transit_capsent(n)
      PROVE  RefusedInv'
  BY <1>7, <1>8 DEF transit_initialized, transit_capsent, IccpStates
<1>9. ASSUME NEW n \in Node, transit_caprec(n) \/ transit_connecting(n)
      PROVE  RefusedInv'
  <2>1. rgid' = rgid
    BY <1>9, Zenon DEF transit_caprec, transit_connecting, IccpStep
  <2>2. ~Correspond(n).status => ~Correspond(n).peer_rg
    BY <2>1, CorrespondRefuses
  <2>3. \E s \in IccpStates : \E out : IccpStep(n, s, out) /\ s # "OPERATIONAL"
    BY <1>9, <2>2, Zenon DEF transit_caprec, transit_connecting, IccpStates
  <2> QED BY <1>7, <2>3, Zenon
<1>10. ASSUME NEW n \in Node, transit_operational(n) PROVE RefusedInv'
  <2>1. rgid' = rgid BY <1>10 DEF transit_operational, IccpStep
  <2> QED BY <1>10, <2>1 DEF transit_operational, RefusedInv
<1>11. ASSUME NEW n \in Node, pass_init(n) PROVE RefusedInv'
  BY <1>2, <1>11 DEF pass_init, iccpvars
<1>12. ASSUME NEW n \in Node, NEW m, NEW out, Pass(n, m, out)
       PROVE  RefusedInv'
  BY <1>2, <1>12, Zenon DEF Pass, iccpvars
<1>13. ASSUME NEW n \in Node,
              pass_stage(n) \/ pass_exchange(n) \/ pass_error(n)
       PROVE  RefusedInv'
  BY <1>12, <1>13 DEF pass_stage, pass_exchange, pass_error
<1> QED
  BY <1>1, <1>3, <1>4, <1>5, <1>6, <1>8, <1>9, <1>10, <1>11, <1>13, ZenonT(30)
     DEF Next, Step, Transit, Fault

\* Nodes configured with different redundancy group ids never bring the
\* session up, for any ids, any number of connection slots and any bound.
THEOREM Refused == Spec => []MismatchRefused
<1>1. Init => RefusedInv
  BY DEF Init, RefusedInv, InfoReset
<1>2. TypeOK /\ RefusedInv /\ [Next]_vars => RefusedInv'
  BY RefusedStep
<1>3. RefusedInv /\ SessionLayered => MismatchRefused
  BY ZenonT(30) DEF RefusedInv, SessionLayered, MismatchRefused
<1> QED BY <1>1, <1>2, <1>3, TypeCorrect, Layered, PTL DEF Spec

(***************************************************************************)
(* The report that the session is up.  UpIffExchange is not inductive:     *)
(* prev_state outlives sessions, so what keeps a stale one harmless is     *)
(* that EXCHANGE is entered by a pass, which has set it.                   *)
(***************************************************************************)
UpOk(n) ==
  /\ up[n] => mlacp[n].state \in {"EXCHANGE", "ERROR"}
  /\ mlacp[n].state = "EXCHANGE" =>
       up[n] \/ (pc[n] = "loop" /\ prev[n] # "EXCHANGE")

UpInv == \A n \in Node : UpOk(n)

\* What concerns one node leaves the report of the other alone.
LEMMA UpElsewhere ==
  ASSUME UpInv, NEW n \in Node, UpOk(n)',
         \A k \in Node : k # n => /\ up'[k] = up[k] /\ mlacp'[k] = mlacp[k]
                                  /\ pc'[k] = pc[k] /\ prev'[k] = prev[k]
  PROVE  UpInv'
  BY DEF UpInv, UpOk

\* Only a request moves the state, and no message changes nothing.
LEMMA ReceiveState ==
  ASSUME NEW m \in MlacpRecords, NEW msg
  PROVE  /\ Receive(m, msg).state \in {m.state, Succ(m.state)}
         /\ Receive(m, "NULL") = m
<1>1. Receive(m, "NULL") = m BY DEF Receive
<1>2. CASE msg = "SYNC_REQUEST"
  <2>1. Receive(m, msg) = SendAll(m) BY <1>2 DEF Receive
  <2> QED BY <1>1, <2>1 DEF SendAll, MlacpRecords
<1>3. CASE msg # "SYNC_REQUEST" BY <1>1, <1>3 DEF Receive, MlacpRecords
<1> QED BY <1>2, <1>3

\* A stage is left only on a message.
LEMMA StageWaits ==
  ASSUME NEW m \in MlacpRecords, NEW n
  PROVE  Stage(n, m, "NULL").state = m.state
<1>1. StageSend(m, "NULL") = m BY DEF StageSend
<1>2. StageRequest(m, "NULL").state = m.state
  <2>1. CASE ~m.wait BY <2>1 DEF StageRequest, MlacpRecords
  <2>2. CASE m.wait BY <2>2, ReceiveState DEF StageRequest
  <2> QED BY <2>1, <2>2
<1> QED BY <1>1, <1>2 DEF Stage

\* A disconnect reports the session down.
LEMMA UpDisconnect ==
  ASSUME TypeOK, UpInv, NEW n \in Node, session_disconnect(n),
         \A k \in Node : k # n => pc'[k] = pc[k]
  PROVE  UpInv'
<1>1. /\ mlacp' = [mlacp EXCEPT ![n] = [mlacp[n] EXCEPT !.state = "INIT",
                     !.need = FALSE, !.pif = FALSE, !.purge = FALSE]]
      /\ up' = [up EXCEPT ![n] = FALSE] /\ prev' = prev
  BY DEF session_disconnect
<1>2. mlacp[n] \in MlacpRecords BY DEF TypeOK
<1>3. mlacp'[n].state = "INIT" /\ up'[n] = FALSE BY <1>1, <1>2 DEF TypeOK, MlacpRecords
<1>4. UpOk(n)' BY <1>3 DEF UpOk
<1>5. \A k \in Node : k # n => /\ up'[k] = up[k] /\ mlacp'[k] = mlacp[k]
                               /\ prev'[k] = prev[k]
  BY <1>1, Zenon DEF TypeOK
<1> QED BY <1>4, <1>5, UpElsewhere

\* Steps that leave the mLACP state and the report alone, and may begin an
\* iteration of the loop.
LEMMA UpSame ==
  ASSUME TypeOK, UpInv, NEW n \in Node, pc[n] = "events",
         \A k \in Node : mlacp'[k].state = mlacp[k].state,
         UNCHANGED <<up, prev>>, \A k \in Node : k # n => pc'[k] = pc[k]
  PROVE  UpInv'
  BY Zenon DEF UpInv, UpOk

\* The passes of the loop.
LEMMA UpPass ==
  ASSUME TypeOK, UpInv, NEW n \in Node, NEW m \in MlacpRecords, NEW out, Pass(n, m, out),
         \/ /\ mlacp[n].state \in {"STAGE1", "STAGE2"}
            /\ mlacpq[n] = <<>> => m.state = mlacp[n].state
         \/ /\ mlacp[n].state \in {"EXCHANGE", "ERROR"}
            /\ m.state \in {mlacp[n].state, "ERROR"}
  PROVE  UpInv'
<1>1. /\ mlacp'[n] = m /\ prev'[n] = mlacp[n].state
      /\ up'[n] = (up[n] \/ (prev[n] # "EXCHANGE" /\ mlacp[n].state = "EXCHANGE"))
      /\ mlacpq[n] # <<>> => pc'[n] = "loop"
  BY ZenonT(30) DEF Pass, TypeOK
<1>2. \A k \in Node : k # n => /\ up'[k] = up[k] /\ mlacp'[k] = mlacp[k]
                               /\ pc'[k] = pc[k] /\ prev'[k] = prev[k]
  BY DEF Pass, EndIteration, TypeOK
<1>3. UpOk(n) /\ up[n] \in BOOLEAN BY ZenonT(30) DEF UpInv, TypeOK
<1>4. CASE /\ mlacp[n].state \in {"STAGE1", "STAGE2"}
           /\ mlacpq[n] = <<>> => m.state = mlacp[n].state
  <2>1. ~up'[n] BY <1>1, <1>3, <1>4 DEF UpOk
  <2>2. mlacp'[n].state = "EXCHANGE" => pc'[n] = "loop" /\ prev'[n] # "EXCHANGE"
    BY <1>1, <1>4
  <2>3. UpOk(n)' BY <2>1, <2>2, ZenonT(30) DEF UpOk
  <2> QED BY <1>2, <2>3, UpElsewhere, ZenonT(30)
<1>5. CASE /\ mlacp[n].state \in {"EXCHANGE", "ERROR"}
           /\ m.state \in {mlacp[n].state, "ERROR"}
  <2>1. mlacp'[n].state \in {"EXCHANGE", "ERROR"} BY <1>1, <1>5, Zenon
  <2>2. mlacp[n].state = "EXCHANGE" => up'[n] BY <1>1, <1>3, ZenonT(30)
                                                 DEF UpOk
  <2>3. mlacp'[n].state = "EXCHANGE" => mlacp[n].state = "EXCHANGE" BY <1>1, <1>5
  <2>4. UpOk(n)' BY <2>1, <2>2, <2>3 DEF UpOk
  <2> QED BY <1>2, <2>4, UpElsewhere
<1> QED BY <1>4, <1>5, Zenon

\* Every step keeps the report right.
LEMMA UpStep ==
  ASSUME TypeOK, UpInv, [Next]_vars
  PROVE  UpInv'
<1>1. CASE UNCHANGED vars BY <1>1 DEF vars, appvars, UpInv, UpOk
<1>2. ASSUME NEW n \in Node,
             csm_read_error(n) \/ config_disconnect(n) \/ heartbeat_timeout(n)
      PROVE  UpInv'
  <2>1. session_disconnect(n) /\ \A k \in Node : k # n => pc'[k] = pc[k]
    BY <1>2, Zenon
       DEF csm_read_error, config_disconnect, heartbeat_timeout, Handle,
                EndIteration, TypeOK
  <2> QED BY <2>1, UpDisconnect
<1>3. ASSUME NEW n \in Node, csm_read(n) \/ server_accept(n) PROVE UpInv'
  <2>1. UNCHANGED <<pc, mlacp, up, prev>>
    BY <1>3 DEF csm_read, server_accept, Handle, appvars
  <2> QED BY <2>1, ZenonT(30) DEF UpInv, UpOk
<1>4. ASSUME NEW n \in Node, attach(n) \/ detach(n) PROVE UpInv'
  <2>1. mlacp[n] \in MlacpRecords BY DEF TypeOK
  <2>2. mlacp'[n].state = mlacp[n].state
    <3>1. CASE attach(n)
      <4>1. mlacp'[n] = [mlacp[n] EXCEPT !.lif = "unsent", !.purge = FALSE]
        BY <3>1 DEF attach, TypeOK
      <4> QED BY <2>1, <4>1 DEF MlacpRecords
    <3>2. CASE detach(n)
      <4>1. mlacp'[n] = [mlacp[n] EXCEPT !.lif = "no",
                           !.purge = (mlacp[n].state = "EXCHANGE")]
        BY <3>2 DEF detach, TypeOK
      <4> QED BY <2>1, <4>1 DEF MlacpRecords
    <3> QED BY <1>4, <3>1, <3>2
  <2>3. \A k \in Node : k # n => mlacp'[k] = mlacp[k]
    BY <1>4 DEF attach, detach, TypeOK
  <2>4. pc[n] = "events" /\ UNCHANGED <<pc, up, prev>>
    BY <1>4 DEF attach, detach
  <2>5. \A k \in Node : mlacp'[k].state = mlacp[k].state BY <2>2, <2>3
  <2> QED BY <2>4, <2>5, UpSame
<1>5. ASSUME NEW n \in Node, restart(n) PROVE UpInv'
  <2>1. mlacp'[n].state = "INIT" /\ ~up'[n]
    BY <1>5 DEF restart, MlacpInit, TypeOK
  <2>2. UpOk(n)' BY <2>1, ZenonT(30) DEF UpOk
  <2>3. \A k \in Node : k # n => /\ up'[k] = up[k] /\ mlacp'[k] = mlacp[k]
                                 /\ pc'[k] = pc[k] /\ prev'[k] = prev[k]
    BY <1>5 DEF restart, TypeOK
  <2> QED BY <2>2, <2>3, UpElsewhere, ZenonT(30)
<1>6. ASSUME NEW n \in Node, Transit(n) PROVE UpInv'
  <2>1. CASE transit_idle(n) \/ transit_connect(n) \/ transit_accepted(n)
    <3>1. /\ pc[n] = "events" /\ UNCHANGED <<mlacp, up, prev>>
          /\ pc' = [pc EXCEPT ![n] = "events"]
      BY <2>1, Zenon DEF transit_idle, transit_connect, transit_accepted,
                  EndIteration, appvars
    <3>2. \A k \in Node : k # n => pc'[k] = pc[k] BY <3>1, Zenon DEF TypeOK
    <3> QED BY <3>1, <3>2, UpSame, Zenon
  <2>2. ASSUME NEW s, NEW out, IccpStep(n, s, out) PROVE UpInv'
    <3>1. /\ pc[n] = "events" /\ UNCHANGED <<mlacp, up, prev>>
          /\ AppTransit(n, s, out)
      BY <2>2, ZenonT(30) DEF IccpStep
    <3>2. \A k \in Node : k # n => pc'[k] = pc[k]
      BY <3>1 DEF AppTransit, EndIteration, TypeOK
    <3> QED BY <3>1, <3>2, UpSame, Zenon
  <2> QED BY <1>6, <2>1, <2>2, Zenon
             DEF Transit, transit_initialized, transit_capsent,
               transit_caprec, transit_connecting, transit_operational
<1>7. ASSUME NEW n \in Node, pass_init(n) PROVE UpInv'
  <2> DEFINE m == [mlacp[n] EXCEPT !.state = "STAGE1", !.wait = FALSE]
  <2>1. mlacp[n] \in MlacpRecords BY DEF TypeOK
  <2>2. m \in MlacpRecords /\ m.state = "STAGE1"
    BY <2>1, Zenon DEF MlacpRecords, MlacpStates
  <2>3. mlacp' = [mlacp EXCEPT ![n] = Stage(n, m, "NULL")] BY <1>7 DEF pass_init
  <2> HIDE DEF m
  <2>4. mlacp'[n].state = "STAGE1" BY <2>2, <2>3, StageWaits DEF TypeOK
  <2>5. mlacp[n].state = "INIT" /\ UNCHANGED <<pc, up>>
        /\ prev' = [prev EXCEPT ![n] = "INIT"]
    BY <1>7 DEF pass_init
  <2>6. ~up[n] BY <2>5 DEF UpInv, UpOk
  <2>7. UpOk(n)' BY <2>4, <2>5, <2>6 DEF UpOk
  <2>8. \A k \in Node : k # n => /\ up'[k] = up[k] /\ mlacp'[k] = mlacp[k]
                                 /\ pc'[k] = pc[k] /\ prev'[k] = prev[k]
    BY <2>3, <2>5, ZenonT(30) DEF TypeOK
  <2> QED BY <2>7, <2>8, UpElsewhere
<1>8. ASSUME NEW n \in Node, pass_stage(n) PROVE UpInv'
  <2> DEFINE m == Stage(n, mlacp[n], Msg(n))
  <2>1. mlacp[n] \in MlacpRecords BY DEF TypeOK
  <2>2. m \in MlacpRecords BY <2>1, StageType
  <2>3. mlacpq[n] = <<>> => m.state = mlacp[n].state
    BY <2>1, StageWaits DEF Msg
  <2>4. /\ mlacp[n].state \in {"STAGE1", "STAGE2"}
        /\ Pass(n, m, StageOut(n, mlacp[n], Msg(n)))
    BY <1>8, ZenonT(30) DEF pass_stage
  <2> HIDE DEF m
  <2> QED BY <2>2, <2>3, <2>4, UpPass
<1>9. ASSUME NEW n \in Node, pass_exchange(n) PROVE UpInv'
  <2> DEFINE r == Receive(mlacp[n], Msg(n))
             m == Exchange(mlacp[n], Msg(n))
  <2>1. mlacp[n] \in MlacpRecords /\ mlacp[n].state = "EXCHANGE"
    BY <1>9 DEF TypeOK, pass_exchange
  <2>2. m \in MlacpRecords /\ r \in MlacpRecords
    BY <2>1, ExchangeType, ReceiveType
  <2>3. r.state \in {"EXCHANGE", "ERROR"}
    <3>1. Succ("EXCHANGE") = "ERROR" BY DEF Succ
    <3> QED BY <2>1, <3>1, ReceiveState
  <2>4. m = [r EXCEPT !.need = FALSE, !.purge = FALSE, !.lif = Synced(r.lif)]
    BY DEF Exchange
  <2>5. Pass(n, m, ExchangeOut(mlacp[n], Msg(n))) BY <1>9 DEF pass_exchange
  <2> HIDE DEF r, m
  <2>6. m.state = r.state BY <2>2, <2>4 DEF MlacpRecords
  <2> QED BY <2>1, <2>2, <2>3, <2>5, <2>6, UpPass
<1>10. ASSUME NEW n \in Node, pass_error(n) PROVE UpInv'
  <2>1. mlacp[n] \in MlacpRecords BY DEF TypeOK
  <2> QED BY <1>10, <2>1, UpPass DEF pass_error
<1> QED
  BY <1>1, <1>2, <1>3, <1>4, <1>5, <1>6, <1>7, <1>8, <1>9, <1>10, Zenon
     DEF Next, Step, Configure, Fault

\* mclagsyncd is told that the session is up before a node has spent an
\* iteration in EXCHANGE, in every session of the process, and that it is
\* down as soon as it is left; for any number of connection slots and any
\* bound.
THEOREM UpReported == Spec => []UpIffExchange
<1>1. Init => UpInv
  BY SMTT(20) DEF Init, UpInv, UpOk, MlacpInit
<1>2. TypeOK /\ UpInv /\ [Next]_vars => UpInv'
  BY UpStep
<1>3. UpInv => UpIffExchange
  BY Zenon DEF UpInv, UpOk, UpIffExchange
<1> QED BY <1>1, <1>2, <1>3, TypeCorrect, PTL DEF Spec

(***************************************************************************)
(* What may be under way.  Predicates of a sequence of messages q.         *)
(***************************************************************************)
\* Every message is in S; message x is there; what follows an x is in S;
\* every y comes after an x.
Only(q, S)      == \A i \in 1..Len(q) : q[i] \in S
Has(q, x)       == \E i \in 1..Len(q) : q[i] = x
After(q, x, S)  == \A i, j \in 1..Len(q) : (i < j /\ q[i] = x) => q[j] \in S
Before(q, x, y) == \A j \in 1..Len(q) :
                     q[j] = y => \E i \in 1..Len(q) : i < j /\ q[i] = x

\* A node that has pif and is about to read q ends with pif: nothing purges
\* it, or a configuration comes that nothing purges.
Lasts(q, pif) ==
  \/ pif /\ ~Has(q, "AGG_PURGE")
  \/ \E i \in 1..Len(q) : /\ q[i] = "AGG_CONFIG"
                          /\ \A j \in 1..Len(q) : i < j => q[j] # "AGG_PURGE"

\* Messages no stage handler acts on.
Quiet == IccpMsgs \cup {"HEARTBEAT"}

\* What is still to be handled by node n: its queue, then its socket.  ICCP
\* messages in the socket go to another queue and count as quiet.
Chan(n) == IF sock[n] = NoConn THEN <<>> ELSE mlacpq[n] \o wire[sock[n]][n]

(***************************************************************************)
(* The stages.  a and s are the MLACP records of the active and of the     *)
(* standby node, p and q what they have still to handle.                   *)
(***************************************************************************)
ActiveOk(a, p) ==
  /\ a.state \in {"INIT", "STAGE1"} =>
       Only(p, Quiet \cup {"SYNC_REQUEST"}) /\ After(p, "SYNC_REQUEST", Quiet)
  /\ (a.state = "STAGE2" /\ ~a.wait) => Only(p, Quiet)
  /\ (a.state = "STAGE2" /\ a.wait) => ~Has(p, "SYNC_REQUEST")

StandbyOk(s, q) ==
  /\ s.state = "INIT" => Only(q, Quiet)
  /\ s.state = "STAGE1" =>
       /\ s.wait
       /\ Only(q, Quiet \cup {"SYNC_START", "AGG_CONFIG", "SYNC_DONE",
                              "SYNC_REQUEST"})
       /\ After(q, "SYNC_DONE", Quiet \cup {"SYNC_REQUEST"})
       /\ Before(q, "SYNC_DONE", "SYNC_REQUEST")
  /\ s.state = "STAGE2" => Only(q, Quiet \cup {"SYNC_REQUEST"})
  /\ s.state \in {"INIT", "STAGE1", "STAGE2"} =>
       After(q, "SYNC_REQUEST", Quiet) /\ ~s.need

\* Over one connection.
Agree(a, s, p, q) ==
  /\ a.state \in {"INIT", "STAGE1"} =>
       /\ s.state \in {"INIT", "STAGE1"}
       /\ Only(q, Quiet)
       /\ s.state = "INIT" => Only(p, Quiet)
  /\ (a.state = "STAGE2" /\ ~a.wait) =>
       /\ s.state \in {"STAGE1", "STAGE2"}
       /\ s.state = "STAGE1" => Has(q, "SYNC_DONE")
       /\ ~Has(q, "SYNC_REQUEST")
  /\ (a.state = "STAGE2" /\ a.wait) =>
       /\ s.state \in {"STAGE1", "STAGE2", "EXCHANGE"}
       /\ s.state \in {"STAGE1", "STAGE2"} => Only(p, Quiet)
       /\ s.state = "EXCHANGE" => Only(q, Quiet) /\ ~s.need
  /\ a.state \in {"EXCHANGE", "ERROR"} => s.state \in {"EXCHANGE", "ERROR"}

\* A port whose configuration was sent by a node that has done its full
\* synchronisation lasts at the peer, unless that is in ERROR and reads
\* nothing.
PortsOk(a, s, p, q) ==
  /\ (a.state \in {"STAGE2", "EXCHANGE", "ERROR"} /\ a.lif = "sent"
        /\ s.state # "ERROR") => Lasts(q, s.pif)
  /\ (s.state \in {"EXCHANGE", "ERROR"} /\ s.lif = "sent"
        /\ a.state # "ERROR") => Lasts(p, a.pif)

PurgeOk(m) == m.purge => m.lif = "no"

(***************************************************************************)
(* The connections.                                                        *)
(***************************************************************************)
\* Nothing is under way to a closed end.
WiresOk == \A c \in Conn, n \in Node : n \notin open[c] => wire[c][n] = <<>>

\* A node without a socket keeps nothing of its last session; the end of a
\* socket it has is open.
SocketsOk ==
  \A n \in Node :
    /\ sock[n] = NoConn =>
         mlacpq[n] = <<>> /\ iccpq[n] = <<>> /\ ~info[n].peer_cap
    /\ sock[n] # NoConn => n \in open[sock[n]]

\* In a connection c that waits to be accepted there are only ICCP messages
\* of the client, which cannot get past CAPSENT.
\* (The state is a parameter, for the proofs use this of successive states.)
WaitsIn(c, opn, sck, wr, st, nfo, iq, mq) ==
  /\ Standby \in opn[c]
  /\ c # sck[Standby]
  /\ wr[c][Active] = <<>>
  /\ Only(wr[c][Standby], IccpMsgs)
  /\ sck[Active] = c => /\ st[Active] \in {"INITIALIZED", "CAPSENT"}
                        /\ ~nfo[Active].peer_cap
                        /\ iq[Active] = <<>> /\ mq[Active] = <<>>

Distinct(b) == \A i, j \in 1..Len(b) : b[i] = b[j] => i = j

BacklogOk == /\ Distinct(backlog)
             /\ \A i \in 1..Len(backlog) :
                  WaitsIn(backlog[i], open, sock, wire, iccp, info, iccpq, mlacpq)

TcpInv == WiresOk /\ SocketsOk /\ BacklogOk

Stages(a, s, p, q, connected) ==
  /\ ActiveOk(a, p) /\ StandbyOk(s, q) /\ PurgeOk(a) /\ PurgeOk(s)
  /\ connected => Agree(a, s, p, q) /\ PortsOk(a, s, p, q)

StageInv == Stages(mlacp[Active], mlacp[Standby], Chan(Active), Chan(Standby),
                   Connected)

(***************************************************************************)
(* How the predicates survive reading and sending.                         *)
(***************************************************************************)
\* The messages of a concatenation are those of its parts, in order.
LEMMA CatIndex ==
  ASSUME NEW M, NEW q \in Seq(M), NEW o \in Seq(M)
  PROVE  /\ q \o o \in Seq(M) /\ Len(q \o o) = Len(q) + Len(o)
         /\ Len(q) \in Nat /\ Len(o) \in Nat
         /\ \A i \in 1..Len(q) : (q \o o)[i] = q[i]
         /\ \A j \in 1..Len(o) : (q \o o)[Len(q) + j] = o[j]
         /\ \A k \in (Len(q) + 1)..(Len(q) + Len(o)) :
              k - Len(q) \in 1..Len(o) /\ (q \o o)[k] = o[k - Len(q)]
  OBVIOUS

\* Sending: what holds of the messages under way and of those sent.
LEMMA CatOnly ==
  ASSUME NEW M, NEW q \in Seq(M), NEW o \in Seq(M), NEW S
  PROVE  Only(q \o o, S) <=> Only(q, S) /\ Only(o, S)
<1> DEFINE r == q \o o
<1>1. /\ Len(r) = Len(q) + Len(o) /\ Len(q) \in Nat /\ Len(o) \in Nat
      /\ \A i \in 1..Len(q) : r[i] = q[i]
      /\ \A j \in 1..Len(o) : r[Len(q) + j] = o[j]
      /\ \A k \in (Len(q) + 1)..(Len(q) + Len(o)) :
           k - Len(q) \in 1..Len(o) /\ r[k] = o[k - Len(q)]
  BY CatIndex
<1> HIDE DEF r
<1>2. ASSUME Only(r, S) PROVE Only(q, S) /\ Only(o, S)
  BY <1>1, <1>2 DEF Only
<1>3. ASSUME Only(q, S), Only(o, S) PROVE Only(r, S)
  BY <1>1, <1>3 DEF Only
<1> QED BY <1>2, <1>3, Zenon DEF r

LEMMA CatHas ==
  ASSUME NEW M, NEW q \in Seq(M), NEW o \in Seq(M), NEW x
  PROVE  Has(q \o o, x) <=> Has(q, x) \/ Has(o, x)
<1> DEFINE r == q \o o
<1>1. /\ Len(r) = Len(q) + Len(o) /\ Len(q) \in Nat /\ Len(o) \in Nat
      /\ \A i \in 1..Len(q) : r[i] = q[i]
      /\ \A j \in 1..Len(o) : r[Len(q) + j] = o[j]
      /\ \A k \in (Len(q) + 1)..(Len(q) + Len(o)) :
           k - Len(q) \in 1..Len(o) /\ r[k] = o[k - Len(q)]
  BY CatIndex
<1> HIDE DEF r
<1>2. ASSUME Has(r, x) PROVE Has(q, x) \/ Has(o, x)
  <2>1. PICK k \in 1..Len(r) : r[k] = x BY <1>2 DEF Has
  <2>2. CASE k \in 1..Len(q) BY <1>1, <2>1, <2>2 DEF Has
  <2>3. CASE k \in (Len(q) + 1)..(Len(q) + Len(o))
    BY <1>1, <2>1, <2>3 DEF Has
  <2> QED BY <1>1, <2>2, <2>3
<1>3. ASSUME Has(q, x) PROVE Has(r, x) BY <1>1, <1>3 DEF Has
<1>4. ASSUME Has(o, x) PROVE Has(r, x) BY <1>1, <1>4, SMTT(20)
                                          DEF Has
<1> QED BY <1>2, <1>3, <1>4 DEF r

LEMMA CatAfter ==
  ASSUME NEW M, NEW q \in Seq(M), NEW o \in Seq(M), NEW x, NEW S,
         After(q, x, S), After(o, x, S), Has(q, x) => Only(o, S)
  PROVE  After(q \o o, x, S)
<1> DEFINE r == q \o o
<1>1. /\ Len(r) = Len(q) + Len(o) /\ Len(q) \in Nat /\ Len(o) \in Nat
      /\ \A i \in 1..Len(q) : r[i] = q[i]
      /\ \A k \in (Len(q) + 1)..(Len(q) + Len(o)) :
           k - Len(q) \in 1..Len(o) /\ r[k] = o[k - Len(q)]
  BY CatIndex
<1> HIDE DEF r
<1> SUFFICES ASSUME NEW i \in 1..Len(r), NEW j \in 1..Len(r), i < j, r[i] = x
             PROVE  r[j] \in S
  BY DEF After, r
<1>2. CASE j \in 1..Len(q)
  <2>1. i \in 1..Len(q) BY <1>1, <1>2
  <2> QED BY <1>1, <1>2, <2>1, Zenon DEF After
<1>3. CASE i \in 1..Len(q) /\ j \in (Len(q) + 1)..(Len(q) + Len(o))
  <2>1. Has(q, x) BY <1>1, <1>3 DEF Has
  <2> QED BY <1>1, <1>3, <2>1, Zenon DEF Only
<1>4. CASE i \in (Len(q) + 1)..(Len(q) + Len(o)) /\ j \in (Len(q) + 1)..(Len(q) + Len(o))
  <2> DEFINE a == i - Len(q)
             b == j - Len(q)
  <2>1. a \in 1..Len(o) /\ b \in 1..Len(o) /\ r[i] = o[a] /\ r[j] = o[b]
    BY <1>1, <1>4
  <2>2. a < b BY <1>1, <1>4
  <2> HIDE DEF a, b
  <2>3. o[a] = x => o[b] \in S BY <2>1, <2>2, Zenon DEF After
  <2> QED BY <2>1, <2>3
<1> QED BY <1>1, <1>2, <1>3, <1>4

LEMMA CatBefore ==
  ASSUME NEW M, NEW q \in Seq(M), NEW o \in Seq(M), NEW x, NEW y,
         Before(q, x, y), Has(q, x) \/ ~Has(o, y)
  PROVE  Before(q \o o, x, y)
<1> DEFINE r == q \o o
<1>1. /\ Len(r) = Len(q) + Len(o) /\ Len(q) \in Nat /\ Len(o) \in Nat
      /\ \A i \in 1..Len(q) : r[i] = q[i]
      /\ \A k \in (Len(q) + 1)..(Len(q) + Len(o)) :
           k - Len(q) \in 1..Len(o) /\ r[k] = o[k - Len(q)]
  BY CatIndex
<1> HIDE DEF r
<1> SUFFICES ASSUME NEW j \in 1..Len(r), r[j] = y
             PROVE  \E i \in 1..Len(r) : i < j /\ r[i] = x
  BY DEF Before, r
<1>2. CASE j \in 1..Len(q)
  <2>1. PICK i \in 1..Len(q) : i < j /\ q[i] = x BY <1>1, <1>2 DEF Before
  <2> QED BY <1>1, <2>1
<1>3. CASE j \in (Len(q) + 1)..(Len(q) + Len(o))
  <2>1. Has(o, y) BY <1>1, <1>3 DEF Has
  <2>2. PICK i \in 1..Len(q) : q[i] = x BY <2>1 DEF Has
  <2> QED BY <1>1, <1>3, <2>2
<1> QED BY <1>1, <1>2, <1>3

LEMMA CatLasts ==
  ASSUME NEW M, NEW q \in Seq(M), NEW o \in Seq(M), NEW b,
         ~Has(o, "AGG_PURGE"), Lasts(q, b)
  PROVE  Lasts(q \o o, b)
<1> DEFINE r == q \o o
<1>1. /\ Len(r) = Len(q) + Len(o) /\ Len(q) \in Nat /\ Len(o) \in Nat
      /\ \A i \in 1..Len(q) : r[i] = q[i]
      /\ \A k \in (Len(q) + 1)..(Len(q) + Len(o)) :
           k - Len(q) \in 1..Len(o) /\ r[k] = o[k - Len(q)]
  BY CatIndex
<1>2. CASE b /\ ~Has(q, "AGG_PURGE") BY <1>2, CatHas DEF Lasts
<1>3. CASE \E i \in 1..Len(q) :
             /\ q[i] = "AGG_CONFIG"
             /\ \A j \in 1..Len(q) : i < j => q[j] # "AGG_PURGE"
  <2>1. PICK i \in 1..Len(q) :
             /\ q[i] = "AGG_CONFIG"
             /\ \A j \in 1..Len(q) : i < j => q[j] # "AGG_PURGE"
    BY <1>3
  <2> HIDE DEF r
  <2>2. i \in 1..Len(r) /\ r[i] = "AGG_CONFIG" BY <1>1, <2>1
  <2>3. ASSUME NEW j \in 1..Len(r), i < j PROVE r[j] # "AGG_PURGE"
    <3>1. CASE j \in 1..Len(q) BY <1>1, <2>1, <2>3, <3>1
    <3>2. CASE j \in (Len(q) + 1)..(Len(q) + Len(o)) BY <1>1, <3>2 DEF Has
    <3> QED BY <1>1, <3>1, <3>2
  <2>4. Lasts(r, b) BY <2>2, <2>3 DEF Lasts
  <2> QED BY <2>4 DEF r
<1> QED BY <1>2, <1>3 DEF Lasts

\* A configuration that is sent with no purge after it lasts.
LEMMA CatConfig ==
  ASSUME NEW M, NEW q \in Seq(M), NEW o \in Seq(M), NEW b,
         Lasts(o, FALSE)
  PROVE  Lasts(q \o o, b)
<1> DEFINE r == q \o o
<1>1. /\ Len(r) = Len(q) + Len(o) /\ Len(q) \in Nat /\ Len(o) \in Nat
      /\ \A j \in 1..Len(o) : r[Len(q) + j] = o[j]
      /\ \A k \in (Len(q) + 1)..(Len(q) + Len(o)) :
           k - Len(q) \in 1..Len(o) /\ r[k] = o[k - Len(q)]
  BY CatIndex
<1> HIDE DEF r
<1>2. PICK i \in 1..Len(o) :
             /\ o[i] = "AGG_CONFIG"
             /\ \A j \in 1..Len(o) : i < j => o[j] # "AGG_PURGE"
  BY DEF Lasts
<1>3. Len(q) + i \in 1..Len(r) /\ r[Len(q) + i] = "AGG_CONFIG" BY <1>1, <1>2
<1>4. ASSUME NEW j \in 1..Len(r), Len(q) + i < j PROVE r[j] # "AGG_PURGE"
  <2>1. j \in (Len(q) + 1)..(Len(q) + Len(o)) /\ i < j - Len(q) BY <1>1, <1>4
  <2> QED BY <1>1, <1>2, <2>1, Zenon
<1>5. Lasts(r, b) BY <1>3, <1>4 DEF Lasts
<1> QED BY <1>5 DEF r

\* Reading: what holds of the messages under way once the first is gone.
LEMMA TailIndex ==
  ASSUME NEW M, NEW q \in Seq(M), q # <<>>
  PROVE  /\ Tail(q) \in Seq(M) /\ Len(Tail(q)) = Len(q) - 1 /\ Len(q) \in Nat \ {0}
         /\ Head(q) = q[1] /\ Head(q) \in M
         /\ \A i \in 1..Len(Tail(q)) : Tail(q)[i] = q[i + 1]
         /\ \A i \in 2..Len(q) : i - 1 \in 1..Len(Tail(q)) /\ Tail(q)[i - 1] = q[i]
  OBVIOUS

LEMMA TailKeeps ==
  ASSUME NEW M, NEW q \in Seq(M), q # <<>>, NEW x, NEW y, NEW S
  PROVE  /\ Only(q, S) => Only(Tail(q), S) /\ Head(q) \in S
         /\ After(q, x, S) => After(Tail(q), x, S)
         /\ (After(q, x, S) /\ Head(q) = x) => Only(Tail(q), S)
         /\ Has(Tail(q), x) => Has(q, x)
         /\ (Has(q, x) /\ Head(q) # x) => Has(Tail(q), x)
         /\ ~Has(q, x) => Head(q) # x
         /\ (Before(q, x, y) /\ Head(q) # x) => Before(Tail(q), x, y)
         /\ Before(q, x, y) => Head(q) # y
<1> DEFINE t == Tail(q)
<1>1. /\ Len(t) = Len(q) - 1 /\ Len(q) \in Nat \ {0} /\ Head(q) = q[1]
      /\ \A i \in 1..Len(t) : t[i] = q[i + 1]
      /\ \A i \in 2..Len(q) : i - 1 \in 1..Len(t) /\ t[i - 1] = q[i]
  BY TailIndex
<1> HIDE DEF t
<1>2. Only(q, S) => Only(t, S) /\ Head(q) \in S BY <1>1 DEF Only
<1>3. After(q, x, S) => After(t, x, S)
  <2> SUFFICES ASSUME After(q, x, S), NEW i \in 1..Len(t), NEW j \in 1..Len(t),
                      i < j, t[i] = x
               PROVE  t[j] \in S
    BY DEF After
  <2>1. i + 1 \in 1..Len(q) /\ j + 1 \in 1..Len(q) /\ i + 1 < j + 1 BY <1>1
  <2> QED BY <1>1, <2>1 DEF After
<1>4. (After(q, x, S) /\ Head(q) = x) => Only(t, S)
  <2> SUFFICES ASSUME After(q, x, S), Head(q) = x, NEW j \in 1..Len(t)
               PROVE  t[j] \in S
    BY DEF Only
  <2>1. 1 \in 1..Len(q) /\ j + 1 \in 1..Len(q) /\ 1 < j + 1 BY <1>1
  <2> QED BY <1>1, <2>1 DEF After
<1>5. Has(t, x) => Has(q, x)
  <2> SUFFICES ASSUME NEW i \in 1..Len(t), t[i] = x PROVE Has(q, x) BY DEF Has
  <2>1. i + 1 \in 1..Len(q) BY <1>1
  <2> QED BY <1>1, <2>1 DEF Has
<1>6. (Has(q, x) /\ Head(q) # x) => Has(t, x)
  <2> SUFFICES ASSUME NEW i \in 1..Len(q), q[i] = x, Head(q) # x PROVE Has(t, x)
    BY DEF Has
  <2>1. i \in 2..Len(q) BY <1>1
  <2> QED BY <1>1, <2>1 DEF Has
<1>7. ~Has(q, x) => Head(q) # x BY <1>1 DEF Has
<1>8. (Before(q, x, y) /\ Head(q) # x) => Before(t, x, y)
  <2> SUFFICES ASSUME Before(q, x, y), Head(q) # x, NEW j \in 1..Len(t), t[j] = y
               PROVE  \E i \in 1..Len(t) : i < j /\ t[i] = x
    BY DEF Before
  <2>1. j + 1 \in 1..Len(q) /\ q[j + 1] = y BY <1>1
  <2>2. PICK i \in 1..Len(q) : i < j + 1 /\ q[i] = x BY <2>1 DEF Before
  <2>3. i \in 2..Len(q) /\ i - 1 < j BY <1>1, <2>2
  <2> QED BY <1>1, <2>2, <2>3
<1>9. Before(q, x, y) => Head(q) # y BY <1>1 DEF Before
<1> QED BY <1>2, <1>3, <1>4, <1>5, <1>6, <1>7, <1>8, <1>9 DEF t

\* What a node that reads its first message knows of the port afterwards.
LEMMA TailLasts ==
  ASSUME NEW M, NEW q \in Seq(M), q # <<>>, NEW b, Lasts(q, b)
  PROVE  /\ Head(q) = "AGG_CONFIG" => Lasts(Tail(q), TRUE)
         /\ Head(q) = "AGG_PURGE" => Lasts(Tail(q), FALSE)
         /\ Head(q) \notin {"AGG_CONFIG", "AGG_PURGE"} => Lasts(Tail(q), b)
<1> DEFINE t == Tail(q)
<1>1. /\ Len(t) = Len(q) - 1 /\ Len(q) \in Nat \ {0} /\ Head(q) = q[1]
      /\ \A i \in 1..Len(t) : t[i] = q[i + 1]
      /\ \A i \in 2..Len(q) : i - 1 \in 1..Len(t) /\ t[i - 1] = q[i]
  BY TailIndex
<1> HIDE DEF t
<1>2. CASE b /\ ~Has(q, "AGG_PURGE")
  <2>1. ~Has(t, "AGG_PURGE") /\ Head(q) # "AGG_PURGE"
    BY <1>2, TailKeeps, ZenonT(30) DEF t
  <2> QED BY <1>2, <2>1 DEF Lasts, t
<1>3. ASSUME NEW i \in 1..Len(q), q[i] = "AGG_CONFIG",
             \A j \in 1..Len(q) : i < j => q[j] # "AGG_PURGE"
      PROVE  \/ i = 1 /\ ~Has(t, "AGG_PURGE")
             \/ i # 1 /\ \A c : Lasts(t, c)
  <2>1. CASE i = 1
    <3>1. ASSUME NEW j \in 1..Len(t) PROVE t[j] # "AGG_PURGE"
      <4>1. j + 1 \in 1..Len(q) /\ 1 < j + 1 BY <1>1
      <4> QED BY <1>1, <1>3, <2>1, <4>1
    <3> QED BY <2>1, <3>1 DEF Has
  <2>2. CASE i # 1
    <3>1. i \in 2..Len(q) BY <1>1, <2>2
    <3>2. i - 1 \in 1..Len(t) /\ t[i - 1] = "AGG_CONFIG" BY <1>1, <1>3, <3>1
    <3>3. ASSUME NEW j \in 1..Len(t), i - 1 < j PROVE t[j] # "AGG_PURGE"
      <4>1. j + 1 \in 1..Len(q) /\ i < j + 1 BY <1>1, <3>1, <3>3
      <4> QED BY <1>1, <1>3, <4>1
    <3> QED BY <2>2, <3>2, <3>3 DEF Lasts
  <2> QED BY <2>1, <2>2
<1>4. CASE \E i \in 1..Len(q) :
             /\ q[i] = "AGG_CONFIG"
             /\ \A j \in 1..Len(q) : i < j => q[j] # "AGG_PURGE"
  <2>1. \/ Head(q) = "AGG_CONFIG" /\ ~Has(t, "AGG_PURGE")
        \/ \A c : Lasts(t, c)
    BY <1>1, <1>3, <1>4
  <2> QED BY <2>1 DEF Lasts, t
<1> QED BY <1>2, <1>4 DEF Lasts

(***************************************************************************)
(* Messages the stages do not look at.  The channel p2 is as good as p:    *)
(* they differ in quiet messages only.                                     *)
(***************************************************************************)
Alike(p, p2) ==
  /\ \A S : (Only(p, S) /\ Quiet \subseteq S) => Only(p2, S)
  /\ \A x, S : (After(p, x, S) /\ x \notin Quiet /\ Quiet \subseteq S)
                 => After(p2, x, S)
  /\ \A x : x \notin Quiet => (Has(p, x) <=> Has(p2, x))
  /\ \A x, y : (Before(p, x, y) /\ x \notin Quiet /\ y \notin Quiet)
                 => Before(p2, x, y)
  /\ \A b : Lasts(p, b) => Lasts(p2, b)

\* The messages of the mLACP stages are not quiet.
LEMMA NotQuiet ==
  /\ "SYNC_REQUEST" \notin Quiet /\ "SYNC_START" \notin Quiet
  /\ "SYNC_DONE" \notin Quiet /\ "AGG_CONFIG" \notin Quiet
  /\ "AGG_PURGE" \notin Quiet
  BY DEF Quiet, IccpMsgs

\* Sending quiet messages.
LEMMA SendQuiet ==
  ASSUME NEW q \in Seq(Msgs), NEW o \in Seq(Msgs), Only(o, Quiet)
  PROVE  Alike(q, q \o o)
<1>1. \A x : x \notin Quiet => ~Has(o, x) BY DEF Only, Has
<1>2. \A S : Quiet \subseteq S => Only(o, S) BY DEF Only
<1>3. \A x, S : Quiet \subseteq S => After(o, x, S) BY DEF Only, After
<1>4. \A S : (Only(q, S) /\ Quiet \subseteq S) => Only(q \o o, S)
  BY <1>2, CatOnly
<1>5. \A x, S : (After(q, x, S) /\ x \notin Quiet /\ Quiet \subseteq S)
                  => After(q \o o, x, S)
  BY <1>2, <1>3, CatAfter
<1>6. \A x : x \notin Quiet => (Has(q, x) <=> Has(q \o o, x)) BY <1>1, CatHas
<1>7. \A x, y : (Before(q, x, y) /\ x \notin Quiet /\ y \notin Quiet)
                  => Before(q \o o, x, y)
  BY <1>1, CatBefore
<1>8. \A b : Lasts(q, b) => Lasts(q \o o, b) BY <1>1, NotQuiet, CatLasts
<1> QED BY <1>4, <1>5, <1>6, <1>7, <1>8 DEF Alike

\* Reading a quiet message from the socket behind what is queued.
LEMMA SkipQuiet ==
  ASSUME NEW m \in Seq(Msgs), NEW w \in Seq(Msgs), w # <<>>, Head(w) \in Quiet
  PROVE  Alike(m \o w, m \o Tail(w))
<1> DEFINE r == m \o w
           t == m \o Tail(w)
           h == Len(m) + 1
<1>1. /\ Len(m) \in Nat /\ Len(r) \in Nat /\ Len(t) = Len(r) - 1
      /\ h \in 1..Len(r) /\ r[h] = Head(w)
      /\ \A i \in 1..(h - 1) : t[i] = r[i]
      /\ \A i \in h..Len(t) : t[i] = r[i + 1]
  <2> DEFINE v == Tail(w)
  <2>1. /\ v \in Seq(Msgs) /\ Len(v) = Len(w) - 1 /\ Len(w) \in Nat \ {0}
        /\ Head(w) = w[1] /\ \A i \in 1..Len(v) : v[i] = w[i + 1]
    BY TailIndex
  <2> HIDE DEF v
  <2>2. /\ Len(r) = Len(m) + Len(w) /\ Len(m) \in Nat
        /\ \A i \in 1..Len(m) : r[i] = m[i]
        /\ \A j \in 1..Len(w) : r[Len(m) + j] = w[j]
        /\ \A k \in (Len(m) + 1)..(Len(m) + Len(w)) :
              k - Len(m) \in 1..Len(w) /\ r[k] = w[k - Len(m)]
    BY CatIndex
  <2>3. /\ Len(m \o v) = Len(m) + Len(v)
        /\ \A i \in 1..Len(m) : (m \o v)[i] = m[i]
        /\ \A k \in (Len(m) + 1)..(Len(m) + Len(v)) :
              k - Len(m) \in 1..Len(v) /\ (m \o v)[k] = v[k - Len(m)]
    <3>1. v \in Seq(Msgs) BY <2>1
    <3> QED BY <3>1, CatIndex
  <2>4. t = m \o v BY DEF v
  <2> HIDE DEF r, t
  <2>5. Len(t) = Len(r) - 1 /\ Len(r) \in Nat /\ h \in 1..Len(r) /\ r[h] = Head(w)
    <3>1. 1 \in 1..Len(w) BY <2>1
    <3> QED BY <2>1, <2>2, <2>3, <2>4, <3>1
  <2>6. \A i \in 1..(h - 1) : t[i] = r[i] BY <2>2, <2>3, <2>4
  <2>7. ASSUME NEW i \in h..Len(t) PROVE t[i] = r[i + 1]
    <3>1. i - Len(m) \in 1..Len(v) /\ t[i] = v[i - Len(m)]
      BY <2>1, <2>2, <2>3, <2>4, <2>5
    <3>2. v[i - Len(m)] = w[(i - Len(m)) + 1] BY <2>1, <3>1, SMTT(20)
    <3>3. i + 1 \in (Len(m) + 1)..(Len(m) + Len(w)) BY <2>1, <2>2, <2>3, <2>4
    <3>4. r[i + 1] = w[(i + 1) - Len(m)] BY <2>2, <3>3
    <3>5. (i + 1) - Len(m) = (i - Len(m)) + 1 BY <2>2
    <3> QED BY <3>1, <3>2, <3>4, <3>5
  <2> QED BY <2>2, <2>5, <2>6, <2>7
<1> HIDE DEF r, t, h
<1> DEFINE fwd(i) == IF i < h THEN i ELSE i + 1
           back(i) == IF i < h THEN i ELSE i - 1
<1>2. \A i \in 1..Len(t) : fwd(i) \in 1..Len(r) /\ t[i] = r[fwd(i)]
  BY <1>1
<1>3. \A i, j \in 1..Len(t) : i < j => fwd(i) < fwd(j) BY <1>1, SMTT(20)
<1>4. \A i \in 1..Len(r) :
        i # h => back(i) \in 1..Len(t) /\ fwd(back(i)) = i /\ t[back(i)] = r[i]
  <2> SUFFICES ASSUME NEW i \in 1..Len(r), i # h
               PROVE  back(i) \in 1..Len(t) /\ fwd(back(i)) = i /\ t[back(i)] = r[i]
    BY Zenon
  <2>1. CASE i < h BY <1>1, <2>1
  <2>2. CASE i > h
    <3>1. i - 1 \in h..Len(t) /\ (i - 1) + 1 = i BY <1>1, <2>2
    <3>2. t[i - 1] = r[i] BY <1>1, <3>1
    <3>3. back(i) = i - 1 /\ fwd(i - 1) = i
      <4>1. ~(i < h) /\ ~(i - 1 < h) BY <1>1, <2>2, <3>1
      <4>2. back(i) = i - 1 BY <4>1
      <4>3. fwd(i - 1) = (i - 1) + 1 BY <4>1
      <4> HIDE DEF fwd, back
      <4> QED BY <3>1, <4>2, <4>3
    <3>4. i - 1 \in 1..Len(t) BY <1>1, <3>1
    <3> HIDE DEF fwd, back
    <3> QED BY <3>2, <3>3, <3>4
  <2> QED BY <1>1, <2>1, <2>2
<1>5. \A i, j \in 1..Len(r) : (i < j /\ i # h /\ j # h) => back(i) < back(j)
  BY <1>1
<1> HIDE DEF fwd, back
<1>6. r[h] \in Quiet BY <1>1
<1>7. \A S : Only(r, S) => Only(t, S) BY <1>2 DEF Only
<1>8. \A x, S : After(r, x, S) => After(t, x, S) BY <1>2, <1>3, Zenon DEF After
<1>9. \A x : x \notin Quiet => (Has(r, x) <=> Has(t, x))
  BY <1>2, <1>4, <1>6, ZenonT(30) DEF Has
<1>10. \A x, y : (Before(r, x, y) /\ x \notin Quiet /\ y \notin Quiet)
                   => Before(t, x, y)
  <2> SUFFICES ASSUME NEW x, NEW y, Before(r, x, y), x \notin Quiet,
                      NEW j \in 1..Len(t), t[j] = y
               PROVE  \E i \in 1..Len(t) : i < j /\ t[i] = x
    BY Zenon DEF Before
  <2>1. fwd(j) \in 1..Len(r) /\ r[fwd(j)] = y BY <1>2
  <2>2. PICK i \in 1..Len(r) : i < fwd(j) /\ r[i] = x BY <2>1 DEF Before
  <2>3. i # h BY <1>6, <2>2
  <2>4. back(i) \in 1..Len(t) /\ t[back(i)] = x BY <1>4, <2>2, <2>3
  <2>5. back(i) < j BY <1>1, <2>1, <2>2, <2>3 DEF fwd, back
  <2> QED BY <2>4, <2>5
<1>11. \A b : Lasts(r, b) => Lasts(t, b)
  <2> SUFFICES ASSUME NEW b, Lasts(r, b) PROVE Lasts(t, b) OBVIOUS
  <2>1. CASE b /\ ~Has(r, "AGG_PURGE") BY <1>9, <2>1, NotQuiet DEF Lasts
  <2>2. CASE \E i \in 1..Len(r) :
               /\ r[i] = "AGG_CONFIG"
               /\ \A j \in 1..Len(r) : i < j => r[j] # "AGG_PURGE"
    <3>1. PICK i \in 1..Len(r) :
               /\ r[i] = "AGG_CONFIG"
               /\ \A j \in 1..Len(r) : i < j => r[j] # "AGG_PURGE"
      BY <2>2
    <3>2. i # h BY <1>6, <3>1, NotQuiet
    <3>3. back(i) \in 1..Len(t) /\ fwd(back(i)) = i /\ t[back(i)] = "AGG_CONFIG"
      BY <1>4, <3>1, <3>2
    <3>4. ASSUME NEW j \in 1..Len(t), back(i) < j PROVE t[j] # "AGG_PURGE"
      <4>1. fwd(j) \in 1..Len(r) /\ t[j] = r[fwd(j)] /\ i < fwd(j)
        BY <1>2, <1>3, <3>3, <3>4, Zenon
      <4> QED BY <3>1, <4>1
    <3> QED BY <3>3, <3>4 DEF Lasts
  <2> QED BY <2>1, <2>2 DEF Lasts
<1>12. Alike(r, t) BY <1>7, <1>8, <1>9, <1>10, <1>11 DEF Alike
<1> QED BY <1>12 DEF r, t

\* Quiet messages do not matter to the stages.
LEMMA AlikeStages ==
  ASSUME NEW a, NEW s, NEW p, NEW q, NEW p2, NEW q2, NEW k,
         Stages(a, s, p, q, k), Alike(p, p2), Alike(q, q2)
  PROVE  Stages(a, s, p2, q2, k)
<1>1. \A S : Quiet \subseteq Quiet \cup S BY Zenon
<1>2. ActiveOk(a, p2) BY <1>1, NotQuiet, Zenon DEF Stages, ActiveOk, Alike
<1>3. StandbyOk(s, q2) BY <1>1, NotQuiet, ZenonT(30) DEF Stages, StandbyOk, Alike
<1>4. k => Agree(a, s, p2, q2) BY <1>1, NotQuiet DEF Stages, Agree, Alike
<1>5. k => PortsOk(a, s, p2, q2) BY DEF Stages, PortsOk, Alike
<1> QED BY <1>2, <1>3, <1>4, <1>5 DEF Stages

\* A channel is as good as itself.
LEMMA AlikeSelf == \A p : Alike(p, p)
  BY DEF Alike

(***************************************************************************)
(* What the handlers send.                                                 *)
(***************************************************************************)
\* Nothing, or one message.
LEMMA SendsFew ==
  /\ \A x, S : Only(<<>>, S) /\ After(<<>>, x, S) /\ ~Has(<<>>, x)
  /\ \A x : x \in Msgs =>
       /\ <<x>> \in Seq(Msgs) /\ Has(<<x>>, x)
       /\ \A y : y # x => ~Has(<<x>>, y)
       /\ \A S, y : After(<<x>>, y, S) /\ (x \in S => Only(<<x>>, S))
  /\ \A b : Lasts(<<"AGG_CONFIG">>, b)
<1>1. \A x, S : Only(<<>>, S) /\ After(<<>>, x, S) /\ ~Has(<<>>, x)
  <2>1. Len(<<>>) = 0 OBVIOUS
  <2> QED BY <2>1 DEF Only, After, Has
<1>2. ASSUME NEW x \in Msgs
      PROVE  /\ <<x>> \in Seq(Msgs) /\ Has(<<x>>, x)
             /\ \A y : y # x => ~Has(<<x>>, y)
             /\ \A S, y : After(<<x>>, y, S) /\ (x \in S => Only(<<x>>, S))
  <2>1. Len(<<x>>) = 1 /\ <<x>>[1] = x OBVIOUS
  <2>2. \A i \in 1..Len(<<x>>) : i = 1 BY <2>1
  <2>3. 1 \in 1..Len(<<x>>) BY <2>1
  <2>4. Has(<<x>>, x) /\ \A y : y # x => ~Has(<<x>>, y)
    BY <2>1, <2>2, <2>3 DEF Has
  <2>5. \A S, y : After(<<x>>, y, S) /\ (x \in S => Only(<<x>>, S))
    BY <2>1, <2>2 DEF Only, After
  <2> QED BY <2>4, <2>5
<1>3. \A b : Lasts(<<"AGG_CONFIG">>, b)
  <2> DEFINE o == <<"AGG_CONFIG">>
  <2>1. Len(o) = 1 /\ o[1] = "AGG_CONFIG" OBVIOUS
  <2> HIDE DEF o
  <2>2. 1 \in 1..Len(o) /\ \A i \in 1..Len(o) : i = 1 BY <2>1
  <2>3. \A b : Lasts(o, b) BY <2>1, <2>2 DEF Lasts
  <2> QED BY <2>3 DEF o
<1> QED BY <1>1, <1>2, <1>3

\* A full synchronisation: start, configuration if there is one, done.
LEMMA SendAllSends ==
  ASSUME NEW m \in MlacpRecords
  PROVE  LET o == SendAllOut(m) IN
         /\ o \in Seq(Msgs)
         /\ Only(o, {"SYNC_START", "AGG_CONFIG", "SYNC_DONE"})
         /\ \A S : After(o, "SYNC_DONE", S)
         /\ Has(o, "SYNC_DONE") /\ ~Has(o, "SYNC_REQUEST") /\ ~Has(o, "AGG_PURGE")
         /\ m.lif # "no" => Lasts(o, FALSE)
<1> DEFINE a == <<"SYNC_START">>
           b == IF m.lif # "no" THEN <<"AGG_CONFIG">> ELSE <<>>
           c == <<"SYNC_DONE">>
           T == {"SYNC_START", "AGG_CONFIG", "SYNC_DONE"}
<1>1. SendAllOut(m) = (a \o b) \o c BY DEF SendAllOut
<1>2. a \in Seq(Msgs) /\ b \in Seq(Msgs) /\ c \in Seq(Msgs)
  BY OneMessage, Names
<1>3. Only(a, T) /\ Only(b, T) /\ Only(c, T)
  <2>1. "SYNC_START" \in T /\ "AGG_CONFIG" \in T /\ "SYNC_DONE" \in T OBVIOUS
  <2> HIDE DEF T
  <2> QED BY <2>1, SendsFew, Names, Zenon
<1>4. /\ ~Has(a, "SYNC_DONE") /\ ~Has(a, "SYNC_REQUEST") /\ ~Has(a, "AGG_PURGE")
      /\ ~Has(b, "SYNC_DONE") /\ ~Has(b, "SYNC_REQUEST") /\ ~Has(b, "AGG_PURGE")
      /\ Has(c, "SYNC_DONE") /\ ~Has(c, "SYNC_REQUEST") /\ ~Has(c, "AGG_PURGE")
  BY SendsFew, Names, Zenon
<1>5. m.lif # "no" => Lasts(b, FALSE) BY SendsFew, Zenon
<1>6. \A S : After(c, "SYNC_DONE", S) BY SendsFew, Names
<1> HIDE DEF a, b, c, T
<1>7. a \o b \in Seq(Msgs) /\ (a \o b) \o c \in Seq(Msgs) BY <1>2
<1>8. Only(a \o b, T) /\ \A x : Has(a \o b, x) <=> Has(a, x) \/ Has(b, x)
  BY <1>2, <1>3, CatOnly, CatHas
<1>9. /\ Only((a \o b) \o c, T)
      /\ \A x : Has((a \o b) \o c, x) <=> Has(a \o b, x) \/ Has(c, x)
  BY <1>2, <1>3, <1>7, <1>8, CatOnly, CatHas, Zenon
<1>10. \A S : After((a \o b) \o c, "SYNC_DONE", S)
  <2> TAKE S
  <2>1. ~Has(a \o b, "SYNC_DONE") BY <1>4, <1>8
  <2>2. After(a \o b, "SYNC_DONE", S) BY <2>1 DEF Has, After
  <2> QED BY <1>2, <1>6, <1>7, <2>1, <2>2, CatAfter, Zenon
<1>11. m.lif # "no" => Lasts((a \o b) \o c, FALSE)
  <2> SUFFICES ASSUME m.lif # "no" PROVE Lasts((a \o b) \o c, FALSE) BY Zenon
  <2>1. Lasts(a \o b, FALSE) BY <1>2, <1>5, CatConfig, Zenon
  <2> QED BY <1>2, <1>4, <1>7, <2>1, CatLasts, Zenon
<1> QED BY <1>1, <1>4, <1>7, <1>8, <1>9, <1>10, <1>11, Zenon DEF T

\* mlacp_exchange_handler: no purge while the port is there, its
\* configuration when that is pending, no request without a reason.
LEMMA ExchangeSends ==
  ASSUME NEW m \in MlacpRecords, NEW msg, PurgeOk(m)
  PROVE  LET o == ExchangeOut(m, msg) IN
         /\ o \in Seq(Msgs)
         /\ m.lif # "no" => ~Has(o, "AGG_PURGE")
         /\ m.lif = "unsent" => Lasts(o, FALSE)
         /\ (msg \notin {"SYNC_REQUEST", "AGG_PURGE"} /\ ~m.need)
              => ~Has(o, "SYNC_REQUEST")
<1> DEFINE r == Receive(m, msg)
           x == ReceiveOut(m, msg)
           a == IF r.need THEN <<"SYNC_REQUEST">> ELSE <<>>
           b == IF r.purge THEN <<"AGG_PURGE">> ELSE <<>>
           c == IF r.lif = "unsent" THEN <<"AGG_CONFIG">> ELSE <<>>
<1>1. ExchangeOut(m, msg) = ((x \o a) \o b) \o c BY DEF ExchangeOut
<1>2. x \in Seq(Msgs) BY ReceiveType
<1>3. a \in Seq(Msgs) /\ b \in Seq(Msgs) /\ c \in Seq(Msgs)
  BY OneMessage, Names
<1>4. /\ r.purge = m.purge
      /\ r.lif = IF msg = "SYNC_REQUEST" THEN Synced(m.lif) ELSE m.lif
      /\ msg \notin {"SYNC_REQUEST", "AGG_PURGE"} => r.need = m.need
  <2>1. SendAll(m).purge = m.purge /\ SendAll(m).lif = Synced(m.lif)
    BY DEF SendAll, MlacpRecords
  <2> QED BY <2>1, Zenon DEF Receive, MlacpRecords
<1>5. /\ ~Has(x, "AGG_PURGE")
      /\ msg # "SYNC_REQUEST" => ~Has(x, "SYNC_REQUEST")
      /\ (msg = "SYNC_REQUEST" /\ m.lif # "no") => Lasts(x, FALSE)
  BY SendAllSends, SendsFew, Zenon DEF ReceiveOut
<1>6. ~Has(a, "AGG_PURGE") /\ (~r.need => ~Has(a, "SYNC_REQUEST"))
  BY SendsFew, Names, Zenon
<1>7. ~Has(b, "SYNC_REQUEST") /\ (~r.purge => ~Has(b, "AGG_PURGE"))
  BY SendsFew, Names, Zenon
<1>8. /\ ~Has(c, "SYNC_REQUEST") /\ ~Has(c, "AGG_PURGE")
      /\ r.lif = "unsent" => Lasts(c, FALSE)
  BY SendsFew, Names, Zenon
<1>9. m.purge => m.lif = "no" BY DEF PurgeOk
<1> HIDE DEF r, x, a, b, c
<1>10. x \o a \in Seq(Msgs) /\ (x \o a) \o b \in Seq(Msgs)
       /\ ((x \o a) \o b) \o c \in Seq(Msgs)
  BY <1>2, <1>3
<1>11. \A y : Has(((x \o a) \o b) \o c, y) <=> Has(x, y) \/ Has(a, y) \/ Has(b, y) \/ Has(c, y)
  <2> TAKE y
  <2>1. Has(x \o a, y) <=> Has(x, y) \/ Has(a, y) BY <1>2, <1>3, CatHas
  <2>2. Has((x \o a) \o b, y) <=> Has(x \o a, y) \/ Has(b, y)
    BY <1>3, <1>10, CatHas, Zenon
  <2>3. Has(((x \o a) \o b) \o c, y) <=> Has((x \o a) \o b, y) \/ Has(c, y)
    BY <1>3, <1>10, CatHas, ZenonT(30)
  <2> QED BY <2>1, <2>2, <2>3
<1>12. m.lif # "no" => ~Has(((x \o a) \o b) \o c, "AGG_PURGE")
  BY <1>4, <1>5, <1>6, <1>7, <1>8, <1>9, <1>11
<1>13. ASSUME m.lif = "unsent" PROVE Lasts(((x \o a) \o b) \o c, FALSE)
  <2>1. CASE msg = "SYNC_REQUEST"
    <3>1. Lasts(x, FALSE) /\ ~Has(b, "AGG_PURGE")
      BY <1>4, <1>5, <1>7, <1>9, <1>13, <2>1, Zenon
    <3>2. Lasts(x \o a, FALSE) BY <1>2, <1>3, <1>6, <3>1, CatLasts, Zenon
    <3>3. Lasts((x \o a) \o b, FALSE) BY <1>3, <1>10, <3>1, <3>2, CatLasts,
                                         Zenon
    <3> QED BY <1>3, <1>8, <1>10, <3>3, CatLasts, Zenon
  <2>2. CASE msg # "SYNC_REQUEST"
    BY <1>3, <1>4, <1>8, <1>10, <1>13, <2>2, CatConfig, ZenonT(30)
  <2> QED BY <2>1, <2>2, Zenon
<1>14. (msg \notin {"SYNC_REQUEST", "AGG_PURGE"} /\ ~m.need)
         => ~Has(((x \o a) \o b) \o c, "SYNC_REQUEST")
  BY <1>4, <1>5, <1>6, <1>7, <1>8, <1>11
<1> QED BY <1>1, <1>10, <1>12, <1>13, <1>14, Zenon

(***************************************************************************)
(* The passes.  A pass handles msg, "NULL" or the first message of p, and  *)
(* sends o to the peer if the two are connected (k).                       *)
(***************************************************************************)
Rest(p, msg)  == IF msg = "NULL" THEN p ELSE Tail(p)
Sent(q, o, k) == IF k THEN q \o o ELSE q
Handles(p, msg) == msg = "NULL" \/ (p # <<>> /\ msg = Head(p))

\* r is what is left of p after msg was taken from it.
Left(p, msg, r) ==
  /\ \A S : Only(p, S) => Only(r, S) /\ (msg = "NULL" \/ msg \in S)
  /\ \A x, S : After(p, x, S) => /\ After(r, x, S)
                                 /\ msg = x /\ x # "NULL" => Only(r, S)
  /\ \A x : Has(r, x) => Has(p, x)
  /\ \A x : Has(p, x) /\ msg # x => Has(r, x)
  /\ \A x : ~Has(p, x) /\ x # "NULL" => msg # x
  /\ \A x, y : Before(p, x, y) => /\ msg # x => Before(r, x, y)
                                  /\ y # "NULL" => msg # y

\* What holds of p holds of what is left of it.
LEMMA RestKeeps ==
  ASSUME NEW p \in Seq(Msgs), NEW msg, Handles(p, msg)
  PROVE  Rest(p, msg) \in Seq(Msgs) /\ Left(p, msg, Rest(p, msg))
<1>1. CASE msg = "NULL" BY <1>1 DEF Rest, Left
<1>2. CASE msg # "NULL"
  <2>1. p # <<>> /\ msg = Head(p) /\ Rest(p, msg) = Tail(p)
    BY <1>2 DEF Handles, Rest
  <2>2. Tail(p) \in Seq(Msgs) BY <2>1
  <2>3. \A x, y, S :
         /\ Only(p, S) => Only(Tail(p), S) /\ Head(p) \in S
         /\ After(p, x, S) => After(Tail(p), x, S)
         /\ (After(p, x, S) /\ Head(p) = x) => Only(Tail(p), S)
         /\ Has(Tail(p), x) => Has(p, x)
         /\ (Has(p, x) /\ Head(p) # x) => Has(Tail(p), x)
         /\ ~Has(p, x) => Head(p) # x
         /\ (Before(p, x, y) /\ Head(p) # x) => Before(Tail(p), x, y)
         /\ Before(p, x, y) => Head(p) # y
    BY <2>1, TailKeeps
  <2>4. Left(p, msg, Tail(p)) BY <2>1, <2>3, Zenon DEF Left
  <2> QED BY <2>1, <2>2, <2>4, Zenon
<1> QED BY <1>1, <1>2

\* So it is for the port of the peer.
LEMMA RestLasts ==
  ASSUME NEW p \in Seq(Msgs), NEW msg, Handles(p, msg), NEW b, Lasts(p, b)
  PROVE  /\ msg = "AGG_CONFIG" => Lasts(Rest(p, msg), TRUE)
         /\ msg = "AGG_PURGE" => Lasts(Rest(p, msg), FALSE)
         /\ msg \notin {"AGG_CONFIG", "AGG_PURGE"} => Lasts(Rest(p, msg), b)
<1>1. CASE msg = "NULL" BY <1>1 DEF Rest
<1>2. CASE msg # "NULL"
  <2>1. p # <<>> /\ msg = Head(p) /\ Rest(p, msg) = Tail(p)
    BY <1>2 DEF Handles, Rest
  <2> QED BY <2>1, TailLasts, Zenon
<1> QED BY <1>1, <1>2, Zenon

\* Dropping a quiet message.
LEMMA RestQuiet ==
  ASSUME NEW p \in Seq(Msgs), NEW msg, Handles(p, msg),
         msg = "NULL" \/ msg \in Quiet
  PROVE  Alike(p, Rest(p, msg))
<1> DEFINE r == Rest(p, msg)
<1>1. Left(p, msg, r) BY RestKeeps
<1>2. CASE msg = "NULL" BY <1>2, AlikeSelf DEF Rest
<1>3. CASE msg \in Quiet
  <2> HIDE DEF r
  <2>1. msg \notin {"AGG_CONFIG", "AGG_PURGE"} BY <1>3, NotQuiet
  <2>2. \A b : Lasts(p, b) => Lasts(r, b) BY <2>1, RestLasts, Zenon DEF r
  <2>3. Alike(p, r) BY <1>1, <1>3, <2>2 DEF Alike, Left
  <2> QED BY <2>3 DEF r
<1> QED BY <1>2, <1>3

\* What the receiver knows of the peer's port afterwards.
LEMMA ReceiveLasts ==
  ASSUME NEW m \in MlacpRecords, NEW p \in Seq(Msgs), NEW msg, Handles(p, msg),
         Lasts(p, m.pif)
  PROVE  Lasts(Rest(p, msg), Receive(m, msg).pif)
<1>1. m.pif \in BOOLEAN BY DEF MlacpRecords
<1>2. /\ msg = "AGG_CONFIG" => Lasts(Rest(p, msg), TRUE)
      /\ msg = "AGG_PURGE" => Lasts(Rest(p, msg), FALSE)
      /\ msg \notin {"AGG_CONFIG", "AGG_PURGE"} => Lasts(Rest(p, msg), m.pif)
  BY RestLasts, Zenon
<1>3. /\ msg = "AGG_CONFIG" => Receive(m, msg).pif = TRUE
      /\ msg = "AGG_PURGE" => Receive(m, msg).pif = FALSE
      /\ msg \notin {"AGG_CONFIG", "AGG_PURGE"} => Receive(m, msg).pif = m.pif
  <2>1. SendAll(m).pif = m.pif BY DEF SendAll, MlacpRecords
  <2> QED BY <1>1, <2>1, Zenon DEF Receive, MlacpRecords
<1> QED BY <1>2, <1>3, Zenon

\* What the receiver makes of a message that is not a request.
LEMMA ReceiveFields ==
  ASSUME NEW m \in MlacpRecords, NEW msg, msg # "SYNC_REQUEST"
  PROVE  LET r == Receive(m, msg) IN
         /\ r.state = m.state /\ r.lif = m.lif /\ r.purge = m.purge
         /\ r.wait = (m.wait /\ msg # "SYNC_DONE")
         /\ msg # "AGG_PURGE" => r.need = m.need
  BY ZenonT(30) DEF Receive, MlacpRecords

LEMMA SendAllFields ==
  ASSUME NEW m \in MlacpRecords
  PROVE  LET r == SendAll(m) IN
         /\ r.state = Succ(m.state) /\ r.lif = Synced(m.lif) /\ ~r.wait
         /\ r.need = m.need /\ r.pif = m.pif /\ r.purge = m.purge
  BY DEF SendAll, MlacpRecords

(***************************************************************************)
(* The passes of the active node.                                          *)
(***************************************************************************)
\* INIT becomes STAGE1; the active node waits for the request.
LEMMA ActiveInit ==
  ASSUME NEW a \in MlacpRecords, NEW s, NEW p, NEW q, NEW k,
         Stages(a, s, p, q, k), a.state = "INIT"
  PROVE  Stages([a EXCEPT !.state = "STAGE1", !.wait = FALSE], s, p, q, k)
<1> DEFINE a2 == [a EXCEPT !.state = "STAGE1", !.wait = FALSE]
<1>1. a2.state = "STAGE1" /\ a2.lif = a.lif /\ a2.purge = a.purge /\ a2.pif = a.pif
  BY SMTT(20) DEF MlacpRecords
<1> HIDE DEF a2
<1>2. ActiveOk(a2, p) BY <1>1 DEF Stages, ActiveOk
<1>3. PurgeOk(a2) BY <1>1, Zenon DEF Stages, PurgeOk
<1>4. k => Agree(a2, s, p, q) BY <1>1, ZenonT(30) DEF Stages, Agree
<1>5. k => PortsOk(a2, s, p, q) BY <1>1, ZenonT(30) DEF Stages, PortsOk
<1> QED BY <1>2, <1>3, <1>4, <1>5 DEF Stages, a2

\* STAGE1: the request is answered, anything else is quiet.
LEMMA ActiveSend ==
  ASSUME NEW a \in MlacpRecords, NEW s \in MlacpRecords, NEW p \in Seq(Msgs),
         NEW q \in Seq(Msgs), NEW k \in BOOLEAN, Stages(a, s, p, q, k),
         a.state = "STAGE1", NEW msg, Handles(p, msg)
  PROVE  Stages(StageSend(a, msg), s, Rest(p, msg),
                Sent(q, StageSendOut(a, msg), k), k)
<1> DEFINE r == Rest(p, msg)
<1>1. /\ ActiveOk(a, p) /\ StandbyOk(s, q) /\ PurgeOk(a) /\ PurgeOk(s)
      /\ k => Agree(a, s, p, q) /\ PortsOk(a, s, p, q)
  BY DEF Stages
<1>2. /\ Only(p, Quiet \cup {"SYNC_REQUEST"}) /\ After(p, "SYNC_REQUEST", Quiet)
      /\ k => /\ s.state \in {"INIT", "STAGE1"} /\ Only(q, Quiet)
              /\ s.state = "INIT" => Only(p, Quiet)
  BY <1>1 DEF ActiveOk, Agree
<1>3. r \in Seq(Msgs) /\ Left(p, msg, r) BY RestKeeps
<1> HIDE DEF r
<1>4. CASE ~a.wait /\ msg = "SYNC_REQUEST"
  <2> DEFINE a2 == SendAll(a)
             o == SendAllOut(a)
             q2 == Sent(q, o, k)
  <2>1. /\ a2.state = "STAGE2" /\ ~a2.wait /\ a2.purge = a.purge
        /\ a2.lif = Synced(a.lif)
    BY SendAllFields DEF Succ
  <2>2. /\ o \in Seq(Msgs)
        /\ Only(o, {"SYNC_START", "AGG_CONFIG", "SYNC_DONE"})
        /\ \A S : After(o, "SYNC_DONE", S)
        /\ Has(o, "SYNC_DONE") /\ ~Has(o, "SYNC_REQUEST") /\ ~Has(o, "AGG_PURGE")
        /\ a.lif # "no" => Lasts(o, FALSE)
    BY SendAllSends, ZenonT(30)
  <2> HIDE DEF a2, o
  <2>3. Only(r, Quiet) BY <1>2, <1>3, <1>4, SMTT(20) DEF Left
  <2>4. ActiveOk(a2, r) BY <2>1, <2>3 DEF ActiveOk
  <2>5. PurgeOk(a2) BY <1>1, <2>1, ZenonT(30) DEF PurgeOk, Synced
  <2>6. ASSUME k
        PROVE StandbyOk(s, q2) /\ Agree(a2, s, r, q2) /\ PortsOk(a2, s, r, q2)
    <3>1. q2 = q \o o BY <2>6 DEF Sent
    <3>2. s.state = "STAGE1"
      <4>1. ~Only(p, Quiet) BY <1>3, <1>4, NotQuiet DEF Left
      <4> QED BY <1>2, <2>6, <4>1, Zenon
    <3> DEFINE T == Quiet \cup {"SYNC_START", "AGG_CONFIG", "SYNC_DONE",
                                "SYNC_REQUEST"}
    <3>3. Only(q, T) /\ Only(o, T) BY <1>2, <2>2, <2>6 DEF Only
    <3>4. Only(q \o o, T) BY <2>2, <3>3, CatOnly
    <3>5. \A x : x \notin Quiet => ~Has(q, x) BY <1>2, <2>6 DEF Only, Has
    <3>6. \A x, S : x \notin Quiet => After(q, x, S) BY <3>5, Zenon
                                                        DEF Has, After
    <3>7. After(q \o o, "SYNC_DONE", Quiet \cup {"SYNC_REQUEST"})
      BY <2>2, <3>5, <3>6, NotQuiet, CatAfter
    <3>8. ~Has(q \o o, "SYNC_REQUEST") /\ Has(q \o o, "SYNC_DONE")
      BY <2>2, <3>5, NotQuiet, CatHas
    <3>9. /\ Before(q \o o, "SYNC_DONE", "SYNC_REQUEST")
          /\ After(q \o o, "SYNC_REQUEST", Quiet)
      BY <3>8, Zenon DEF Has, Before, After
    <3>10. StandbyOk(s, q \o o)
      BY <1>1, <3>2, <3>4, <3>7, <3>9, ZenonT(30) DEF StandbyOk
    <3>11. Agree(a2, s, r, q \o o) BY <2>1, <3>2, <3>8, ZenonT(30) DEF Agree
    <3>12. PortsOk(a2, s, r, q \o o)
      <4>1. a2.lif = "sent" => Lasts(q \o o, s.pif)
        BY <2>1, <2>2, CatConfig, ZenonT(30) DEF Synced
      <4> QED BY <3>2, <4>1, Zenon DEF PortsOk
    <3> QED BY <3>1, <3>10, <3>11, <3>12
  <2>7. ~k => StandbyOk(s, q2) BY <1>1 DEF Sent
  <2>8. Stages(a2, s, r, q2, k)
    BY <1>1, <2>4, <2>5, <2>6, <2>7 DEF Stages
  <2>9. StageSend(a, msg) = a2 /\ StageSendOut(a, msg) = o
    BY <1>4, ZenonT(30) DEF StageSend, StageSendOut, a2, o
  <2> QED BY <2>8, <2>9 DEF r
<1>5. CASE ~(~a.wait /\ msg = "SYNC_REQUEST")
  <2>1. StageSend(a, msg) = a /\ StageSendOut(a, msg) = <<>>
    BY <1>5 DEF StageSend, StageSendOut
  <2>2. Sent(q, <<>>, k) = q BY DEF Sent
  <2>3. ActiveOk(a, r) BY <1>2, <1>3, Zenon DEF ActiveOk, Left
  <2>4. k => Agree(a, s, r, q) BY <1>1, <1>2, <1>3, Zenon DEF Agree, Left
  <2>5. k => PortsOk(a, s, r, q) BY <1>1, <1>2, Zenon DEF PortsOk
  <2> QED BY <1>1, <2>1, <2>2, <2>3, <2>4, <2>5 DEF Stages, r
<1> QED BY <1>4, <1>5

\* STAGE2: the request is sent, then the peer's data received to its end.
LEMMA ActiveRequest ==
  ASSUME NEW a \in MlacpRecords, NEW s \in MlacpRecords, NEW p \in Seq(Msgs),
         NEW q \in Seq(Msgs), NEW k \in BOOLEAN, Stages(a, s, p, q, k),
         a.state = "STAGE2", NEW msg, Handles(p, msg)
  PROVE  Stages(StageRequest(a, msg), s, Rest(p, msg),
                Sent(q, StageRequestOut(a, msg), k), k)
<1> DEFINE r == Rest(p, msg)
<1>1. /\ ActiveOk(a, p) /\ StandbyOk(s, q) /\ PurgeOk(a) /\ PurgeOk(s)
      /\ k => Agree(a, s, p, q) /\ PortsOk(a, s, p, q)
  BY DEF Stages
<1>2. r \in Seq(Msgs) /\ Left(p, msg, r) BY RestKeeps
<1>3. CASE ~a.wait
  <2> DEFINE a2 == [a EXCEPT !.wait = TRUE]
             o == <<"SYNC_REQUEST">>
             q2 == Sent(q, o, k)
  <2>1. /\ a2.state = "STAGE2" /\ a2.wait /\ a2.purge = a.purge
        /\ a2.lif = a.lif /\ a2.pif = a.pif
    BY Zenon DEF MlacpRecords
  <2>2. /\ o \in Seq(Msgs) /\ Only(o, {"SYNC_REQUEST"})
        /\ \A x, S : After(o, x, S)
        /\ ~Has(o, "AGG_PURGE")
    BY SendsFew, Names, ZenonT(30)
  <2>3. Only(p, Quiet) BY <1>1, <1>3 DEF ActiveOk
  <2>4. Only(r, Quiet) /\ (msg = "NULL" \/ msg \in Quiet)
    BY <1>2, <2>3 DEF Left
  <2>5. \A b : Lasts(p, b) => Lasts(r, b) BY <2>4, NotQuiet, RestLasts,
                                             ZenonT(30)
  <2> HIDE DEF a2, o, r
  <2>6. ActiveOk(a2, r)
    <3>1. ~Has(r, "SYNC_REQUEST") BY <2>4, NotQuiet, Zenon DEF Only, Has
    <3> QED BY <2>1, <3>1 DEF ActiveOk
  <2>7. PurgeOk(a2) BY <1>1, <2>1, ZenonT(30) DEF PurgeOk
  <2>8. ASSUME k
        PROVE StandbyOk(s, q2) /\ Agree(a2, s, r, q2) /\ PortsOk(a2, s, r, q2)
    <3>1. q2 = q \o o BY <2>8, Zenon DEF Sent
    <3>2. /\ s.state \in {"STAGE1", "STAGE2"}
          /\ s.state = "STAGE1" => Has(q, "SYNC_DONE")
          /\ ~Has(q, "SYNC_REQUEST")
      BY <1>1, <1>3, <2>8, Zenon DEF Agree
    <3>3. \A S : Only(q, S) /\ "SYNC_REQUEST" \in S => Only(q \o o, S)
      <4>1. \A S : "SYNC_REQUEST" \in S => Only(o, S) BY <2>2, Zenon DEF Only
      <4> QED BY <2>2, <4>1, CatOnly, ZenonT(30)
    <3>4. \A x, S : After(q, x, S) /\ "SYNC_REQUEST" \in S => After(q \o o, x, S)
      <4>1. \A S : "SYNC_REQUEST" \in S => Only(o, S) BY <2>2 DEF Only
      <4> QED BY <2>2, <4>1, CatAfter, ZenonT(30)
    <3>5. After(q \o o, "SYNC_REQUEST", Quiet)
      <4>1. After(q, "SYNC_REQUEST", Quiet) BY <3>2, Zenon DEF Has, After
      <4> QED BY <2>2, <3>2, <4>1, CatAfter, Zenon
    <3>6. s.state = "STAGE1" => Before(q \o o, "SYNC_DONE", "SYNC_REQUEST")
      BY <1>1, <2>2, <3>2, CatBefore, ZenonT(30) DEF StandbyOk
    <3>7. StandbyOk(s, q \o o)
      BY <1>1, <3>2, <3>3, <3>4, <3>5, <3>6, ZenonT(30) DEF StandbyOk
    <3>8. Agree(a2, s, r, q \o o) BY <2>1, <2>4, <3>2, ZenonT(30) DEF Agree
    <3>9. PortsOk(a2, s, r, q \o o)
      <4>1. a.lif = "sent" => Lasts(q, s.pif)
        BY <1>1, <2>8, <3>2 DEF PortsOk
      <4>2. a.lif = "sent" => Lasts(q \o o, s.pif) BY <2>2, <4>1, CatLasts
      <4> QED BY <2>1, <3>2, <4>2, ZenonT(30) DEF PortsOk
    <3> QED BY <3>1, <3>7, <3>8, <3>9, Zenon
  <2>9. ~k => StandbyOk(s, q2) BY <1>1, Zenon DEF Sent
  <2>10. Stages(a2, s, r, q2, k)
    BY <1>1, <2>6, <2>7, <2>8, <2>9, ZenonT(30) DEF Stages
  <2>11. StageRequest(a, msg) = a2 /\ StageRequestOut(a, msg) = o
    BY <1>3, Zenon DEF StageRequest, StageRequestOut, a2, o
  <2> QED BY <2>10, <2>11 DEF r
<1>4. CASE a.wait
  <2> DEFINE v == Receive(a, msg)
             a2 == IF v.wait THEN v ELSE [v EXCEPT !.state = Succ(v.state)]
  <2>1. ~Has(p, "SYNC_REQUEST") BY <1>1, <1>4, Zenon DEF ActiveOk
  <2>2. msg # "SYNC_REQUEST" BY <1>2, <2>1 DEF Left
  <2>3. /\ v \in MlacpRecords /\ v.state = a.state /\ v.lif = a.lif
        /\ v.purge = a.purge /\ v.wait = (msg # "SYNC_DONE")
    BY <1>4, <2>2, ReceiveFields, ReceiveType
  <2>4. StageRequest(a, msg) = a2 /\ StageRequestOut(a, msg) = <<>>
    BY <1>4, <2>2, Zenon DEF StageRequest, StageRequestOut, ReceiveOut
  <2>5. ASSUME Lasts(p, a.pif) PROVE Lasts(r, v.pif)
    BY <2>5, ReceiveLasts, Zenon
  <2> HIDE DEF v, r
  <2>6. /\ a2.lif = a.lif /\ a2.purge = a.purge /\ a2.pif = v.pif
        /\ msg # "SYNC_DONE" => a2.state = "STAGE2" /\ a2.wait
        /\ msg = "SYNC_DONE" => a2.state = "EXCHANGE"
    BY <2>3, Zenon DEF MlacpRecords, Succ
  <2> HIDE DEF a2
  <2>7. ActiveOk(a2, r) BY <1>2, <2>1, <2>6, ZenonT(30) DEF ActiveOk, Left
  <2>8. PurgeOk(a2) BY <1>1, <2>6, Zenon DEF PurgeOk
  <2>9. ASSUME k PROVE Agree(a2, s, r, q) /\ PortsOk(a2, s, r, q)
    <3>1. /\ s.state \in {"STAGE1", "STAGE2", "EXCHANGE"}
          /\ s.state \in {"STAGE1", "STAGE2"} => Only(p, Quiet)
          /\ s.state = "EXCHANGE" => Only(q, Quiet) /\ ~s.need
      BY <1>1, <1>4, <2>9, Zenon DEF Agree
    <3>2. Only(p, Quiet) => Only(r, Quiet) /\ msg # "SYNC_DONE"
      BY <1>2, NotQuiet, Zenon DEF Left
    <3>3. Agree(a2, s, r, q) BY <2>6, <3>1, <3>2, ZenonT(30) DEF Agree
    <3>4. PortsOk(a2, s, r, q)
      BY <1>1, <2>5, <2>6, <2>9, ZenonT(30) DEF PortsOk
    <3> QED BY <3>3, <3>4, Zenon
  <2>10. Sent(q, <<>>, k) = q BY SMTT(20) DEF Sent
  <2> QED BY <1>1, <2>4, <2>7, <2>8, <2>9, <2>10, ZenonT(30) DEF Stages, r
<1> QED BY <1>3, <1>4

\* mlacp_exchange_handler leaves EXCHANGE only by answering a request.
LEMMA ExchangeFields ==
  ASSUME NEW m \in MlacpRecords, NEW msg, m.state = "EXCHANGE"
  PROVE  LET e == Exchange(m, msg) IN
         /\ e.state \in {"EXCHANGE", "ERROR"}
         /\ msg # "SYNC_REQUEST" => e.state = "EXCHANGE"
         /\ ~e.need /\ ~e.purge /\ e.pif = Receive(m, msg).pif
         /\ e.lif = "sent" => m.lif \in {"sent", "unsent"}
<1> DEFINE v == Receive(m, msg)
<1>1. v \in MlacpRecords BY ReceiveType
<1>2. /\ v.state \in {"EXCHANGE", "ERROR"}
      /\ msg # "SYNC_REQUEST" => v.state = "EXCHANGE"
      /\ v.lif = "no" <=> m.lif = "no"
  <2>1. CASE msg = "SYNC_REQUEST"
    <3>1. v = SendAll(m) BY <2>1, ZenonT(30) DEF Receive
    <3>2. v.state = Succ(m.state) /\ v.lif = Synced(m.lif)
      BY <3>1, SendAllFields
    <3> QED BY <2>1, <3>2 DEF Succ, Synced
  <2>2. CASE msg # "SYNC_REQUEST" BY <2>2, ReceiveFields
  <2> QED BY <2>1, <2>2
<1>3. Exchange(m, msg) = [v EXCEPT !.need = FALSE, !.purge = FALSE,
                                   !.lif = Synced(v.lif)]
  BY DEF Exchange
<1>4. m.lif \in {"no", "sent", "unsent"} BY DEF MlacpRecords
<1> HIDE DEF v
<1>5. LET e == Exchange(m, msg) IN
        /\ e.state = v.state /\ ~e.need /\ ~e.purge /\ e.pif = v.pif
        /\ e.lif = Synced(v.lif)
  BY <1>1, <1>3 DEF MlacpRecords
<1> QED BY <1>2, <1>4, <1>5 DEF Synced, v

\* EXCHANGE.
LEMMA ActiveExchange ==
  ASSUME NEW a \in MlacpRecords, NEW s \in MlacpRecords, NEW p \in Seq(Msgs),
         NEW q \in Seq(Msgs), NEW k \in BOOLEAN, Stages(a, s, p, q, k),
         a.state = "EXCHANGE", NEW msg, Handles(p, msg)
  PROVE  Stages(Exchange(a, msg), s, Rest(p, msg),
                Sent(q, ExchangeOut(a, msg), k), k)
<1> DEFINE r == Rest(p, msg)
           a2 == Exchange(a, msg)
           o == ExchangeOut(a, msg)
           q2 == Sent(q, o, k)
           v == Receive(a, msg)
<1>1. /\ StandbyOk(s, q) /\ PurgeOk(a) /\ PurgeOk(s)
      /\ k => Agree(a, s, p, q) /\ PortsOk(a, s, p, q)
  BY Zenon DEF Stages
<1>2. /\ a2.state \in {"EXCHANGE", "ERROR"} /\ ~a2.purge
      /\ a2.pif = v.pif /\ (a2.lif = "sent" => a.lif \in {"sent", "unsent"})
  BY ExchangeFields, ZenonT(30)
<1>3. /\ o \in Seq(Msgs)
      /\ a.lif # "no" => ~Has(o, "AGG_PURGE")
      /\ a.lif = "unsent" => Lasts(o, FALSE)
  BY <1>1, ExchangeSends, ZenonT(30)
<1>4. Lasts(p, a.pif) => Lasts(r, v.pif) BY ReceiveLasts, Zenon
<1> HIDE DEF r, a2, o, v
<1>5. ActiveOk(a2, r) /\ PurgeOk(a2) BY <1>2 DEF ActiveOk, PurgeOk
<1>6. ASSUME k
      PROVE StandbyOk(s, q2) /\ Agree(a2, s, r, q2) /\ PortsOk(a2, s, r, q2)
  <2>1. q2 = q \o o BY <1>6 DEF Sent
  <2>2. s.state \in {"EXCHANGE", "ERROR"} BY <1>1, <1>6, Zenon DEF Agree
  <2>3. StandbyOk(s, q2) BY <2>2, Zenon DEF StandbyOk
  <2>4. Agree(a2, s, r, q2) BY <1>2, <2>2, ZenonT(30) DEF Agree
  <2>5. (a2.lif = "sent" /\ s.state # "ERROR") => Lasts(q \o o, s.pif)
    <3>1. (a.lif = "sent" /\ s.state # "ERROR") => Lasts(q, s.pif)
      BY <1>1, <1>6 DEF PortsOk
    <3>2. (a.lif = "sent" /\ s.state # "ERROR") => Lasts(q \o o, s.pif)
      BY <1>3, <3>1, CatLasts
    <3>3. a.lif = "unsent" => Lasts(q \o o, s.pif) BY <1>3, CatConfig,
                                                      ZenonT(30)
    <3> QED BY <1>2, <3>2, <3>3, ZenonT(30)
  <2>6. (s.lif = "sent" /\ a2.state # "ERROR") => Lasts(r, a2.pif)
    BY <1>1, <1>2, <1>4, <1>6, <2>2, ZenonT(30) DEF PortsOk
  <2>7. PortsOk(a2, s, r, q2) BY <2>1, <2>5, <2>6 DEF PortsOk
  <2> QED BY <2>3, <2>4, <2>7
<1>7. ~k => StandbyOk(s, q2) BY <1>1 DEF Sent
<1>8. Stages(a2, s, r, q2, k) BY <1>1, <1>5, <1>6, <1>7 DEF Stages
<1> QED BY <1>8 DEF r, a2, o

\* ERROR: messages are taken from the queue and not looked at.
LEMMA ActiveError ==
  ASSUME NEW a, NEW s, NEW p, NEW q, NEW k, Stages(a, s, p, q, k),
         a.state = "ERROR", NEW r
  PROVE  Stages(a, s, r, q, k)
<1>1. ActiveOk(a, r) BY SMTT(20) DEF ActiveOk
<1>2. k => Agree(a, s, r, q) /\ PortsOk(a, s, r, q)
  BY DEF Stages, Agree, PortsOk
<1> QED BY <1>1, <1>2 DEF Stages

(***************************************************************************)
(* The passes of the standby node.                                         *)
(***************************************************************************)
\* INIT becomes STAGE1 and the request is sent.
LEMMA StandbyInit ==
  ASSUME NEW a \in MlacpRecords, NEW s \in MlacpRecords, NEW p \in Seq(Msgs),
         NEW q \in Seq(Msgs), NEW k \in BOOLEAN, Stages(a, s, p, q, k),
         s.state = "INIT"
  PROVE  Stages(a, [s EXCEPT !.state = "STAGE1", !.wait = TRUE],
                Sent(p, <<"SYNC_REQUEST">>, k), q, k)
<1> DEFINE s2 == [s EXCEPT !.state = "STAGE1", !.wait = TRUE]
           o == <<"SYNC_REQUEST">>
           p2 == Sent(p, o, k)
<1>1. /\ ActiveOk(a, p) /\ StandbyOk(s, q) /\ PurgeOk(a) /\ PurgeOk(s)
      /\ k => Agree(a, s, p, q) /\ PortsOk(a, s, p, q)
  BY DEF Stages
<1>2. /\ s2.state = "STAGE1" /\ s2.wait /\ s2.need = s.need
      /\ s2.lif = s.lif /\ s2.purge = s.purge
  BY Zenon DEF MlacpRecords
<1>3. /\ o \in Seq(Msgs)
      /\ \A S : "SYNC_REQUEST" \in S => Only(o, S)
      /\ \A x, S : After(o, x, S)
  BY SendsFew, Names, ZenonT(30)
<1> HIDE DEF s2, o
<1>4. StandbyOk(s2, q)
  <2>1. Only(q, Quiet) /\ ~s.need BY <1>1 DEF StandbyOk
  <2>2. ~Has(q, "SYNC_DONE") /\ ~Has(q, "SYNC_REQUEST")
    BY <2>1, NotQuiet DEF Only, Has
  <2>3. /\ \A S : After(q, "SYNC_DONE", S) /\ After(q, "SYNC_REQUEST", S)
        /\ Before(q, "SYNC_DONE", "SYNC_REQUEST")
    BY <2>2 DEF Has, After, Before
  <2>4. \A S : Only(q, Quiet \cup S) BY <2>1, Zenon DEF Only
  <2> QED BY <1>2, <2>1, <2>3, <2>4, Zenon DEF StandbyOk
<1>5. PurgeOk(s2) BY <1>1, <1>2, ZenonT(30) DEF PurgeOk
<1>6. ASSUME k
      PROVE ActiveOk(a, p2) /\ Agree(a, s2, p2, q) /\ PortsOk(a, s2, p2, q)
  <2>1. p2 = p \o o BY <1>6 DEF Sent
  <2>2. a.state \in {"INIT", "STAGE1"} /\ Only(q, Quiet) /\ Only(p, Quiet)
    <3>1. a.state \in MlacpStates /\ a.wait \in BOOLEAN BY Zenon
                                                           DEF MlacpRecords
    <3> QED BY <1>1, <1>6, <3>1 DEF Agree, MlacpStates
  <2>3. Only(p \o o, Quiet \cup {"SYNC_REQUEST"})
    <3>1. Only(p, Quiet \cup {"SYNC_REQUEST"}) BY <2>2 DEF Only
    <3> QED BY <1>3, <3>1, CatOnly
  <2>4. After(p \o o, "SYNC_REQUEST", Quiet)
    <3>1. ~Has(p, "SYNC_REQUEST") BY <2>2, NotQuiet DEF Only, Has
    <3>2. After(p, "SYNC_REQUEST", Quiet) BY <3>1 DEF Has, After
    <3> QED BY <1>3, <3>1, <3>2, CatAfter
  <2>5. ActiveOk(a, p2) BY <2>1, <2>2, <2>3, <2>4, Zenon DEF ActiveOk
  <2>6. Agree(a, s2, p2, q) BY <1>2, <2>2, ZenonT(30) DEF Agree
  <2>7. PortsOk(a, s2, p2, q) BY <1>2, <2>2 DEF PortsOk
  <2> QED BY <2>5, <2>6, <2>7
<1>7. ~k => ActiveOk(a, p2) BY <1>1, Zenon DEF Sent
<1>8. Stages(a, s2, p2, q, k) BY <1>1, <1>4, <1>5, <1>6, <1>7, ZenonT(30) DEF Stages
<1> QED BY <1>8 DEF s2, o

\* STAGE1: the peer's data is received to its end; no request comes before.
LEMMA StandbyReceive ==
  ASSUME NEW a \in MlacpRecords, NEW s \in MlacpRecords, NEW p \in Seq(Msgs),
         NEW q \in Seq(Msgs), NEW k \in BOOLEAN, Stages(a, s, p, q, k),
         s.state = "STAGE1", NEW msg, Handles(q, msg)
  PROVE  Stages(a, StageRequest(s, msg),
                Sent(p, StageRequestOut(s, msg), k), Rest(q, msg), k)
<1> DEFINE r == Rest(q, msg)
           v == Receive(s, msg)
           s2 == IF v.wait THEN v ELSE [v EXCEPT !.state = Succ(v.state)]
           T == Quiet \cup {"SYNC_START", "AGG_CONFIG", "SYNC_DONE", "SYNC_REQUEST"}
<1>1. /\ ActiveOk(a, p) /\ StandbyOk(s, q) /\ PurgeOk(a) /\ PurgeOk(s)
      /\ k => Agree(a, s, p, q) /\ PortsOk(a, s, p, q)
  BY DEF Stages
<1>2. /\ s.wait /\ ~s.need /\ Only(q, T)
      /\ After(q, "SYNC_DONE", Quiet \cup {"SYNC_REQUEST"})
      /\ Before(q, "SYNC_DONE", "SYNC_REQUEST") /\ After(q, "SYNC_REQUEST", Quiet)
  BY <1>1 DEF StandbyOk
<1>3. r \in Seq(Msgs) /\ Left(q, msg, r) BY RestKeeps, Zenon
<1>4. msg # "SYNC_REQUEST" /\ msg # "AGG_PURGE"
  <2>1. "AGG_PURGE" \notin T BY NotQuiet, SMTT(20)
  <2> QED BY <1>2, <1>3, <2>1, Zenon DEF Left
<1>5. /\ v \in MlacpRecords /\ v.state = "STAGE1" /\ v.lif = s.lif
      /\ v.purge = s.purge /\ v.wait = (msg # "SYNC_DONE") /\ ~v.need
  BY <1>2, <1>4, ReceiveFields, ReceiveType
<1>6. StageRequest(s, msg) = s2 /\ StageRequestOut(s, msg) = <<>>
  BY <1>2, <1>4, Zenon DEF StageRequest, StageRequestOut, ReceiveOut
<1>7. Lasts(q, s.pif) => Lasts(r, v.pif) BY ReceiveLasts, Zenon
<1> HIDE DEF v, r
<1>8. /\ s2.lif = s.lif /\ s2.purge = s.purge /\ s2.pif = v.pif /\ ~s2.need
      /\ msg # "SYNC_DONE" => s2.state = "STAGE1" /\ s2.wait
      /\ msg = "SYNC_DONE" => s2.state = "STAGE2"
  BY <1>5, Zenon DEF MlacpRecords, Succ
<1> HIDE DEF s2, T
<1>9. /\ Only(r, T) /\ After(r, "SYNC_REQUEST", Quiet)
      /\ After(r, "SYNC_DONE", Quiet \cup {"SYNC_REQUEST"})
      /\ msg # "SYNC_DONE" => Before(r, "SYNC_DONE", "SYNC_REQUEST")
      /\ msg = "SYNC_DONE" => Only(r, Quiet \cup {"SYNC_REQUEST"})
  BY <1>2, <1>3, Zenon DEF Left
<1>10. StandbyOk(s2, r) BY <1>8, <1>9, ZenonT(30) DEF StandbyOk, T
<1>11. PurgeOk(s2) BY <1>1, <1>8, ZenonT(30) DEF PurgeOk
<1>12. ASSUME k PROVE Agree(a, s2, p, r) /\ PortsOk(a, s2, p, r)
  <2>1. a.state \in {"INIT", "STAGE1", "STAGE2"}
    <3>1. a.state \in MlacpStates BY DEF MlacpRecords
    <3> QED BY <1>1, <1>12, <3>1 DEF Agree, MlacpStates
  <2>2. a.wait \in BOOLEAN BY DEF MlacpRecords
  <2>3. Only(q, Quiet) => Only(r, Quiet) /\ msg # "SYNC_DONE"
    BY <1>3, NotQuiet, Zenon DEF Left
  <2>4. /\ ~Has(q, "SYNC_REQUEST") => ~Has(r, "SYNC_REQUEST")
        /\ (Has(q, "SYNC_DONE") /\ msg # "SYNC_DONE") => Has(r, "SYNC_DONE")
    BY <1>3, Zenon DEF Left
  <2>5. Agree(a, s2, p, r)
    BY <1>1, <1>8, <1>12, <2>1, <2>2, <2>3, <2>4, ZenonT(30) DEF Agree
  <2>6. PortsOk(a, s2, p, r) BY <1>1, <1>7, <1>8, <1>12, ZenonT(30) DEF PortsOk
  <2> QED BY <2>5, <2>6
<1>13. Sent(p, <<>>, k) = p BY DEF Sent
<1> QED BY <1>1, <1>6, <1>10, <1>11, <1>12, <1>13 DEF Stages, r

\* STAGE2: the request is answered, anything else is quiet.
LEMMA StandbySend ==
  ASSUME NEW a \in MlacpRecords, NEW s \in MlacpRecords, NEW p \in Seq(Msgs),
         NEW q \in Seq(Msgs), NEW k \in BOOLEAN, Stages(a, s, p, q, k),
         s.state = "STAGE2", NEW msg, Handles(q, msg)
  PROVE  Stages(a, StageSend(s, msg), Sent(p, StageSendOut(s, msg), k),
                Rest(q, msg), k)
<1> DEFINE r == Rest(q, msg)
<1>1. /\ ActiveOk(a, p) /\ StandbyOk(s, q) /\ PurgeOk(a) /\ PurgeOk(s)
      /\ k => Agree(a, s, p, q) /\ PortsOk(a, s, p, q)
  BY DEF Stages
<1>2. /\ Only(q, Quiet \cup {"SYNC_REQUEST"}) /\ After(q, "SYNC_REQUEST", Quiet)
      /\ ~s.need
  BY <1>1 DEF StandbyOk
<1>3. r \in Seq(Msgs) /\ Left(q, msg, r) BY RestKeeps
<1>4. k => a.state = "STAGE2"
  <2>1. a.state \in MlacpStates BY DEF MlacpRecords
  <2> QED BY <1>1, <2>1 DEF Agree, MlacpStates
<1>5. a.wait \in BOOLEAN BY DEF MlacpRecords
<1>6. \A b : Lasts(q, b) => Lasts(r, b)
  <2>1. msg \notin {"AGG_CONFIG", "AGG_PURGE"} BY <1>2, <1>3, NotQuiet DEF Left
  <2> QED BY <2>1, RestLasts, Zenon
<1> HIDE DEF r
<1>7. CASE ~s.wait /\ msg = "SYNC_REQUEST"
  <2> DEFINE s2 == SendAll(s)
             o == SendAllOut(s)
             p2 == Sent(p, o, k)
  <2>1. /\ s2.state = "EXCHANGE" /\ s2.purge = s.purge /\ s2.need = s.need
        /\ s2.lif = Synced(s.lif) /\ s2.pif = s.pif
    BY <1>7, SendAllFields DEF Succ
  <2>2. /\ o \in Seq(Msgs) /\ ~Has(o, "SYNC_REQUEST")
        /\ s.lif # "no" => Lasts(o, FALSE)
    BY SendAllSends, ZenonT(30)
  <2> HIDE DEF s2, o
  <2>3. Only(r, Quiet) BY <1>2, <1>3, <1>7 DEF Left
  <2>4. StandbyOk(s2, r) BY <2>1, Zenon DEF StandbyOk
  <2>5. PurgeOk(s2) BY <1>1, <2>1, ZenonT(30) DEF PurgeOk, Synced
  <2>6. ASSUME k
        PROVE ActiveOk(a, p2) /\ Agree(a, s2, p2, r) /\ PortsOk(a, s2, p2, r)
    <3>1. p2 = p \o o BY <2>6, Zenon DEF Sent
    <3>2. Has(q, "SYNC_REQUEST") BY <1>3, <1>7, Zenon DEF Left
    <3>3. a.wait BY <1>1, <1>4, <1>5, <2>6, <3>2, Zenon DEF Agree
    <3>4. ~Has(p \o o, "SYNC_REQUEST")
      BY <1>1, <1>4, <2>2, <2>6, <3>3, CatHas, Zenon DEF ActiveOk
    <3>5. ActiveOk(a, p2) BY <1>4, <2>6, <3>1, <3>3, <3>4, ZenonT(30)
                             DEF ActiveOk
    <3>6. Agree(a, s2, p2, r) BY <1>2, <1>4, <2>1, <2>3, <2>6, <3>3, Zenon
                                 DEF Agree
    <3>7. s2.lif = "sent" => Lasts(p \o o, a.pif)
      BY <2>1, <2>2, CatConfig, ZenonT(30) DEF Synced
    <3>8. PortsOk(a, s2, p2, r)
      BY <1>1, <1>4, <1>6, <1>7, <2>1, <2>6, <3>1, <3>7, Zenon DEF PortsOk
    <3> QED BY <3>5, <3>6, <3>8
  <2>7. ~k => ActiveOk(a, p2) BY <1>1, Zenon DEF Sent
  <2>8. Stages(a, s2, p2, r, k)
    BY <1>1, <2>4, <2>5, <2>6, <2>7, Zenon DEF Stages
  <2>9. StageSend(s, msg) = s2 /\ StageSendOut(s, msg) = o
    BY <1>7 DEF StageSend, StageSendOut, s2, o
  <2> QED BY <2>8, <2>9 DEF r
<1>8. CASE ~(~s.wait /\ msg = "SYNC_REQUEST")
  <2>1. StageSend(s, msg) = s /\ StageSendOut(s, msg) = <<>>
    BY <1>8 DEF StageSend, StageSendOut
  <2>2. Sent(p, <<>>, k) = p BY DEF Sent
  <2>3. StandbyOk(s, r) BY <1>2, <1>3, SMTT(20) DEF StandbyOk, Left
  <2>4. k => Agree(a, s, p, r)
    BY <1>1, <1>3, <1>4 DEF Agree, Left
  <2>5. k => PortsOk(a, s, p, r) BY <1>1, <1>6 DEF PortsOk
  <2> QED BY <1>1, <2>1, <2>2, <2>3, <2>4, <2>5 DEF Stages, r
<1> QED BY <1>7, <1>8

\* EXCHANGE: no request is sent while the active node is in STAGE2.
LEMMA StandbyExchange ==
  ASSUME NEW a \in MlacpRecords, NEW s \in MlacpRecords, NEW p \in Seq(Msgs),
         NEW q \in Seq(Msgs), NEW k \in BOOLEAN, Stages(a, s, p, q, k),
         s.state = "EXCHANGE", NEW msg, Handles(q, msg)
  PROVE  Stages(a, Exchange(s, msg), Sent(p, ExchangeOut(s, msg), k),
                Rest(q, msg), k)
<1> DEFINE r == Rest(q, msg)
           s2 == Exchange(s, msg)
           o == ExchangeOut(s, msg)
           p2 == Sent(p, o, k)
           v == Receive(s, msg)
<1>1. /\ ActiveOk(a, p) /\ PurgeOk(a) /\ PurgeOk(s)
      /\ k => Agree(a, s, p, q) /\ PortsOk(a, s, p, q)
  BY Zenon DEF Stages
<1>2. /\ s2.state \in {"EXCHANGE", "ERROR"} /\ ~s2.purge /\ ~s2.need
      /\ msg # "SYNC_REQUEST" => s2.state = "EXCHANGE"
      /\ s2.pif = v.pif /\ (s2.lif = "sent" => s.lif \in {"sent", "unsent"})
  BY ExchangeFields, ZenonT(30)
<1>3. /\ o \in Seq(Msgs)
      /\ s.lif # "no" => ~Has(o, "AGG_PURGE")
      /\ s.lif = "unsent" => Lasts(o, FALSE)
      /\ (msg \notin {"SYNC_REQUEST", "AGG_PURGE"} /\ ~s.need)
           => ~Has(o, "SYNC_REQUEST")
  BY <1>1, ExchangeSends, Zenon
<1>4. Lasts(q, s.pif) => Lasts(r, v.pif) BY ReceiveLasts, Zenon
<1>5. r \in Seq(Msgs) /\ Left(q, msg, r) BY RestKeeps, Zenon
<1> HIDE DEF r, s2, o, v
<1>6. StandbyOk(s2, r) /\ PurgeOk(s2) BY <1>2, ZenonT(30)
                                         DEF StandbyOk, PurgeOk
<1>7. ASSUME k
      PROVE ActiveOk(a, p2) /\ Agree(a, s2, p2, r) /\ PortsOk(a, s2, p2, r)
  <2>1. p2 = p \o o BY <1>7 DEF Sent
  <2>2. /\ a.state \in {"STAGE2", "EXCHANGE", "ERROR"}
        /\ a.state = "STAGE2" => a.wait /\ Only(q, Quiet) /\ ~s.need
    <3>1. a.state \in MlacpStates /\ a.wait \in BOOLEAN BY Zenon
                                                           DEF MlacpRecords
    <3> QED BY <1>1, <1>7, <3>1 DEF Agree, MlacpStates
  <2>3. a.state = "STAGE2" =>
          Only(r, Quiet) /\ msg \notin {"SYNC_REQUEST", "AGG_PURGE"}
    BY <1>5, <2>2, NotQuiet, Zenon DEF Left
  <2>4. ActiveOk(a, p2)
    <3>1. a.state = "STAGE2" => ~Has(p \o o, "SYNC_REQUEST")
      BY <1>1, <1>3, <2>2, <2>3, CatHas, Zenon DEF ActiveOk
    <3> QED BY <2>1, <2>2, <3>1, Zenon DEF ActiveOk
  <2>5. Agree(a, s2, p2, r) BY <1>2, <2>2, <2>3, ZenonT(30) DEF Agree
  <2>6. (s2.lif = "sent" /\ a.state # "ERROR") => Lasts(p \o o, a.pif)
    <3>1. (s.lif = "sent" /\ a.state # "ERROR") => Lasts(p, a.pif)
      BY <1>1, <1>7 DEF PortsOk
    <3>2. (s.lif = "sent" /\ a.state # "ERROR") => Lasts(p \o o, a.pif)
      BY <1>3, <3>1, CatLasts
    <3>3. s.lif = "unsent" => Lasts(p \o o, a.pif) BY <1>3, CatConfig,
                                                      ZenonT(30)
    <3> QED BY <1>2, <3>2, <3>3, ZenonT(30)
  <2>7. (a.lif = "sent" /\ s2.state # "ERROR") => Lasts(r, s2.pif)
    BY <1>1, <1>2, <1>4, <1>7, <2>2, Zenon DEF PortsOk
  <2>8. PortsOk(a, s2, p2, r) BY <2>1, <2>6, <2>7, ZenonT(30) DEF PortsOk
  <2> QED BY <2>4, <2>5, <2>8
<1>8. ~k => ActiveOk(a, p2) BY <1>1, Zenon DEF Sent
<1>9. Stages(a, s2, p2, r, k) BY <1>1, <1>6, <1>7, <1>8 DEF Stages
<1> QED BY <1>9 DEF r, s2, o

\* ERROR.
LEMMA StandbyError ==
  ASSUME NEW a \in MlacpRecords, NEW s, NEW p, NEW q, NEW k,
         Stages(a, s, p, q, k), s.state = "ERROR", NEW r
  PROVE  Stages(a, s, p, r, k)
<1>1. StandbyOk(s, r) BY DEF StandbyOk
<1>2. a.state \in MlacpStates /\ a.wait \in BOOLEAN BY SMTT(20)
                                                       DEF MlacpRecords
<1>3. k => Agree(a, s, p, r) /\ PortsOk(a, s, p, r)
  BY <1>2 DEF Stages, Agree, PortsOk, MlacpStates
<1> QED BY <1>1, <1>3 DEF Stages
=============================================================================
