---------------------------- MODULE MlagIfProofs ----------------------------
(***************************************************************************)
(* Theorems about MlagIf.  The handlers map a node record to a node        *)
(* record, so each has a lemma on what it does to any record, and the      *)
(* invariants are proved record by record.  The last part defines the      *)
(* invariant of what the peer knows, and what sending and reading do to it; *)
(* MlagNewsProofs proves that every action keeps it.                       *)
(***************************************************************************)
EXTENDS MlagIf, SequenceTheorems, TLAPS

\* What IsolationFollowsPeer and DownMeansDisabled say of one node.
Follows(m) ==
  (peerlink /\ m.stage = "EXCHANGE" /\ m.bound /\ m.link /\ m.pif # "none")
    => (m.iso <=> m.pif = "up")
Disabled(m) ==
  (m.stage = "EXCHANGE" /\ m.bound /\ ~m.link /\ ~m.cfg) => m.tdis
Good(m) == Follows(m) /\ Disabled(m)

(***************************************************************************)
(* What each handler does to a record.                                     *)
(***************************************************************************)
\* The messages a handler may write.
LEMMA Words ==
  /\ <<"DONE">> \in Seq(Msgs) /\ <<"ACK">> \in Seq(Msgs)
  /\ <<"REQ">> \in Seq(Msgs) /\ <<"PURGE">> \in Seq(Msgs)
  /\ <<"CONF">> \in Seq(Msgs)
  /\ \A up : <<State(up)>> \in Seq(Msgs) /\ <<"CONF", State(up)>> \in Seq(Msgs)
<1>1. \A x \in Msgs : <<x>> \in Seq(Msgs) OBVIOUS
<1>2. \A x, y \in Msgs : <<x, y>> \in Seq(Msgs) OBVIOUS
<1>3. \A up : State(up) \in Msgs BY DEF State, Msgs
<1>4. {"DONE", "ACK", "REQ", "PURGE", "CONF"} \subseteq Msgs BY DEF Msgs
<1> QED BY <1>1, <1>2, <1>3, <1>4

\* Writing to the socket changes nothing else.
LEMMA SendType ==
  ASSUME NEW m \in NodeRecords, NEW msgs \in Seq(Msgs)
  PROVE  /\ Send(m, msgs) \in NodeRecords
         /\ Send(m, msgs).stage = m.stage /\ Send(m, msgs).wait = m.wait
         /\ Good(m) => Good(Send(m, msgs))
<1> DEFINE s == Send(m, msgs)
<1>1. m.out \o msgs \in Seq(Msgs) BY DEF NodeRecords
<1>2. s \in NodeRecords BY <1>1, Zenon DEF Send, NodeRecords
<1>3. /\ s.stage = m.stage /\ s.wait = m.wait /\ s.link = m.link
      /\ s.bound = m.bound /\ s.cfg = m.cfg /\ s.tdis = m.tdis
      /\ s.iso = m.iso /\ s.pif = m.pif
  BY DEF Send, NodeRecords
<1>4. Good(m) => Good(s)
  <2> HIDE DEF s
  <2> QED BY <1>3 DEF Good, Follows, Disabled
<1> QED BY <1>2, <1>3, <1>4

\* Setting the isolation flag.
LEMMA IsoType ==
  ASSUME NEW m \in NodeRecords, NEW b \in BOOLEAN
  PROVE  /\ [m EXCEPT !.iso = b] \in NodeRecords
         /\ [m EXCEPT !.iso = b].iso = b
         /\ [m EXCEPT !.iso = b].stage = m.stage
         /\ [m EXCEPT !.iso = b].wait = m.wait
         /\ [m EXCEPT !.iso = b].link = m.link
         /\ [m EXCEPT !.iso = b].bound = m.bound
         /\ [m EXCEPT !.iso = b].cfg = m.cfg
         /\ [m EXCEPT !.iso = b].changed = m.changed
         /\ [m EXCEPT !.iso = b].tdis = m.tdis
         /\ [m EXCEPT !.iso = b].pif = m.pif
  BY DEF NodeRecords

LEMMA LifType ==
  ASSUME NEW m \in NodeRecords, NEW up \in BOOLEAN
  PROVE  LET i == isolate_from_lif(m, up) IN
         /\ i \in NodeRecords
         /\ i.stage = m.stage /\ i.wait = m.wait /\ i.link = m.link
         /\ i.bound = m.bound /\ i.cfg = m.cfg /\ i.tdis = m.tdis
         /\ i.changed = m.changed /\ i.pif = m.pif
         /\ (peerlink /\ m.stage = "EXCHANGE" /\ up) => (i.iso <=> m.pif # "down")
<1>1. (m.pif # "down") \in BOOLEAN OBVIOUS
<1> QED BY <1>1, IsoType, ZenonT(30) DEF isolate_from_lif

LEMMA PifType ==
  ASSUME NEW m \in NodeRecords, NEW up \in BOOLEAN
  PROVE  LET i == isolate_from_pif(m, up) IN
         /\ i \in NodeRecords
         /\ i.stage = m.stage /\ i.wait = m.wait /\ i.link = m.link
         /\ i.bound = m.bound /\ i.cfg = m.cfg /\ i.tdis = m.tdis
         /\ i.pif = m.pif
         /\ (peerlink /\ m.stage = "EXCHANGE" /\ m.bound /\ m.link) => i.iso = up
  BY IsoType DEF isolate_from_pif

\* Setting the traffic flag.
LEMMA TdisType ==
  ASSUME NEW m \in NodeRecords, NEW b \in BOOLEAN
  PROVE  LET t == [m EXCEPT !.tdis = b] IN
         /\ t \in NodeRecords
         /\ t.tdis = b
         /\ t.stage = m.stage /\ t.wait = m.wait /\ t.link = m.link
         /\ t.bound = m.bound /\ t.cfg = m.cfg /\ t.iso = m.iso
         /\ t.pif = m.pif
  BY DEF NodeRecords

LEMMA DisableType ==
  ASSUME NEW m \in NodeRecords
  PROVE  LET t == disable_traffic(m) IN
         /\ t \in NodeRecords
         /\ t.stage = m.stage /\ t.wait = m.wait /\ t.link = m.link
         /\ t.bound = m.bound /\ t.cfg = m.cfg /\ t.iso = m.iso
         /\ t.pif = m.pif
         /\ (m.bound /\ m.stage = "EXCHANGE" /\ ~m.link) => t.tdis
         /\ m.tdis => t.tdis
  BY TdisType, Zenon DEF disable_traffic

LEMMA EnableType ==
  ASSUME NEW m \in NodeRecords
  PROVE  LET t == enable_traffic(m) IN
         /\ t \in NodeRecords
         /\ t.stage = m.stage /\ t.wait = m.wait /\ t.link = m.link
         /\ t.bound = m.bound /\ t.cfg = m.cfg /\ t.iso = m.iso
         /\ t.pif = m.pif
  BY TdisType, Zenon DEF enable_traffic

\* mlacp_portchannel_state_handler leaves a good node, whatever it finds.
LEMMA StateHandlerGood ==
  ASSUME NEW m \in NodeRecords, NEW up \in BOOLEAN, peerlink \in BOOLEAN
  PROVE  LET h == state_handler(m, up) IN
         /\ h \in NodeRecords /\ Good(h)
         /\ h.stage = m.stage /\ h.wait = m.wait
<1> DEFINE i == isolate_from_lif(m, up)
           b == i.changed \/ m.link # up
           p == [i EXCEPT !.link = up, !.changed = b]
           h == state_handler(m, up)
<1>1. /\ i \in NodeRecords
      /\ i.stage = m.stage /\ i.wait = m.wait
      /\ i.bound = m.bound /\ i.cfg = m.cfg /\ i.pif = m.pif
      /\ (peerlink /\ m.stage = "EXCHANGE" /\ up) => (i.iso <=> m.pif # "down")
  BY LifType
<1>2. h = IF up THEN p ELSE disable_traffic(p) BY DEF state_handler
<1>3. b \in BOOLEAN OBVIOUS
<1> HIDE DEF i, b, h
<1>4. /\ p \in NodeRecords
      /\ p.stage = m.stage /\ p.wait = m.wait /\ p.link = up
      /\ p.bound = m.bound /\ p.cfg = m.cfg /\ p.pif = m.pif /\ p.iso = i.iso
  BY <1>1, <1>3, ZenonT(30) DEF NodeRecords
<1> HIDE DEF p
<1>5. /\ h \in NodeRecords
      /\ h.stage = m.stage /\ h.wait = m.wait /\ h.link = up
      /\ h.bound = m.bound /\ h.pif = m.pif /\ h.iso = i.iso
      /\ (m.bound /\ m.stage = "EXCHANGE" /\ ~up) => h.tdis
  BY <1>2, <1>4, DisableType
<1>6. m.pif \in {"none", "up", "down"} BY DEF NodeRecords
<1>7. Good(h) BY <1>1, <1>5, <1>6 DEF Good, Follows, Disabled
<1> QED BY <1>5, <1>7 DEF h

\* So does mlacp_peer_conn_handler.
LEMMA ConnGood ==
  ASSUME NEW m \in NodeRecords, peerlink \in BOOLEAN
  PROVE  LET h == peer_conn_handler(m) IN
         h \in NodeRecords /\ Good(h) /\ h.stage = m.stage /\ h.wait = m.wait
<1>1. m.link \in BOOLEAN BY DEF NodeRecords
<1>2. CASE m.bound BY <1>1, <1>2, StateHandlerGood DEF peer_conn_handler
<1>3. CASE ~m.bound
  BY <1>3 DEF peer_conn_handler, Good, Follows, Disabled
<1> QED BY <1>2, <1>3

\* current_state++ stays within the states.
LEMMA SuccType == \A s \in Stages : Succ(s) \in Stages
  BY DEF Stages, Succ

\* Answering a request; from EXCHANGE it leads to ERROR.
LEMMA SendAllType ==
  ASSUME NEW m \in NodeRecords
  PROVE  /\ SendAll(m) \in NodeRecords
         /\ SendAll(m).stage = Succ(m.stage)
<1> DEFINE c == [m EXCEPT !.cfg = FALSE, !.changed = FALSE]
           s == IF m.bound THEN Send(c, <<"CONF", State(m.link)>>) ELSE m
           d == Send(s, <<"DONE">>)
<1>1. c \in NodeRecords /\ c.stage = m.stage BY Zenon DEF NodeRecords
<1> HIDE DEF c
<1>2. s \in NodeRecords /\ s.stage = m.stage BY <1>1, Words, SendType, Zenon
<1> HIDE DEF s
<1>3. d \in NodeRecords /\ d.stage = m.stage BY <1>2, Words, SendType, Zenon
<1> HIDE DEF d
<1> DEFINE t == Succ(m.stage)
           r == [d EXCEPT !.wait = FALSE, !.stage = t]
<1>4. t \in Stages BY SuccType DEF NodeRecords
<1>5. SendAll(m) = r BY <1>3, Zenon DEF SendAll, c, s, d
<1>6. r \in NodeRecords /\ r.stage = t
  <2> HIDE DEF t
  <2> QED BY <1>3, <1>4, Zenon DEF NodeRecords
<1> QED BY <1>5, <1>6

\* What is learnt of the peer's PortChannel.
LEMMA AggConfGood ==
  ASSUME NEW m \in NodeRecords, peerlink \in BOOLEAN
  PROVE  LET u == update_Agg_conf(m) IN
         /\ u \in NodeRecords /\ u.stage = m.stage /\ u.wait = m.wait
         /\ Good(m) => Good(u)
<1> DEFINE p == [m EXCEPT !.pif = "up"]
           i == isolate_from_pif(p, TRUE)
<1>1. CASE m.pif # "none" BY <1>1 DEF update_Agg_conf
<1>2. CASE m.pif = "none"
  <2>1. /\ p \in NodeRecords /\ p.pif = "up"
        /\ p.stage = m.stage /\ p.wait = m.wait /\ p.link = m.link
        /\ p.bound = m.bound /\ p.cfg = m.cfg /\ p.tdis = m.tdis
    BY DEF NodeRecords
  <2> HIDE DEF p
  <2>2. /\ i \in NodeRecords /\ i.pif = "up"
        /\ i.stage = m.stage /\ i.wait = m.wait /\ i.link = m.link
        /\ i.bound = m.bound /\ i.cfg = m.cfg /\ i.tdis = m.tdis
        /\ (peerlink /\ m.stage = "EXCHANGE" /\ m.bound /\ m.link) => i.iso = TRUE
    BY <2>1, PifType, ZenonT(30)
  <2>3. update_Agg_conf(m) = i BY <1>2 DEF update_Agg_conf, p
  <2> HIDE DEF i
  <2>4. Good(m) => Good(i) BY <2>2 DEF Good, Follows, Disabled
  <2> QED BY <2>2, <2>3, <2>4
<1> QED BY <1>1, <1>2

LEMMA PurgeGood ==
  ASSUME NEW m \in NodeRecords
  PROVE  LET u == purge_Agg_conf(m) IN
         /\ u \in NodeRecords /\ u.stage = m.stage /\ u.wait = m.wait
         /\ Good(m) => Good(u)
<1> DEFINE u == purge_Agg_conf(m)
<1>1. u \in NodeRecords
  BY Zenon DEF purge_Agg_conf, NodeRecords
<1>2. /\ u.stage = m.stage /\ u.wait = m.wait /\ u.link = m.link
      /\ u.bound = m.bound /\ u.cfg = m.cfg /\ u.tdis = m.tdis
      /\ u.iso = m.iso /\ u.pif \in {"none", m.pif}
  BY DEF purge_Agg_conf, NodeRecords
<1>3. Good(m) => Good(u)
  <2> HIDE DEF u
  <2> QED BY <1>2 DEF Good, Follows, Disabled
<1> QED BY <1>1, <1>2, <1>3

LEMMA AggStateGood ==
  ASSUME NEW m \in NodeRecords, NEW up \in BOOLEAN, peerlink \in BOOLEAN
  PROVE  LET u == update_Aggport_state(m, up) IN
         /\ u \in NodeRecords /\ u.stage = m.stage /\ u.wait = m.wait
         /\ Good(m) => Good(u)
<1> DEFINE i == isolate_from_pif(m, up)
           s == Pif(up)
           p == [i EXCEPT !.pif = s]
<1>1. CASE m.pif \in {"none", s} BY <1>1 DEF update_Aggport_state
<1>2. CASE m.pif \notin {"none", s}
  <2>1. /\ i \in NodeRecords
        /\ i.stage = m.stage /\ i.wait = m.wait /\ i.link = m.link
        /\ i.bound = m.bound /\ i.cfg = m.cfg /\ i.tdis = m.tdis
        /\ (peerlink /\ m.stage = "EXCHANGE" /\ m.bound /\ m.link) => i.iso = up
    BY PifType
  <2>2. s \in {"up", "down"} /\ (s = "up" <=> up) BY DEF Pif
  <2>3. update_Aggport_state(m, up) = p BY <1>2 DEF update_Aggport_state
  <2> HIDE DEF i, s
  <2>4. /\ p \in NodeRecords /\ p.pif = s
        /\ p.stage = m.stage /\ p.wait = m.wait /\ p.link = m.link
        /\ p.bound = m.bound /\ p.cfg = m.cfg /\ p.tdis = m.tdis
        /\ p.iso = i.iso
    BY <2>1, <2>2, Zenon DEF NodeRecords
  <2> HIDE DEF p
  <2>5. Good(m) => Good(p)
    BY <2>1, <2>2, <2>4 DEF Good, Follows, Disabled
  <2> QED BY <2>3, <2>4, <2>5
<1> QED BY <1>1, <1>2

\* An ack leaves the traffic of a PortChannel that is down disabled.
LEMMA AckGood ==
  ASSUME NEW m \in NodeRecords
  PROVE  LET u == recv_if_up_ack(m) IN
         /\ u \in NodeRecords /\ u.stage = m.stage /\ u.wait = m.wait
         /\ Good(m) => Good(u)
<1> DEFINE e == enable_traffic(m)
<1>1. CASE m.link
  <2>1. /\ e \in NodeRecords /\ e.stage = m.stage /\ e.wait = m.wait
        /\ e.link = m.link /\ e.bound = m.bound /\ e.cfg = m.cfg
        /\ e.iso = m.iso /\ e.pif = m.pif
    BY EnableType
  <2>2. recv_if_up_ack(m) = e BY <1>1 DEF recv_if_up_ack
  <2> HIDE DEF e
  <2>3. Good(m) => Good(e) BY <1>1, <2>1 DEF Good, Follows, Disabled
  <2> QED BY <2>1, <2>2, <2>3
<1>2. CASE ~m.link BY <1>2 DEF recv_if_up_ack
<1> QED BY <1>1, <1>2

\* Receiving a message keeps a node good, and without one it changes
\* nothing; only a request moves the stage.
LEMMA ReceiveGood ==
  ASSUME NEW m \in NodeRecords, NEW msg \in Msgs \cup {"NULL"},
         peerlink \in BOOLEAN
  PROVE  LET r == Receive(m, msg) IN
         /\ r \in NodeRecords
         /\ (m.stage = "EXCHANGE" /\ Good(m)) => Good(r)
         /\ msg = "NULL" => r = m
<1> DEFINE r == Receive(m, msg)
<1>1. CASE msg = "CONF" BY <1>1, AggConfGood DEF Receive
<1>2. CASE msg = "PURGE" BY <1>2, PurgeGood DEF Receive
<1>3. CASE msg \in {"UP", "DOWN"}
  <2> DEFINE up == msg = "UP"
             u == update_Aggport_state(m, up)
  <2>1. r = IF up THEN send_if_up_ack(u) ELSE u
    BY <1>3, Zenon DEF Receive, recv_aggState
  <2>2. u \in NodeRecords /\ u.stage = m.stage /\ (Good(m) => Good(u))
    BY AggStateGood, Zenon
  <2> HIDE DEF r, u, up
  <2>3. send_if_up_ack(u) \in NodeRecords /\ (Good(u) => Good(send_if_up_ack(u)))
    BY <2>2, SendType, Words, Zenon DEF send_if_up_ack
  <2>4. r \in NodeRecords /\ (Good(m) => Good(r)) BY <2>1, <2>2, <2>3
  <2> QED BY <1>3, <2>4 DEF r
<1>4. CASE msg = "ACK" BY <1>4, AckGood DEF Receive
<1>5. CASE msg = "REQ"
  <2>1. r = SendAll(m) BY <1>5 DEF Receive
  <2>2. r \in NodeRecords /\ (m.stage = "EXCHANGE" => r.stage = "ERROR")
    BY <2>1, SendAllType DEF Succ
  <2> HIDE DEF r
  <2>3. m.stage = "EXCHANGE" => Good(r) BY <2>2 DEF Good, Follows, Disabled
  <2> QED BY <1>5, <2>2, <2>3 DEF r
<1>6. CASE msg = "DONE"
  <2>1. r = [m EXCEPT !.wait = FALSE] BY <1>6 DEF Receive
  <2> HIDE DEF r
  <2>2. /\ r \in NodeRecords /\ r.stage = m.stage /\ r.link = m.link
        /\ r.bound = m.bound /\ r.cfg = m.cfg /\ r.tdis = m.tdis
        /\ r.iso = m.iso /\ r.pif = m.pif
    BY <2>1, Zenon DEF NodeRecords
  <2>3. Good(m) => Good(r) BY <2>2 DEF Good, Follows, Disabled
  <2> QED BY <1>6, <2>2, <2>3 DEF r
<1>7. CASE msg = "NULL" BY <1>7 DEF Receive
<1> QED BY <1>1, <1>2, <1>3, <1>4, <1>5, <1>6, <1>7 DEF Msgs

\* The stage handlers, which without a message do not move the stage.
LEMMA StageType ==
  ASSUME NEW n \in Node, NEW m \in NodeRecords,
         NEW msg \in Msgs \cup {"NULL"}, peerlink \in BOOLEAN
  PROVE  LET r == Stage(n, m, msg) IN
         /\ r \in NodeRecords
         /\ msg = "NULL" => r.stage = m.stage
<1> DEFINE r == Stage(n, m, msg)
           sends == (m.stage = "STAGE1") = (n = Active)
<1>1. CASE sends
  <2>1. r = IF ~m.wait /\ msg = "REQ" THEN SendAll(m) ELSE m
    BY <1>1 DEF Stage
  <2> QED BY <2>1, SendAllType
<1>2. CASE ~sends /\ ~m.wait
  <2> DEFINE w == [m EXCEPT !.wait = TRUE]
  <2>1. r = Send(w, <<"REQ">>) BY <1>2 DEF Stage
  <2>2. w \in NodeRecords /\ w.stage = m.stage BY Zenon DEF NodeRecords
  <2> HIDE DEF w
  <2>3. Send(w, <<"REQ">>) \in NodeRecords /\ Send(w, <<"REQ">>).stage = w.stage
    BY <2>2, SendType, Words, Zenon
  <2> QED BY <2>1, <2>2, <2>3
<1>3. CASE ~sends /\ m.wait
  <2> DEFINE q == Receive(m, msg)
             t == Succ(q.stage)
             u == [q EXCEPT !.stage = t]
  <2>1. r = IF q.wait THEN q ELSE u BY <1>3 DEF Stage
  <2>2. q \in NodeRecords /\ (msg = "NULL" => q = m) BY ReceiveGood
  <2> HIDE DEF q
  <2>3. t \in Stages BY <2>2, SuccType DEF NodeRecords
  <2> HIDE DEF t
  <2>4. u \in NodeRecords BY <2>2, <2>3 DEF NodeRecords
  <2> HIDE DEF u
  <2> QED BY <1>3, <2>1, <2>2, <2>4
<1> QED BY <1>1, <1>2, <1>3

\* The sending half of mlacp_exchange_handler keeps a node good: what it
\* announces as attached and down it disables first.
LEMMA FlushGood ==
  ASSUME NEW m \in NodeRecords, NEW sent \in BOOLEAN, Good(m)
  PROVE  Flush(m, sent) \in NodeRecords /\ Good(Flush(m, sent))
<1> DEFINE a == FlushRequest(m)
           b == FlushPurge(a)
           c == FlushConfig(b)
           d == FlushState(c, sent)
<1>1. a \in NodeRecords /\ Good(a)
  <2> DEFINE k == [m EXCEPT !.need = FALSE]
  <2>1. a = IF m.need THEN Send(k, <<"REQ">>) ELSE m BY DEF FlushRequest
  <2>2. /\ k \in NodeRecords /\ k.stage = m.stage /\ k.link = m.link
        /\ k.bound = m.bound /\ k.cfg = m.cfg /\ k.tdis = m.tdis
        /\ k.iso = m.iso /\ k.pif = m.pif
    BY Zenon DEF NodeRecords
  <2> HIDE DEF k, a
  <2>3. Good(k) BY <2>2 DEF Good, Follows, Disabled
  <2> QED BY <2>1, <2>2, <2>3, SendType, Words, Zenon
<1> HIDE DEF a
<1>2. b \in NodeRecords /\ Good(b)
  <2> DEFINE q == Send(a, <<"PURGE">>)
             k == [q EXCEPT !.purge = FALSE]
  <2>1. b = IF a.purge THEN k ELSE a BY DEF FlushPurge
  <2>2. q \in NodeRecords /\ Good(q) BY <1>1, SendType, Words, Zenon
  <2> HIDE DEF q, b
  <2>3. /\ k \in NodeRecords /\ k.stage = q.stage /\ k.link = q.link
        /\ k.bound = q.bound /\ k.cfg = q.cfg /\ k.tdis = q.tdis
        /\ k.iso = q.iso /\ k.pif = q.pif
    BY <2>2, Zenon DEF NodeRecords
  <2> HIDE DEF k
  <2>4. Good(k) BY <2>2, <2>3 DEF Good, Follows, Disabled
  <2> QED BY <1>1, <2>1, <2>3, <2>4
<1> HIDE DEF b
<1>3. c \in NodeRecords /\ Good(c)
  <2> DEFINE t == disable_traffic(b)
             k == [t EXCEPT !.cfg = FALSE]
  <2>1. c = IF b.bound /\ b.cfg THEN Send(k, <<"CONF">>) ELSE b
    BY DEF FlushConfig
  <2>2. /\ t \in NodeRecords /\ t.stage = b.stage /\ t.link = b.link
        /\ t.bound = b.bound /\ t.iso = b.iso /\ t.pif = b.pif
        /\ (b.bound /\ b.stage = "EXCHANGE" /\ ~b.link) => t.tdis
    BY <1>2, DisableType
  <2> HIDE DEF t, c
  <2>3. /\ k \in NodeRecords /\ k.stage = t.stage /\ k.link = t.link
        /\ k.bound = t.bound /\ k.tdis = t.tdis
        /\ k.iso = t.iso /\ k.pif = t.pif
    BY <2>2, Zenon DEF NodeRecords
  <2> HIDE DEF k
  <2>4. Good(k) BY <1>2, <2>2, <2>3 DEF Good, Follows, Disabled
  <2> QED BY <1>2, <2>1, <2>3, <2>4, SendType, Words, Zenon
<1> HIDE DEF c
<1>4. d \in NodeRecords /\ Good(d)
  <2> DEFINE k == [c EXCEPT !.changed = ~sent]
  <2>1. d = IF c.bound /\ c.changed THEN Send(k, <<State(c.link)>>) ELSE c
    BY DEF FlushState
  <2>2. /\ k \in NodeRecords /\ k.stage = c.stage /\ k.link = c.link
        /\ k.bound = c.bound /\ k.cfg = c.cfg /\ k.tdis = c.tdis
        /\ k.iso = c.iso /\ k.pif = c.pif
    BY <1>3, ZenonT(30) DEF NodeRecords
  <2> HIDE DEF k, d
  <2>3. Good(k) BY <1>3, <2>2 DEF Good, Follows, Disabled
  <2> QED BY <1>3, <2>1, <2>2, <2>3, SendType, Words, Zenon
<1>5. Flush(m, sent) = d BY DEF Flush, a, b, c
<1> QED BY <1>4, <1>5

LEMMA PassType ==
  ASSUME NEW n \in Node, NEW m \in NodeRecords,
         NEW msg \in Msgs \cup {"NULL"}, NEW sent \in BOOLEAN,
         peerlink \in BOOLEAN, Good(m)
  PROVE  LET r == Pass(n, m, msg, sent) IN
         /\ r \in NodeRecords
         /\ m.stage \notin {"STAGE1", "STAGE2"} => Good(r)
         /\ (msg = "NULL" /\ m.stage \in {"STAGE1", "STAGE2"}) =>
               r.stage = m.stage
<1> DEFINE r == Pass(n, m, msg, sent)
           q == Receive(m, msg)
<1>1. CASE m.stage \in {"STAGE1", "STAGE2"}
  <2>1. r = Stage(n, m, msg) BY <1>1 DEF Pass
  <2> QED BY <1>1, <2>1, StageType
<1>2. CASE m.stage = "EXCHANGE"
  <2>1. r = Flush(q, sent) BY <1>2 DEF Pass
  <2>2. q \in NodeRecords /\ Good(q) BY <1>2, ReceiveGood
  <2> HIDE DEF q
  <2> QED BY <1>2, <2>1, <2>2, FlushGood
<1>3. CASE m.stage \notin {"STAGE1", "STAGE2", "EXCHANGE"}
  BY <1>3 DEF Pass
<1> QED BY <1>1, <1>2, <1>3

\* An iteration leaves a good node.
LEMMA TransitGood ==
  ASSUME NEW n \in Node, NEW m \in NodeRecords,
         NEW msg \in Msgs \cup {"NULL"}, NEW sent \in BOOLEAN,
         peerlink \in BOOLEAN, Good(m)
  PROVE  LET r == Transit(n, m, msg, sent) IN r \in NodeRecords /\ Good(r)
<1> DEFINE a == Pass(n, m, msg, sent)
           enter == m.stage # "EXCHANGE" /\ a.stage = "EXCHANGE"
           b == IF enter THEN peer_conn_handler(a) ELSE a
           r == Pass(n, b, "NULL", sent)
<1>1. a \in NodeRecords /\ (m.stage \notin {"STAGE1", "STAGE2"} => Good(a))
  BY PassType
<1> HIDE DEF a
<1>2. b \in NodeRecords /\ Good(b)
  <2>1. CASE enter BY <1>1, <2>1, ConnGood
  <2>2. CASE ~enter /\ a.stage = "EXCHANGE" BY <1>1, <2>2
  <2>3. CASE a.stage # "EXCHANGE"
    BY <1>1, <2>3 DEF Good, Follows, Disabled
  <2> QED BY <2>1, <2>2, <2>3
<1> HIDE DEF b
<1>3. /\ r \in NodeRecords
      /\ b.stage \notin {"STAGE1", "STAGE2"} => Good(r)
      /\ b.stage \in {"STAGE1", "STAGE2"} => r.stage = b.stage
  <2>1. "NULL" \in Msgs \cup {"NULL"} OBVIOUS
  <2> QED BY <1>2, <2>1, PassType, Zenon
<1>4. Transit(n, m, msg, sent) = r BY DEF Transit, a, b
<1> HIDE DEF r
<1>5. b.stage \in {"STAGE1", "STAGE2"} => Good(r)
  BY <1>3 DEF Good, Follows, Disabled
<1> QED BY <1>3, <1>4, <1>5

(***************************************************************************)
(* The actions.                                                            *)
(***************************************************************************)
NodesGood == \A n \in Node : Good(node[n])
IInv == TypeOK /\ NodesGood

\* A step that makes of one node a good one keeps the invariant.
LEMMA BecomesGood ==
  ASSUME IInv, NEW n \in Node, NEW m \in NodeRecords, Good(m),
         NEW input \in Seq(Msgs), Becomes(n, m, input),
         open' \subseteq Node, detached' \subseteq Node, peerlink' = peerlink
  PROVE  IInv'
<1> DEFINE c == [m EXCEPT !.out = <<>>]
<1>1. /\ c \in NodeRecords /\ c.out = <<>>
      /\ c.stage = m.stage /\ c.link = m.link /\ c.bound = m.bound
      /\ c.cfg = m.cfg /\ c.tdis = m.tdis /\ c.iso = m.iso /\ c.pif = m.pif
  <2>1. <<>> \in Seq(Msgs) OBVIOUS
  <2> QED BY <2>1, Zenon DEF NodeRecords
<1>2. node' = [node EXCEPT ![n] = c] BY DEF Becomes
<1> HIDE DEF c
<1>3. Good(c) BY <1>1 DEF Good, Follows, Disabled
<1>4. /\ node' \in [Node -> NodeRecords]
      /\ \A k \in Node : node'[k] = IF k = n THEN c ELSE node[k]
  BY <1>1, <1>2 DEF IInv, TypeOK
<1>5. \A k \in Node : node'[k].out = <<>> BY <1>1, <1>4, Zenon DEF IInv, TypeOK
<1>6. wire' \in [Node -> Seq(Msgs)]
  <2>1. m.out \in Seq(Msgs) BY DEF NodeRecords
  <2>2. \A k \in Node : wire[k] \in Seq(Msgs) /\ wire[k] \o m.out \in Seq(Msgs)
    BY <2>1 DEF IInv, TypeOK
  <2> QED BY <2>2 DEF Becomes
<1>7. TypeOK' BY <1>4, <1>5, <1>6 DEF IInv, TypeOK
<1>8. NodesGood'
  <2> SUFFICES ASSUME NEW k \in Node PROVE Good(node[k])'
    BY DEF NodesGood
  <2>1. CASE k = n
    <3>1. node'[k] = c BY <1>4, <2>1
    <3> QED BY <1>3, <3>1 DEF Good, Follows, Disabled
  <2>2. CASE k # n
    <3>1. node'[k] = node[k] BY <1>4, <2>2
    <3>2. Good(node[k]) BY DEF IInv, NodesGood
    <3> QED BY <3>1, <3>2 DEF Good, Follows, Disabled
  <2> QED BY <2>1, <2>2
<1> QED BY <1>7, <1>8 DEF IInv

\* An iteration of the scheduler loop.
LEMMA StepGood ==
  ASSUME IInv, NEW n \in Node, Step(n)
  PROVE  IInv'
<1>0. /\ node[n] \in NodeRecords /\ Good(node[n]) /\ peerlink \in BOOLEAN
      /\ wire[n] \in Seq(Msgs) /\ open \subseteq Node /\ detached \subseteq Node
  BY DEF IInv, TypeOK, NodesGood
<1>1. Sent(n) \subseteq BOOLEAN BY Zenon DEF Sent
<1>2. CASE read(n)
  <2>1. Head(wire[n]) \in Msgs /\ Tail(wire[n]) \in Seq(Msgs)
    BY <1>0, <1>2 DEF read
  <2>2. PICK sent \in Sent(n) :
          Becomes(n, Transit(n, node[n], Head(wire[n]), sent), Tail(wire[n]))
    BY <1>2 DEF read
  <2> DEFINE r == Transit(n, node[n], Head(wire[n]), sent)
  <2>3. r \in NodeRecords /\ Good(r) BY <1>0, <1>1, <2>1, TransitGood
  <2>4. UNCHANGED <<open, peerlink, detached>> BY <1>2 DEF read
  <2> HIDE DEF r
  <2> QED BY <1>0, <2>1, <2>2, <2>3, <2>4, BecomesGood, Zenon DEF r
<1>3. CASE idle(n)
  <2> DEFINE s == Start(node[n])
  <2>1. s \in NodeRecords /\ (node[n].stage = "INIT" => s.stage = "STAGE1")
                         /\ (node[n].stage # "INIT" => s = node[n])
    <3> DEFINE k == [node[n] EXCEPT !.stage = "STAGE1", !.wait = FALSE]
    <3>1. k \in NodeRecords /\ k.stage = "STAGE1"
      BY <1>0, Zenon DEF NodeRecords, Stages
    <3>2. s = IF node[n].stage = "INIT" THEN k ELSE node[n] BY DEF Start
    <3> HIDE DEF k, s
    <3> QED BY <1>0, <3>1, <3>2
  <2> HIDE DEF s
  <2>2. Good(s) BY <1>0, <2>1 DEF Good, Follows, Disabled
  <2>3. PICK sent \in Sent(n) : Becomes(n, Transit(n, s, "NULL", sent), wire[n])
    BY <1>3 DEF idle, s
  <2> DEFINE r == Transit(n, s, "NULL", sent)
  <2>4. r \in NodeRecords /\ Good(r) BY <1>0, <1>1, <2>1, <2>2, TransitGood,
                                        Zenon
  <2>5. UNCHANGED <<open, peerlink, detached>> BY <1>3 DEF idle
  <2> HIDE DEF r
  <2> QED BY <1>0, <2>3, <2>4, <2>5, BecomesGood DEF r
<1> QED BY <1>2, <1>3 DEF Step

\* What the links, the operator and the session do.
LEMMA DisturbGood ==
  ASSUME IInv, NEW n \in Node, Disturb(n)
  PROVE  IInv'
<1>0. /\ node[n] \in NodeRecords /\ Good(node[n]) /\ peerlink \in BOOLEAN
      /\ wire[n] \in Seq(Msgs) /\ open \subseteq Node /\ detached \subseteq Node
  BY DEF IInv, TypeOK, NodesGood
<1>1. CASE link_change(n)
  <2> DEFINE b == ~node[n].link
             f == [node[n] EXCEPT !.link = b]
             r == IF node[n].bound THEN state_handler(node[n], b) ELSE f
  <2>1. b \in BOOLEAN OBVIOUS
  <2>2. Becomes(n, r, wire[n]) /\ UNCHANGED <<open, peerlink, detached>>
    BY <1>1 DEF link_change
  <2> HIDE DEF b
  <2>3. f \in NodeRecords /\ f.bound = node[n].bound
    BY <1>0, <2>1 DEF NodeRecords
  <2> HIDE DEF f
  <2>4. ~node[n].bound => Good(f) BY <2>3 DEF Good, Follows, Disabled
  <2>5. r \in NodeRecords /\ Good(r)
    BY <1>0, <2>1, <2>3, <2>4, StateHandlerGood
  <2> HIDE DEF r
  <2> QED BY <1>0, <2>2, <2>5, BecomesGood
<1>2. CASE attach(n)
  <2> DEFINE m == [node[n] EXCEPT !.bound = TRUE, !.cfg = TRUE, !.purge = FALSE]
             r == isolate_from_lif(m, m.link)
  <2>1. Becomes(n, r, wire[n]) /\ UNCHANGED <<open, peerlink, detached>>
    BY <1>2 DEF attach
  <2>2. m \in NodeRecords /\ m.cfg BY <1>0, Zenon DEF NodeRecords
  <2> HIDE DEF m
  <2>3. m.link \in BOOLEAN /\ m.pif \in {"none", "up", "down"}
    BY <2>2 DEF NodeRecords
  <2>4. /\ r \in NodeRecords /\ r.stage = m.stage /\ r.link = m.link
        /\ r.cfg = m.cfg /\ r.pif = m.pif
        /\ (peerlink /\ m.stage = "EXCHANGE" /\ m.link) =>
              (r.iso <=> m.pif # "down")
    BY <2>2, <2>3, LifType, ZenonT(30)
  <2> HIDE DEF r
  <2>5. Good(r) BY <2>2, <2>3, <2>4 DEF Good, Follows, Disabled
  <2> QED BY <1>0, <2>1, <2>4, <2>5, BecomesGood
<1>3. CASE detach(n)
  <2> DEFINE i == [node[n] EXCEPT !.iso = FALSE]
             d == IF node[n].stage = "EXCHANGE" THEN i ELSE node[n]
             m == IF peerlink THEN d ELSE enable_traffic(d)
             b == m.stage = "EXCHANGE"
             r == [m EXCEPT !.bound = FALSE, !.purge = b]
  <2>1. Becomes(n, r, wire[n]) /\ UNCHANGED <<open, peerlink>>
    BY <1>3 DEF detach, intf_detach_handler
  <2>2. detached' \subseteq Node BY <1>0, <1>3 DEF detach
  <2>3. d \in NodeRecords BY <1>0, IsoType, Zenon
  <2> HIDE DEF d
  <2>4. m \in NodeRecords BY <2>3, EnableType
  <2>5. b \in BOOLEAN OBVIOUS
  <2> HIDE DEF m, b
  <2>6. r \in NodeRecords /\ ~r.bound BY <2>4, <2>5, Zenon DEF NodeRecords
  <2> HIDE DEF r
  <2>7. Good(r) BY <2>6 DEF Good, Follows, Disabled
  <2> QED BY <1>0, <2>1, <2>2, <2>6, <2>7, BecomesGood
<1>4. CASE session_down(n)
  <2> DEFINE i == [node[n] EXCEPT !.iso = FALSE]
             m == IF node[n].bound THEN enable_traffic(i) ELSE node[n]
             r == [m EXCEPT !.stage = "INIT", !.need = FALSE, !.purge = FALSE,
                            !.pif = "none"]
  <2>1. Becomes(n, r, <<>>) /\ open' = open \ {n} /\ UNCHANGED <<peerlink, detached>>
    BY <1>4 DEF session_down, peer_disconn_handler
  <2>2. i \in NodeRecords BY <1>0, IsoType, Zenon
  <2> HIDE DEF i
  <2>3. m \in NodeRecords BY <1>0, <2>2, EnableType
  <2> HIDE DEF m
  <2>4. r \in NodeRecords /\ r.stage = "INIT" BY <2>3, Zenon
                                                 DEF NodeRecords, Stages
  <2> HIDE DEF r
  <2>5. Good(r) BY <2>4 DEF Good, Follows, Disabled
  <2>6. <<>> \in Seq(Msgs) OBVIOUS
  <2> QED BY <1>0, <2>1, <2>4, <2>5, <2>6, BecomesGood, Zenon
<1> QED BY <1>1, <1>2, <1>3, <1>4 DEF Disturb

LEMMA Inductive == Spec => []IInv
<1>1. Init => IInv
  <2> SUFFICES ASSUME Init PROVE IInv OBVIOUS
  <2>1. NodeInit \in NodeRecords /\ NodeInit.out = <<>> /\ NodeInit.stage = "INIT"
    <3>1. <<>> \in Seq(Msgs) OBVIOUS
    <3> QED BY <3>1 DEF NodeInit, NodeRecords, Stages
  <2>2. Good(NodeInit) BY <2>1 DEF Good, Follows, Disabled
  <2>3. \A n \in Node : node[n] = NodeInit BY DEF Init
  <2>4. TypeOK BY <2>1, <2>3, PeerLinksBoolean DEF Init, TypeOK
  <2>5. NodesGood BY <2>2, <2>3 DEF NodesGood
  <2> QED BY <2>4, <2>5 DEF IInv
<1>2. IInv /\ [Next]_vars => IInv'
  <2> SUFFICES ASSUME IInv, [Next]_vars PROVE IInv' OBVIOUS
  <2>1. ASSUME NEW n \in Node, Step(n) PROVE IInv' BY <2>1, StepGood
  <2>2. ASSUME NEW n \in Node, Disturb(n) PROVE IInv' BY <2>2, DisturbGood
  <2>3. ASSUME UNCHANGED <<node, wire, peerlink, detached>>, open' \subseteq Node
        PROVE  IInv'
    BY <2>3 DEF IInv, TypeOK, NodesGood, Good, Follows, Disabled
  <2>4. CASE session_up BY <2>3, <2>4 DEF session_up
  <2>5. CASE UNCHANGED vars BY <2>3, <2>5 DEF vars, IInv, TypeOK
  <2> QED BY <2>1, <2>2, <2>4, <2>5 DEF Next
<1> QED BY <1>1, <1>2, PTL DEF Spec

\* Type correctness, for any bound on the messages under way.
THEOREM TypeCorrect == Spec => []TypeOK
<1>1. IInv => TypeOK BY DEF IInv
<1> QED BY <1>1, Inductive, PTL

\* In EXCHANGE the isolation from the peer link follows the state of the
\* peer's PortChannel, for any number of messages under way.
THEOREM Isolation == Spec => []IsolationFollowsPeer
<1>1. IInv => IsolationFollowsPeer
  BY DEF IInv, NodesGood, Good, Follows, IsolationFollowsPeer
<1> QED BY <1>1, Inductive, PTL

\* In EXCHANGE a PortChannel that is down has its traffic disabled, for any
\* number of messages under way: no ack, late or early, undoes it.
THEOREM TrafficDisabled == Spec => []DownMeansDisabled
<1>1. IInv => DownMeansDisabled
  BY DEF IInv, NodesGood, Good, Disabled, DownMeansDisabled
<1> QED BY <1>1, Inductive, PTL

(***************************************************************************)
(* What the peer knows of the PortChannel, and the ack its traffic waits   *)
(* for.  Both depend on what is under way, so the invariant speaks of the  *)
(* messages: x is what node m has still to read, y what its peer o has.    *)
(***************************************************************************)
Has(q, w) == \E i \in 1..Len(q) : q[i] = w
States == {"UP", "DOWN"}

\* A node that has pif and is about to read q knows the PortChannel then.
Known(q, pif) == pif # "none" \/ Has(q, "CONF")

\* And its state: that is what pif says and nothing changes it, or the last
\* state in q says so and the PortChannel is known by then.
Told(q, pif, up) ==
  \/ /\ pif = Pif(up)
     /\ \A i \in 1..Len(q) : q[i] \notin States
  \/ \E i \in 1..Len(q) :
       /\ q[i] = State(up)
       /\ \A j \in 1..Len(q) : i < j => q[j] \notin States
       /\ pif # "none" \/ \E j \in 1..Len(q) : j < i /\ q[j] = "CONF"

\* An UP that is read after the end of the data, thus in EXCHANGE, where it
\* is acknowledged.
UpLast(q) == \E i \in 1..Len(q) :
               q[i] = "UP" /\ \A j \in 1..Len(q) : i < j => q[j] # "DONE"

\* A node whose PortChannel was never detached.
Kept(m) ==
  /\ ~m.purge
  /\ ~m.bound => m.changed /\ ~m.tdis
  /\ m.cfg => m.changed
  /\ m.tdis => m.stage \in {"EXCHANGE", "ERROR"}

\* What the peer has not been told is pending.
News(m, y, o) ==
  (m.bound /\ o.stage # "ERROR") =>
    /\ ~m.cfg => Known(y, o.pif)
    /\ ~m.changed => Told(y, o.pif, m.link)

\* Disabled traffic of a PortChannel that is up waits for an ack that comes.
Acked(m, x, y, o) ==
  (m.stage = "EXCHANGE" /\ m.bound /\ m.link /\ m.tdis /\ o.stage # "ERROR") =>
    m.changed \/ Has(x, "ACK") \/ UpLast(y)

\* m has sent its data in this session.
Announced(n, m) == IF n = Active THEN m.stage \in {"STAGE2", "EXCHANGE"}
                             ELSE m.stage = "EXCHANGE"

Side(n, m, x, y, o) ==
  /\ Kept(m) /\ ~Has(y, "PURGE")
  /\ Announced(n, m) => News(m, y, o) /\ Acked(m, x, y, o)

\* The messages of a full synchronisation and the request behind them, as
\* the standby reads them.
Data == {<<"CONF", st, "DONE", "REQ">> : st \in States}
        \cup {<<st, "DONE", "REQ">> : st \in States} \cup {<<"DONE", "REQ">>}

\* The stages of the active node a, which has p to read, and of the standby
\* node s, which has q to read, over one connection.
Joint(a, s, p, q) ==
  \/ /\ a.stage \in {"INIT", "STAGE1"} /\ s.stage = "INIT"
     /\ p = <<>> /\ q = <<>> /\ ~s.need
     /\ a.stage = "STAGE1" => ~a.wait
  \/ /\ a.stage \in {"INIT", "STAGE1"} /\ s.stage = "STAGE1" /\ s.wait /\ ~s.need
     /\ p = <<"REQ">> /\ q = <<>>
     /\ a.stage = "STAGE1" => ~a.wait
  \/ /\ a.stage = "STAGE2" /\ a.wait /\ s.stage = "STAGE1" /\ s.wait /\ ~s.need
     /\ p = <<>> /\ q \in Data
  \/ /\ a.stage = "STAGE2" /\ a.wait /\ s.stage = "STAGE2" /\ ~s.wait /\ ~s.need
     /\ p = <<>> /\ q = <<"REQ">>
  \/ /\ a.stage = "STAGE2" /\ a.wait /\ s.stage = "EXCHANGE" /\ ~s.need
     /\ Has(p, "DONE") /\ ~Has(p, "REQ") /\ q = <<>>
  \/ a.stage \in {"EXCHANGE", "ERROR"} /\ s.stage \in {"EXCHANGE", "ERROR"}

\* A node without a connection.
Away(m, x) == m.stage = "INIT" /\ ~m.need /\ m.pif = "none" /\ x = <<>>

NewsInv ==
  /\ \A n \in Node \ open : Away(node[n], wire[n])
  /\ \A n \in Node \ detached : Kept(node[n])
  /\ open = Node =>
       /\ Joint(node[Active], node[Standby], wire[Active], wire[Standby])
       /\ \A n \in Node \ detached :
            Side(n, node[n], wire[n], wire[Peer(n)], node[Peer(n)])

(***************************************************************************)
(* How these predicates survive sending and reading.                       *)
(***************************************************************************)
\* The messages after one more is sent.
LEMMA CatOne ==
  ASSUME NEW q \in Seq(Msgs), NEW w \in Msgs
  PROVE  LET r == q \o <<w>> IN
         /\ r \in Seq(Msgs) /\ Len(q) \in Nat /\ Len(r) = Len(q) + 1
         /\ \A i \in 1..Len(q) : i \in 1..Len(r) /\ r[i] = q[i]
         /\ Len(r) \in 1..Len(r) /\ r[Len(r)] = w
         /\ \A i \in 1..Len(r) : i \in 1..Len(q) \/ i = Len(r)
<1>1. <<w>> \in Seq(Msgs) /\ Len(<<w>>) = 1 /\ <<w>>[1] = w OBVIOUS
<1> QED BY <1>1

LEMMA SendHas ==
  ASSUME NEW q \in Seq(Msgs), NEW w \in Msgs, NEW v
  PROVE  Has(q \o <<w>>, v) <=> Has(q, v) \/ v = w
<1> DEFINE r == q \o <<w>>
<1>1. /\ \A i \in 1..Len(q) : i \in 1..Len(r) /\ r[i] = q[i]
      /\ Len(r) \in 1..Len(r) /\ r[Len(r)] = w
      /\ \A i \in 1..Len(r) : i \in 1..Len(q) \/ i = Len(r)
  BY CatOne
<1> HIDE DEF r
<1>2. Has(r, v) <=> Has(q, v) \/ v = w BY <1>1 DEF Has
<1> QED BY <1>2 DEF r

LEMMA SendKnown ==
  ASSUME NEW q \in Seq(Msgs), NEW w \in Msgs, NEW pif
  PROVE  /\ Known(q, pif) => Known(q \o <<w>>, pif)
         /\ w = "CONF" => Known(q \o <<w>>, pif)
  BY SendHas DEF Known

\* A message other than a state leaves the last state what it is; a state
\* that is sent becomes the last.
LEMMA SendTold ==
  ASSUME NEW q \in Seq(Msgs), NEW w \in Msgs, NEW pif, NEW up \in BOOLEAN
  PROVE  /\ w \notin States /\ Told(q, pif, up) => Told(q \o <<w>>, pif, up)
         /\ w = State(up) /\ Known(q, pif) => Told(q \o <<w>>, pif, up)
<1> DEFINE r == q \o <<w>>
<1>1. /\ Len(q) \in Nat /\ Len(r) = Len(q) + 1
      /\ \A i \in 1..Len(q) : i \in 1..Len(r) /\ r[i] = q[i]
      /\ Len(r) \in 1..Len(r) /\ r[Len(r)] = w
      /\ \A i \in 1..Len(r) : i \in 1..Len(q) \/ i = Len(r)
  BY CatOne
<1>2. State(up) \in States BY DEF State, States
<1> HIDE DEF r
<1>3. ASSUME w \notin States, Told(q, pif, up) PROVE Told(r, pif, up)
  <2>1. CASE pif = Pif(up) /\ \A i \in 1..Len(q) : q[i] \notin States
    BY <1>1, <1>3, <2>1 DEF Told
  <2>2. ASSUME NEW i \in 1..Len(q), q[i] = State(up),
               \A j \in 1..Len(q) : i < j => q[j] \notin States,
               pif # "none" \/ \E j \in 1..Len(q) : j < i /\ q[j] = "CONF"
        PROVE  Told(r, pif, up)
    <3>1. i \in 1..Len(r) /\ r[i] = State(up) BY <1>1, <2>2
    <3>2. \A j \in 1..Len(r) : i < j => r[j] \notin States BY <1>1, <1>3, <2>2
    <3>3. pif # "none" \/ \E j \in 1..Len(r) : j < i /\ r[j] = "CONF"
      BY <1>1, <2>2
    <3> QED BY <3>1, <3>2, <3>3 DEF Told
  <2> QED BY <1>3, <2>1, <2>2, Zenon DEF Told
<1>4. ASSUME w = State(up), Known(q, pif) PROVE Told(r, pif, up)
  <2>1. r[Len(r)] = State(up) /\ Len(r) \in 1..Len(r) BY <1>1, <1>4
  <2>2. \A j \in 1..Len(r) : Len(r) < j => r[j] \notin States BY <1>1
  <2>3. pif # "none" \/ \E j \in 1..Len(r) : j < Len(r) /\ r[j] = "CONF"
    BY <1>1, <1>4 DEF Known, Has
  <2> QED BY <2>1, <2>2, <2>3 DEF Told
<1> QED BY <1>3, <1>4 DEF r

LEMMA SendUpLast ==
  ASSUME NEW q \in Seq(Msgs), NEW w \in Msgs
  PROVE  /\ w # "DONE" /\ UpLast(q) => UpLast(q \o <<w>>)
         /\ w = "UP" => UpLast(q \o <<w>>)
<1> DEFINE r == q \o <<w>>
<1>1. /\ Len(q) \in Nat /\ Len(r) = Len(q) + 1
      /\ \A i \in 1..Len(q) : i \in 1..Len(r) /\ r[i] = q[i]
      /\ Len(r) \in 1..Len(r) /\ r[Len(r)] = w
      /\ \A i \in 1..Len(r) : i \in 1..Len(q) \/ i = Len(r)
  BY CatOne
<1> HIDE DEF r
<1>2. ASSUME w # "DONE", UpLast(q) PROVE UpLast(r)
  <2>1. PICK i \in 1..Len(q) :
          q[i] = "UP" /\ \A j \in 1..Len(q) : i < j => q[j] # "DONE"
    BY <1>2 DEF UpLast
  <2>2. i \in 1..Len(r) /\ r[i] = "UP" BY <1>1, <2>1
  <2>3. \A j \in 1..Len(r) : i < j => r[j] # "DONE" BY <1>1, <1>2, <2>1
  <2> QED BY <2>2, <2>3 DEF UpLast
<1>3. ASSUME w = "UP" PROVE UpLast(r)
  <2>1. \A j \in 1..Len(r) : Len(r) < j => r[j] # "DONE" BY <1>1
  <2> QED BY <1>1, <1>3, <2>1 DEF UpLast
<1> QED BY <1>2, <1>3 DEF r

\* The messages after the first one is read.
LEMMA TailOne ==
  ASSUME NEW q \in Seq(Msgs), q # <<>>
  PROVE  LET t == Tail(q) IN
         /\ t \in Seq(Msgs) /\ Head(q) = q[1] /\ Head(q) \in Msgs
         /\ Len(q) \in Nat /\ Len(t) \in Nat /\ Len(q) = Len(t) + 1
         /\ 1 \in 1..Len(q)
         /\ \A i \in 1..Len(t) : i + 1 \in 1..Len(q) /\ t[i] = q[i + 1]
         /\ \A i \in 1..Len(q) : i # 1 => i - 1 \in 1..Len(t) /\ q[i] = t[i - 1]
<1> DEFINE t == Tail(q)
<1>1. /\ t \in Seq(Msgs) /\ Len(t) = Len(q) - 1 /\ Head(q) \in Msgs
      /\ \A i \in 1..Len(t) : t[i] = q[i + 1]
  BY HeadTailProperties
<1>2. Len(q) \in Nat \ {0} /\ Head(q) = q[1] BY EmptySeq
<1> HIDE DEF t
<1>3. \A i \in 1..Len(t) : i + 1 \in 1..Len(q) BY <1>1, <1>2
<1>4. ASSUME NEW i \in 1..Len(q), i # 1
      PROVE  i - 1 \in 1..Len(t) /\ q[i] = t[i - 1]
  <2>1. i - 1 \in 1..Len(t) /\ (i - 1) + 1 = i BY <1>1, <1>2, <1>4
  <2>2. t[i - 1] = q[(i - 1) + 1] BY <1>1, <2>1
  <2> QED BY <2>1, <2>2
<1> QED BY <1>1, <1>2, <1>3, <1>4 DEF t

LEMMA ReadHas ==
  ASSUME NEW q \in Seq(Msgs), q # <<>>, NEW w
  PROVE  /\ Has(Tail(q), w) => Has(q, w)
         /\ Has(q, w) /\ Head(q) # w => Has(Tail(q), w)
         /\ ~Has(q, w) => Head(q) # w
<1> DEFINE t == Tail(q)
<1>1. /\ Head(q) = q[1] /\ 1 \in 1..Len(q)
      /\ \A i \in 1..Len(t) : i + 1 \in 1..Len(q) /\ t[i] = q[i + 1]
      /\ \A i \in 1..Len(q) : i # 1 => i - 1 \in 1..Len(t) /\ q[i] = t[i - 1]
  BY TailOne
<1> HIDE DEF t
<1>2. Has(t, w) => Has(q, w) BY <1>1 DEF Has
<1>3. ASSUME Has(q, w), Head(q) # w PROVE Has(t, w)
  <2>1. PICK i \in 1..Len(q) : q[i] = w BY <1>3 DEF Has
  <2>2. i # 1 BY <1>1, <1>3, <2>1
  <2>3. i - 1 \in 1..Len(t) /\ t[i - 1] = w BY <1>1, <2>1, <2>2
  <2> QED BY <2>3 DEF Has
<1>4. ~Has(q, w) => Head(q) # w BY <1>1 DEF Has
<1> QED BY <1>2, <1>3, <1>4 DEF t

LEMMA ReadUpLast ==
  ASSUME NEW q \in Seq(Msgs), q # <<>>, UpLast(q),
         Head(q) # "UP" \/ Has(q, "DONE")
  PROVE  UpLast(Tail(q))
<1> DEFINE t == Tail(q)
<1>1. /\ Head(q) = q[1] /\ 1 \in 1..Len(q)
      /\ Len(t) \in Nat /\ Len(q) = Len(t) + 1
      /\ \A i \in 1..Len(t) : i + 1 \in 1..Len(q) /\ t[i] = q[i + 1]
      /\ \A i \in 1..Len(q) : i # 1 => i - 1 \in 1..Len(t) /\ q[i] = t[i - 1]
  BY TailOne
<1>2. PICK i \in 1..Len(q) :
        q[i] = "UP" /\ \A j \in 1..Len(q) : i < j => q[j] # "DONE"
  BY DEF UpLast
<1> HIDE DEF t
<1>3. i # 1
  <2> SUFFICES ASSUME i = 1 PROVE FALSE OBVIOUS
  <2>1. Has(q, "DONE") /\ q[1] = "UP" BY <1>1, <1>2
  <2>2. PICK j \in 1..Len(q) : q[j] = "DONE" BY <2>1 DEF Has
  <2>3. j # 1 BY <2>1, <2>2
  <2> QED BY <1>1, <1>2, <2>2, <2>3
<1>4. i - 1 \in 1..Len(t) /\ t[i - 1] = "UP" BY <1>1, <1>2, <1>3
<1>5. ASSUME NEW j \in 1..Len(t), i - 1 < j PROVE t[j] # "DONE"
  <2>1. j + 1 \in 1..Len(q) /\ i < j + 1 BY <1>1, <1>5
  <2> QED BY <1>1, <1>2, <2>1
<1>6. UpLast(t) BY <1>4, <1>5 DEF UpLast
<1> QED BY <1>6 DEF t

\* What a node knows of the peer's PortChannel after a message.
PifAfter(pif, msg) ==
  CASE msg = "CONF"  -> IF pif = "none" THEN "up" ELSE pif
    [] msg = "PURGE" -> "none"
    [] msg = "UP"    -> IF pif = "none" THEN pif ELSE "up"
    [] msg = "DOWN"  -> IF pif = "none" THEN pif ELSE "down"
    [] OTHER         -> pif

LEMMA ReadKnown ==
  ASSUME NEW q \in Seq(Msgs), q # <<>>, NEW pif, Known(q, pif), Head(q) # "PURGE"
  PROVE  Known(Tail(q), PifAfter(pif, Head(q)))
<1>1. CASE pif # "none" BY <1>1 DEF Known, PifAfter
<1>2. CASE pif = "none"
  <2>1. Has(q, "CONF") BY <1>2 DEF Known
  <2>2. CASE Head(q) = "CONF" BY <1>2, <2>2 DEF Known, PifAfter
  <2>3. CASE Head(q) # "CONF"
    <3>1. Has(Tail(q), "CONF") BY <2>1, <2>3, ReadHas
    <3> QED BY <3>1 DEF Known
  <2> QED BY <2>2, <2>3
<1> QED BY <1>1, <1>2

LEMMA ReadTold ==
  ASSUME NEW q \in Seq(Msgs), q # <<>>, NEW pif, NEW up \in BOOLEAN,
         Told(q, pif, up), Head(q) # "PURGE"
  PROVE  Told(Tail(q), PifAfter(pif, Head(q)), up)
<1> DEFINE t == Tail(q)
           h == Head(q)
           pif2 == PifAfter(pif, h)
<1>1. /\ h = q[1] /\ 1 \in 1..Len(q)
      /\ Len(t) \in Nat /\ Len(q) = Len(t) + 1
      /\ \A i \in 1..Len(t) : i + 1 \in 1..Len(q) /\ t[i] = q[i + 1]
      /\ \A i \in 1..Len(q) : i # 1 => i - 1 \in 1..Len(t) /\ q[i] = t[i - 1]
  BY TailOne
<1>2. /\ pif # "none" => pif2 # "none"
      /\ h = "CONF" => pif2 # "none"
      /\ pif # "none" /\ h \notin States => pif2 = pif
      /\ pif # "none" /\ h = State(up) => pif2 = Pif(up)
  BY DEF PifAfter, States, State, Pif
<1>3. Pif(up) # "none" /\ State(up) \in States BY DEF Pif, State, States
<1> HIDE DEF t, h, pif2
<1>4. CASE pif = Pif(up) /\ \A i \in 1..Len(q) : q[i] \notin States
  <2>1. pif2 = Pif(up) BY <1>1, <1>2, <1>3, <1>4
  <2>2. \A i \in 1..Len(t) : t[i] \notin States BY <1>1, <1>4
  <2> QED BY <2>1, <2>2 DEF Told, t, h, pif2
<1>5. ASSUME NEW i \in 1..Len(q), q[i] = State(up),
             \A j \in 1..Len(q) : i < j => q[j] \notin States,
             pif # "none" \/ \E j \in 1..Len(q) : j < i /\ q[j] = "CONF"
      PROVE  Told(t, pif2, up)
  <2>1. CASE i = 1
    <3>1. pif # "none" /\ h = State(up) BY <1>1, <1>5, <2>1
    <3>2. ASSUME NEW j \in 1..Len(t) PROVE t[j] \notin States
      <4>1. j + 1 \in 1..Len(q) /\ i < j + 1 BY <1>1, <2>1
      <4> QED BY <1>1, <1>5, <4>1
    <3> QED BY <1>2, <3>1, <3>2 DEF Told
  <2>2. CASE i # 1
    <3>1. i - 1 \in 1..Len(t) /\ t[i - 1] = State(up) BY <1>1, <1>5, <2>2
    <3>2. ASSUME NEW j \in 1..Len(t), i - 1 < j PROVE t[j] \notin States
      <4>1. j + 1 \in 1..Len(q) /\ i < j + 1 BY <1>1, <3>2
      <4> QED BY <1>1, <1>5, <4>1
    <3>3. pif2 # "none" \/ \E j \in 1..Len(t) : j < i - 1 /\ t[j] = "CONF"
      <4> SUFFICES ASSUME pif2 = "none"
                   PROVE  \E j \in 1..Len(t) : j < i - 1 /\ t[j] = "CONF"
        OBVIOUS
      <4>1. PICK j \in 1..Len(q) : j < i /\ q[j] = "CONF" BY <1>2, <1>5
      <4>2. j # 1 BY <1>1, <1>2, <4>1
      <4>3. j - 1 \in 1..Len(t) /\ t[j - 1] = "CONF" /\ j - 1 < i - 1
        BY <1>1, <4>1, <4>2
      <4> QED BY <4>3
    <3> QED BY <3>1, <3>2, <3>3 DEF Told
  <2> QED BY <2>1, <2>2
<1> QED BY <1>4, <1>5 DEF Told, t, h, pif2

(***************************************************************************)
(* What each handler does to the fields the invariant speaks of.           *)
(***************************************************************************)
\* r is m but for its isolation flag, and for the fields named elsewhere.
SamePort(m, r) ==
  /\ r \in NodeRecords
  /\ r.link = m.link /\ r.bound = m.bound /\ r.purge = m.purge
  /\ r.stage = m.stage

Quiet(m, r) ==
  /\ SamePort(m, r) /\ r.cfg = m.cfg /\ r.changed = m.changed
  /\ r.wait = m.wait /\ r.need = m.need /\ r.pif = m.pif /\ r.out = m.out

\* r is m after its traffic may have been disabled.
Disables(m, r) ==
  /\ Quiet(m, r)
  /\ m.tdis => r.tdis
  /\ r.tdis /\ ~m.tdis => m.bound /\ m.stage = "EXCHANGE" /\ ~m.link

\* r is m after it has handled msg, which is not a request.
Reads(m, msg, r) ==
  /\ SamePort(m, r) /\ r.cfg = m.cfg /\ r.changed = m.changed
  /\ r.wait = (m.wait /\ msg # "DONE")
  /\ msg # "PURGE" => r.need = m.need
  /\ r.pif = PifAfter(m.pif, msg)
  /\ r.tdis = (m.tdis /\ ~(msg = "ACK" /\ m.link /\ m.bound))
  /\ r.out = IF msg = "UP" /\ m.stage = "EXCHANGE"
             THEN m.out \o <<"ACK">> ELSE m.out

\* r is m after it has answered a request.
Answers(m, r) ==
  /\ r \in NodeRecords
  /\ r.link = m.link /\ r.bound = m.bound /\ r.purge = m.purge
  /\ r.stage = Succ(m.stage) /\ ~r.wait /\ r.need = m.need /\ r.pif = m.pif
  /\ r.tdis = m.tdis
  /\ m.bound => /\ ~r.cfg /\ ~r.changed
                /\ r.out = (m.out \o <<"CONF", State(m.link)>>) \o <<"DONE">>
  /\ ~m.bound => /\ r.cfg = m.cfg /\ r.changed = m.changed
                 /\ r.out = m.out \o <<"DONE">>

LEMMA SendEffect ==
  ASSUME NEW m \in NodeRecords, NEW msgs \in Seq(Msgs)
  PROVE  LET r == Send(m, msgs) IN
         /\ SamePort(m, r) /\ r.cfg = m.cfg /\ r.changed = m.changed
         /\ r.wait = m.wait /\ r.need = m.need /\ r.pif = m.pif
         /\ r.tdis = m.tdis /\ r.out = m.out \o msgs
<1>1. Send(m, msgs) \in NodeRecords BY SendType
<1> QED BY <1>1 DEF Send, NodeRecords, SamePort

LEMMA IsoEffect ==
  ASSUME NEW m \in NodeRecords, NEW up \in BOOLEAN
  PROVE  /\ Quiet(m, isolate_from_lif(m, up))
         /\ isolate_from_lif(m, up).tdis = m.tdis
         /\ Quiet(m, isolate_from_pif(m, up))
         /\ isolate_from_pif(m, up).tdis = m.tdis
<1>1. ASSUME NEW b \in BOOLEAN
      PROVE  Quiet(m, [m EXCEPT !.iso = b]) /\ [m EXCEPT !.iso = b].tdis = m.tdis
  BY <1>1 DEF Quiet, SamePort, NodeRecords
<1>2. Quiet(m, m) BY DEF Quiet, SamePort
<1>3. (m.pif # "down") \in BOOLEAN OBVIOUS
<1> QED BY <1>1, <1>2, <1>3, Zenon DEF isolate_from_lif, isolate_from_pif

LEMMA DisableEffect ==
  ASSUME NEW m \in NodeRecords
  PROVE  Disables(m, disable_traffic(m))
<1> DEFINE r == [m EXCEPT !.tdis = TRUE]
<1>1. Quiet(m, r) /\ r.tdis BY Zenon DEF Quiet, SamePort, NodeRecords
<1>2. Quiet(m, m) BY DEF Quiet, SamePort
<1>3. disable_traffic(m) =
        IF m.bound /\ m.stage = "EXCHANGE" /\ ~m.link THEN r ELSE m
  BY DEF disable_traffic
<1> HIDE DEF r
<1> QED BY <1>1, <1>2, <1>3 DEF Disables

\* mlacp_portchannel_state_handler: a change of the link is pending news.
LEMMA StateEffect ==
  ASSUME NEW m \in NodeRecords, NEW up \in BOOLEAN
  PROVE  LET r == state_handler(m, up) IN
         /\ r \in NodeRecords /\ r.link = up
         /\ r.changed = (m.changed \/ m.link # up)
         /\ r.bound = m.bound /\ r.purge = m.purge /\ r.stage = m.stage
         /\ r.cfg = m.cfg /\ r.wait = m.wait /\ r.need = m.need
         /\ r.pif = m.pif /\ r.out = m.out
         /\ m.tdis => r.tdis
         /\ r.tdis /\ ~m.tdis => m.bound /\ m.stage = "EXCHANGE" /\ ~up
<1> DEFINE i == isolate_from_lif(m, up)
           b == i.changed \/ m.link # up
           p == [i EXCEPT !.link = up, !.changed = b]
<1>1. Quiet(m, i) /\ i.tdis = m.tdis BY IsoEffect
<1>2. state_handler(m, up) = IF up THEN p ELSE disable_traffic(p)
  BY DEF state_handler
<1>3. b \in BOOLEAN OBVIOUS
<1>4. b = (m.changed \/ m.link # up) BY <1>1 DEF Quiet
<1> HIDE DEF i, b
<1>5. /\ p \in NodeRecords /\ p.link = up /\ p.changed = b
      /\ p.bound = m.bound /\ p.purge = m.purge /\ p.stage = m.stage
      /\ p.cfg = m.cfg /\ p.wait = m.wait /\ p.need = m.need
      /\ p.pif = m.pif /\ p.out = m.out /\ p.tdis = m.tdis
  BY <1>1, <1>3, ZenonT(30) DEF Quiet, SamePort, NodeRecords
<1> HIDE DEF p
<1>6. Disables(p, disable_traffic(p)) BY <1>5, DisableEffect
<1> QED BY <1>2, <1>4, <1>5, <1>6 DEF Disables, Quiet, SamePort

LEMMA ConnEffect ==
  ASSUME NEW m \in NodeRecords
  PROVE  Disables(m, peer_conn_handler(m))
<1>1. m.link \in BOOLEAN /\ m.changed \in BOOLEAN BY DEF NodeRecords
<1>2. CASE m.bound
  <2> DEFINE r == state_handler(m, m.link)
  <2>1. /\ r \in NodeRecords /\ r.link = m.link /\ r.changed = m.changed
        /\ r.bound = m.bound /\ r.purge = m.purge /\ r.stage = m.stage
        /\ r.cfg = m.cfg /\ r.wait = m.wait /\ r.need = m.need
        /\ r.pif = m.pif /\ r.out = m.out
        /\ m.tdis => r.tdis
        /\ r.tdis /\ ~m.tdis => m.bound /\ m.stage = "EXCHANGE" /\ ~m.link
    BY <1>1, StateEffect
  <2>2. peer_conn_handler(m) = r BY <1>2 DEF peer_conn_handler
  <2> HIDE DEF r
  <2> QED BY <2>1, <2>2 DEF Disables, Quiet, SamePort
<1>3. CASE ~m.bound
  BY <1>3 DEF peer_conn_handler, Disables, Quiet, SamePort
<1> QED BY <1>2, <1>3

LEMMA AnswerEffect ==
  ASSUME NEW m \in NodeRecords
  PROVE  Answers(m, SendAll(m))
<1> DEFINE c == [m EXCEPT !.cfg = FALSE, !.changed = FALSE]
           s == IF m.bound THEN Send(c, <<"CONF", State(m.link)>>) ELSE m
           d == Send(s, <<"DONE">>)
<1>1. /\ SamePort(m, c) /\ ~c.cfg /\ ~c.changed
      /\ c.need = m.need /\ c.pif = m.pif /\ c.tdis = m.tdis /\ c.out = m.out
  BY Zenon DEF NodeRecords, SamePort
<1> HIDE DEF c
<1>2. /\ SamePort(m, s) /\ s.need = m.need /\ s.pif = m.pif /\ s.tdis = m.tdis
      /\ m.bound => /\ ~s.cfg /\ ~s.changed
                    /\ s.out = m.out \o <<"CONF", State(m.link)>>
      /\ ~m.bound => s = m
  <2>1. CASE m.bound
    <3> DEFINE w == <<"CONF", State(m.link)>>
    <3>1. s = Send(c, w) BY <2>1
    <3>2. w \in Seq(Msgs) BY Words
    <3> HIDE DEF w, s
    <3>3. /\ SamePort(c, s) /\ s.cfg = c.cfg /\ s.changed = c.changed
          /\ s.need = c.need /\ s.pif = c.pif /\ s.tdis = c.tdis
          /\ s.out = c.out \o w
      BY <1>1, <3>1, <3>2, SendEffect, Zenon DEF SamePort
    <3> QED BY <1>1, <2>1, <3>3, Zenon DEF SamePort, w
  <2>2. CASE ~m.bound BY <2>2 DEF SamePort
  <2> QED BY <2>1, <2>2, Zenon
<1> HIDE DEF s
<1>3. /\ SamePort(s, d) /\ d.need = s.need /\ d.pif = s.pif /\ d.tdis = s.tdis
      /\ d.cfg = s.cfg /\ d.changed = s.changed /\ d.out = s.out \o <<"DONE">>
  BY <1>2, Words, SendEffect, ZenonT(30) DEF SamePort
<1> HIDE DEF d
<1> DEFINE t == Succ(m.stage)
           r == [d EXCEPT !.wait = FALSE, !.stage = t]
<1>4. t \in Stages BY SuccType DEF NodeRecords
<1>5. SendAll(m) = r BY <1>2, <1>3, Zenon DEF SendAll, c, s, d, SamePort
<1> HIDE DEF t
<1>6. /\ r \in NodeRecords /\ r.stage = t /\ ~r.wait
      /\ r.link = d.link /\ r.bound = d.bound /\ r.purge = d.purge
      /\ r.need = d.need /\ r.pif = d.pif /\ r.tdis = d.tdis
      /\ r.cfg = d.cfg /\ r.changed = d.changed /\ r.out = d.out
  BY <1>3, <1>4, Zenon DEF NodeRecords, SamePort
<1> HIDE DEF r
<1>7. Answers(m, r) BY <1>2, <1>3, <1>6, Zenon DEF Answers, SamePort, t
<1> QED BY <1>5, <1>7

LEMMA ReadEffect ==
  ASSUME NEW m \in NodeRecords, NEW msg \in (Msgs \cup {"NULL"}) \ {"REQ"}
  PROVE  Reads(m, msg, Receive(m, msg))
<1> DEFINE r == Receive(m, msg)
<1>0. /\ m.wait \in BOOLEAN /\ m.tdis \in BOOLEAN
      /\ m.pif \in {"none", "up", "down"}
  BY DEF NodeRecords
<1>1. CASE msg = "CONF"
  <2> DEFINE p == [m EXCEPT !.pif = "up"]
             i == isolate_from_pif(p, TRUE)
  <2>1. r = IF m.pif # "none" THEN m ELSE i
    BY <1>1 DEF Receive, update_Agg_conf
  <2>2. /\ p \in NodeRecords /\ p.pif = "up" /\ p.stage = m.stage
        /\ p.wait = m.wait /\ p.need = m.need /\ p.link = m.link
        /\ p.bound = m.bound /\ p.cfg = m.cfg /\ p.changed = m.changed
        /\ p.purge = m.purge /\ p.tdis = m.tdis /\ p.out = m.out
    BY DEF NodeRecords
  <2> HIDE DEF p
  <2>3. Quiet(p, i) /\ i.tdis = p.tdis BY <2>2, IsoEffect, Zenon
  <2> HIDE DEF i, r
  <2> QED BY <1>0, <1>1, <2>1, <2>2, <2>3
      DEF Reads, Quiet, SamePort, PifAfter, r
<1>2. CASE msg = "PURGE"
  <2> DEFINE a == [m EXCEPT !.pif = "none"]
             b == [m EXCEPT !.need = TRUE]
  <2>1. r = IF m.pif # "none" THEN a ELSE b
    BY <1>2 DEF Receive, purge_Agg_conf
  <2>2. /\ SamePort(m, a) /\ a.cfg = m.cfg /\ a.changed = m.changed
        /\ a.wait = m.wait /\ a.pif = "none" /\ a.tdis = m.tdis /\ a.out = m.out
    BY DEF NodeRecords, SamePort
  <2>3. /\ SamePort(m, b) /\ b.cfg = m.cfg /\ b.changed = m.changed
        /\ b.wait = m.wait /\ b.pif = m.pif /\ b.tdis = m.tdis /\ b.out = m.out
    BY Zenon DEF NodeRecords, SamePort
  <2> HIDE DEF a, b, r
  <2> QED BY <1>0, <1>2, <2>1, <2>2, <2>3 DEF Reads, PifAfter, r
<1>3. CASE msg \in {"UP", "DOWN"}
  <2> DEFINE up == msg = "UP"
             i == isolate_from_pif(m, up)
             s == Pif(up)
             p == [i EXCEPT !.pif = s]
             u == update_Aggport_state(m, up)
  <2>1. r = IF up THEN send_if_up_ack(u) ELSE u
    BY <1>3, Zenon DEF Receive, recv_aggState
  <2>2. Quiet(m, i) /\ i.tdis = m.tdis BY IsoEffect, Zenon
  <2>3. s \in {"up", "down"} /\ (up => s = "up") /\ (~up => s = "down")
    BY DEF Pif
  <2>4. u = IF m.pif \in {"none", s} THEN m ELSE p BY DEF update_Aggport_state
  <2>5. up <=> msg = "UP" OBVIOUS
  <2> HIDE DEF i, s, u, r, up
  <2>6. /\ SamePort(m, p) /\ p.cfg = m.cfg /\ p.changed = m.changed
        /\ p.wait = m.wait /\ p.need = m.need /\ p.pif = s /\ p.tdis = m.tdis
        /\ p.out = m.out
    BY <2>2, <2>3 DEF Quiet, SamePort, NodeRecords
  <2> HIDE DEF p
  <2>7. u.pif = IF m.pif = "none" THEN m.pif ELSE s
    BY <1>0, <2>4, <2>6
  <2>8. /\ SamePort(m, u) /\ u.cfg = m.cfg /\ u.changed = m.changed
        /\ u.wait = m.wait /\ u.need = m.need /\ u.tdis = m.tdis
        /\ u.out = m.out
    BY <2>4, <2>6 DEF SamePort
  <2> DEFINE k == Send(u, <<"ACK">>)
  <2>9. /\ SamePort(u, k) /\ k.cfg = u.cfg /\ k.changed = u.changed
        /\ k.wait = u.wait /\ k.need = u.need /\ k.pif = u.pif
        /\ k.tdis = u.tdis /\ k.out = u.out \o <<"ACK">>
    BY <2>8, Words, SendEffect, Zenon DEF SamePort
  <2>10. r = IF up /\ m.stage = "EXCHANGE" THEN k ELSE u
    BY <2>1, <2>8 DEF send_if_up_ack, SamePort
  <2> HIDE DEF k
  <2>11. u.pif = PifAfter(m.pif, msg)
    BY <1>3, <2>3, <2>5, <2>7 DEF PifAfter
  <2>12. r.pif = PifAfter(m.pif, msg) BY <2>9, <2>10, <2>11
  <2> QED BY <1>0, <1>3, <2>5, <2>8, <2>9, <2>10, <2>12, ZenonT(30)
             DEF Reads, SamePort, r
<1>4. CASE msg = "ACK"
  <2> DEFINE a == [m EXCEPT !.tdis = FALSE]
  <2>1. r = IF m.link /\ m.bound THEN a ELSE m
    BY <1>4 DEF Receive, recv_if_up_ack, enable_traffic
  <2>2. Quiet(m, a) /\ a.tdis = FALSE BY Zenon DEF NodeRecords, SamePort, Quiet
  <2> HIDE DEF a, r
  <2> QED BY <1>0, <1>4, <2>1, <2>2, Zenon
             DEF Reads, Quiet, SamePort, PifAfter, r
<1>5. CASE msg = "DONE"
  <2>1. r = [m EXCEPT !.wait = FALSE] BY <1>5 DEF Receive
  <2> HIDE DEF r
  <2>2. /\ SamePort(m, r) /\ r.cfg = m.cfg /\ r.changed = m.changed
        /\ r.wait = FALSE /\ r.need = m.need /\ r.pif = m.pif
        /\ r.tdis = m.tdis /\ r.out = m.out
    BY <2>1, ZenonT(30) DEF NodeRecords, SamePort
  <2> QED BY <1>0, <1>5, <2>2, Zenon DEF Reads, PifAfter, r
<1>6. CASE msg = "NULL"
  BY <1>0, <1>6 DEF Receive, Reads, SamePort, PifAfter
<1> QED BY <1>1, <1>2, <1>3, <1>4, <1>5, <1>6 DEF Msgs

(***************************************************************************)
(* The invariant of one connection, from the side of the node n that takes *)
(* a step: m is n's record, o its peer's, x and y what they have to read;  *)
(* dn and dp: the PortChannels of n and of its peer were never detached.   *)
(***************************************************************************)
Both(n, m, o, x, y) == IF n = Active THEN Joint(m, o, x, y) ELSE Joint(o, m, y, x)

Whole(n, m, o, x, y, dn, dp) ==
  /\ Both(n, m, o, x, y)
  /\ dn => Side(n, m, x, y, o)
  /\ dp => Side(Peer(n), o, y, x, m)

\* A node that keeps its stage and its flags, while its traffic may be
\* disabled because the PortChannel is down.
LEMMA KeepWhole ==
  ASSUME NEW n \in Node, NEW m, NEW r, NEW o, NEW x, NEW y, NEW dn, NEW dp,
         Whole(n, m, o, x, y, dn, dp), Disables(m, r)
  PROVE  Whole(n, r, o, x, y, dn, dp)
<1>1. Both(n, r, o, x, y)
  BY DEF Whole, Both, Joint, Disables, Quiet, SamePort
<1>2. Side(n, m, x, y, o) => Side(n, r, x, y, o)
  BY ZenonT(30) DEF Side, Kept, News, Acked, Announced, Disables, Quiet, SamePort
<1>3. Side(Peer(n), o, y, x, m) => Side(Peer(n), o, y, x, r)
  BY ZenonT(30) DEF Side, News, Acked, Disables, Quiet, SamePort
<1> QED BY <1>1, <1>2, <1>3, SMTT(20) DEF Whole

\* What the peer of a node that writes w sees of it.
LEMMA PeerWrite ==
  ASSUME NEW k, NEW o, NEW y \in Seq(Msgs), NEW x, NEW m, NEW r, NEW w \in Msgs,
         Side(k, o, y, x, m), r.pif = m.pif, r.stage = m.stage
  PROVE  Side(k, o, y \o <<w>>, x, r)
<1>1. Has(y, "ACK") => Has(y \o <<w>>, "ACK") BY SendHas
<1> QED BY <1>1, ZenonT(30) DEF Side, News, Acked

\* Writing a message in EXCHANGE; a request only when one is needed.
LEMMA BothWrite ==
  ASSUME NEW n \in Node, NEW m, NEW r, NEW o, NEW x, NEW y \in Seq(Msgs),
         NEW w \in Msgs, Both(n, m, o, x, y),
         m.stage \in {"EXCHANGE", "ERROR"}, r.stage = m.stage,
         r.need => m.need, w = "REQ" => m.need
  PROVE  Both(n, r, o, x, y \o <<w>>)
<1>1. Has(y, "DONE") => Has(y \o <<w>>, "DONE") BY SendHas
<1>2. ~Has(y, "REQ") /\ w # "REQ" => ~Has(y \o <<w>>, "REQ") BY SendHas,
                                                                SMTT(20)
<1>3. CASE n = Active BY <1>3 DEF Both, Joint
<1>4. CASE n # Active BY <1>1, <1>2, <1>4 DEF Both, Joint
<1> QED BY <1>3, <1>4

\* Writing an ack or a request.
LEMMA SideWrite ==
  ASSUME NEW n, NEW m \in NodeRecords, NEW r, NEW x, NEW y \in Seq(Msgs), NEW o,
         NEW w \in {"ACK", "REQ"}, Side(n, m, x, y, o), SamePort(m, r),
         r.cfg = m.cfg, r.changed = m.changed, r.tdis = m.tdis
  PROVE  Side(n, r, x, y \o <<w>>, o)
<1> DEFINE z == y \o <<w>>
<1>0. w \in Msgs /\ w \notin States /\ w # "DONE" /\ m.link \in BOOLEAN
  BY SMTT(20) DEF Msgs, States, NodeRecords
<1>1. /\ ~Has(y, "PURGE") => ~Has(z, "PURGE")
      /\ Known(y, o.pif) => Known(z, o.pif)
      /\ Told(y, o.pif, m.link) => Told(z, o.pif, m.link)
      /\ UpLast(y) => UpLast(z)
  BY <1>0, SendHas, SendKnown, SendTold, SendUpLast
<1> HIDE DEF z
<1>2. Kept(r) BY DEF Kept, Side, SamePort
<1>3. Side(n, r, x, z, o)
  BY <1>1, <1>2 DEF Side, News, Acked, Announced, SamePort
<1> QED BY <1>3 DEF z

\* Writing the config.
LEMMA SideConfig ==
  ASSUME NEW n, NEW m \in NodeRecords, NEW r, NEW x, NEW y \in Seq(Msgs), NEW o,
         Side(n, m, x, y, o), SamePort(m, r), m.bound, m.cfg, ~r.cfg,
         r.changed = m.changed,
         r.tdis /\ ~m.tdis => m.stage = "EXCHANGE"
  PROVE  Side(n, r, x, y \o <<"CONF">>, o)
<1> DEFINE z == y \o <<"CONF">>
<1>1. ~Has(y, "PURGE") => ~Has(z, "PURGE")
  BY SendHas DEF Msgs
<1>2. Known(z, o.pif) BY SendKnown DEF Msgs
<1> HIDE DEF z
<1>3. Kept(r) /\ r.changed BY DEF Kept, Side, SamePort
<1>4. Side(n, r, x, z, o)
  BY <1>1, <1>2, <1>3 DEF Side, News, Acked, Announced, SamePort
<1> QED BY <1>4 DEF z

\* Writing the state.
LEMMA SideState ==
  ASSUME NEW n, NEW m \in NodeRecords, NEW r, NEW x, NEW y \in Seq(Msgs), NEW o,
         Side(n, m, x, y, o), SamePort(m, r), m.bound, ~m.cfg, ~r.cfg,
         r.tdis = m.tdis
  PROVE  Side(n, r, x, y \o <<State(m.link)>>, o)
<1> DEFINE w == State(m.link)
           z == y \o <<w>>
<1>0. w \in Msgs \ {"DONE", "PURGE"} /\ m.link \in BOOLEAN /\ (m.link => w = "UP")
  BY SMTT(20) DEF Msgs, NodeRecords, State
<1>1. /\ ~Has(y, "PURGE") => ~Has(z, "PURGE")
      /\ Known(y, o.pif) => Known(z, o.pif)
      /\ Known(y, o.pif) => Told(z, o.pif, m.link)
      /\ m.link => UpLast(z)
  BY <1>0, SendHas, SendKnown, SendTold, SendUpLast, SMTT(20)
<1> HIDE DEF z, w
<1>2. Kept(r) BY DEF Kept, Side, SamePort
<1>3. Side(n, r, x, z, o)
  BY <1>1, <1>2 DEF Side, News, Acked, Announced, SamePort
<1> QED BY <1>3 DEF z, w

\* What was written before, and one more message.
LEMMA OutMore ==
  ASSUME NEW m \in NodeRecords, NEW y \in Seq(Msgs), NEW w \in Msgs
  PROVE  /\ m.out \in Seq(Msgs) /\ y \o m.out \in Seq(Msgs)
         /\ y \o (m.out \o <<w>>) = (y \o m.out) \o <<w>>
<1>1. m.out \in Seq(Msgs) /\ <<w>> \in Seq(Msgs) BY DEF NodeRecords
<1> DEFINE a == m.out
           b == <<w>>
<1> HIDE DEF a, b
<1>2. a \in Seq(Msgs) /\ b \in Seq(Msgs) BY <1>1 DEF a, b
<1>3. y \o (a \o b) = (y \o a) \o b BY <1>2, ConcatAssociative, SMTT(20),
                                       SMTT(20)
<1>4. y \o a \in Seq(Msgs) BY <1>2
<1> QED BY <1>1, <1>3, <1>4, Zenon DEF a, b

(***************************************************************************)
(* The sending half of EXCHANGE.                                           *)
(***************************************************************************)
Sending(n, m, o, x, y, dn, dp) ==
  /\ m \in NodeRecords /\ m.stage \in {"EXCHANGE", "ERROR"}
  /\ Whole(n, m, o, x, y \o m.out, dn, dp)

LEMMA SendRequest ==
  ASSUME NEW n \in Node, NEW m, NEW o, NEW x, NEW y \in Seq(Msgs),
         NEW dn \in BOOLEAN, NEW dp \in BOOLEAN, Sending(n, m, o, x, y, dn, dp)
  PROVE  LET r == FlushRequest(m) IN
         /\ Sending(n, r, o, x, y, dn, dp) /\ ~r.need
         /\ r.pif = m.pif /\ r.stage = m.stage /\ r.wait = m.wait
<1> DEFINE k == [m EXCEPT !.need = FALSE]
           r == FlushRequest(m)
<1>1. m \in NodeRecords BY DEF Sending
<1>2. CASE ~m.need BY <1>2 DEF FlushRequest
<1>3. CASE m.need
  <2>1. /\ SamePort(m, k) /\ k.cfg = m.cfg /\ k.changed = m.changed
        /\ k.wait = m.wait /\ k.pif = m.pif /\ k.tdis = m.tdis /\ k.out = m.out
        /\ ~k.need
    BY <1>1, Zenon DEF SamePort, NodeRecords
  <2>2. r = Send(k, <<"REQ">>) BY <1>3 DEF FlushRequest
  <2> HIDE DEF k, r
  <2>3. /\ SamePort(k, r) /\ r.cfg = k.cfg /\ r.changed = k.changed
        /\ r.wait = k.wait /\ r.need = k.need /\ r.pif = k.pif
        /\ r.tdis = k.tdis /\ r.out = k.out \o <<"REQ">>
    BY <2>1, <2>2, Words, SendEffect, ZenonT(30) DEF SamePort
  <2>4. /\ SamePort(m, r) /\ r.cfg = m.cfg /\ r.changed = m.changed
        /\ r.wait = m.wait /\ r.pif = m.pif /\ r.tdis = m.tdis
        /\ r.out = m.out \o <<"REQ">> /\ ~r.need
    BY <2>1, <2>3 DEF SamePort
  <2> DEFINE v == y \o m.out
  <2>5. v \in Seq(Msgs) /\ y \o r.out = v \o <<"REQ">>
    <3>1. "REQ" \in Msgs BY DEF Msgs
    <3>2. /\ v \in Seq(Msgs)
          /\ y \o (m.out \o <<"REQ">>) = v \o <<"REQ">>
      BY <1>1, <3>1, OutMore, ZenonT(30)
    <3> QED BY <2>4, <3>2, Zenon
  <2> HIDE DEF v
  <2>6. /\ Whole(n, m, o, x, v, dn, dp) /\ r.stage = m.stage
        /\ m.stage \in {"EXCHANGE", "ERROR"} /\ "REQ" \in Msgs
    BY <2>4 DEF Sending, v, SamePort, Msgs
  <2>7. Both(n, r, o, x, v \o <<"REQ">>)
    BY <1>3, <2>4, <2>5, <2>6, BothWrite, SMTT(20) DEF Whole
  <2>8. dn => Side(n, r, x, v \o <<"REQ">>, o)
    BY <1>1, <2>4, <2>5, <2>6, SideWrite, SMTT(20) DEF Whole
  <2>9. dp => Side(Peer(n), o, v \o <<"REQ">>, x, r)
    BY <2>4, <2>5, <2>6, PeerWrite DEF Whole
  <2> QED BY <2>4, <2>5, <2>6, <2>7, <2>8, <2>9, Zenon
      DEF Sending, Whole, SamePort, r
<1> QED BY <1>2, <1>3

LEMMA SendPurge ==
  ASSUME NEW n \in Node, NEW m, NEW o, NEW x, NEW y \in Seq(Msgs),
         NEW dn \in BOOLEAN, NEW dp \in BOOLEAN, Sending(n, m, o, x, y, dn, dp)
  PROVE  LET r == FlushPurge(m) IN
         /\ Sending(n, r, o, x, y, dn, dp) /\ r.need = m.need
         /\ r.pif = m.pif /\ r.stage = m.stage /\ r.wait = m.wait
<1> DEFINE k == Send(m, <<"PURGE">>)
           r == [k EXCEPT !.purge = FALSE]
<1>1. m \in NodeRecords BY DEF Sending
<1>2. CASE ~m.purge BY <1>2 DEF FlushPurge
<1>3. CASE m.purge
  <2>1. /\ SamePort(m, k) /\ k.wait = m.wait /\ k.need = m.need
        /\ k.pif = m.pif /\ k.out = m.out \o <<"PURGE">>
    BY <1>1, Words, SendEffect, Zenon
  <2>2. FlushPurge(m) = r BY <1>3 DEF FlushPurge
  <2> HIDE DEF k
  <2>3. /\ r \in NodeRecords /\ r.stage = m.stage /\ r.wait = m.wait
        /\ r.need = m.need /\ r.pif = m.pif /\ r.out = m.out \o <<"PURGE">>
    BY <2>1, Zenon DEF SamePort, NodeRecords
  <2> HIDE DEF r
  <2> DEFINE v == y \o m.out
  <2>4. v \in Seq(Msgs) /\ y \o r.out = v \o <<"PURGE">>
    <3>1. "PURGE" \in Msgs BY DEF Msgs
    <3>2. /\ v \in Seq(Msgs)
          /\ y \o (m.out \o <<"PURGE">>) = v \o <<"PURGE">>
      BY <1>1, <3>1, OutMore, ZenonT(30)
    <3> QED BY <2>3, <3>2, Zenon
  <2> HIDE DEF v
  <2>5. /\ Whole(n, m, o, x, v, dn, dp) /\ "PURGE" \in Msgs
        /\ m.stage \in {"EXCHANGE", "ERROR"}
    BY DEF Sending, v, Msgs
  <2>6. Both(n, r, o, x, v \o <<"PURGE">>)
    BY <2>3, <2>4, <2>5, BothWrite DEF Whole
  <2>7. ~dn BY <1>3, <2>5 DEF Whole, Side, Kept
  <2>8. dp => Side(Peer(n), o, v \o <<"PURGE">>, x, r)
    BY <2>3, <2>4, <2>5, PeerWrite DEF Whole
  <2> QED BY <2>2, <2>3, <2>4, <2>5, <2>6, <2>7, <2>8, Zenon DEF Sending, Whole
<1> QED BY <1>2, <1>3

LEMMA SendConfig ==
  ASSUME NEW n \in Node, NEW m, NEW o, NEW x, NEW y \in Seq(Msgs),
         NEW dn \in BOOLEAN, NEW dp \in BOOLEAN, Sending(n, m, o, x, y, dn, dp)
  PROVE  LET r == FlushConfig(m) IN
         /\ Sending(n, r, o, x, y, dn, dp) /\ r.need = m.need
         /\ r.pif = m.pif /\ r.stage = m.stage /\ r.wait = m.wait
         /\ r.bound => ~r.cfg
<1> DEFINE t == disable_traffic(m)
           k == [t EXCEPT !.cfg = FALSE]
           r == FlushConfig(m)
<1>1. m \in NodeRecords BY DEF Sending
<1>2. CASE ~(m.bound /\ m.cfg) BY <1>2 DEF FlushConfig
<1>3. CASE m.bound /\ m.cfg
  <2>1. Disables(m, t) BY <1>1, DisableEffect
  <2>2. r = Send(k, <<"CONF">>) BY <1>3 DEF FlushConfig
  <2> HIDE DEF t, r
  <2>3. /\ SamePort(t, k) /\ ~k.cfg /\ k.changed = t.changed
        /\ k.wait = t.wait /\ k.need = t.need /\ k.pif = t.pif
        /\ k.tdis = t.tdis /\ k.out = t.out
    BY <2>1, Zenon DEF Disables, Quiet, SamePort, NodeRecords
  <2> HIDE DEF k
  <2>4. /\ SamePort(k, r) /\ r.cfg = k.cfg /\ r.changed = k.changed
        /\ r.wait = k.wait /\ r.need = k.need /\ r.pif = k.pif
        /\ r.tdis = k.tdis /\ r.out = k.out \o <<"CONF">>
    BY <2>2, <2>3, Words, SendEffect, ZenonT(30) DEF SamePort
  <2>5. /\ SamePort(m, r) /\ ~r.cfg /\ r.changed = m.changed
        /\ r.wait = m.wait /\ r.need = m.need /\ r.pif = m.pif
        /\ r.out = m.out \o <<"CONF">>
        /\ r.tdis /\ ~m.tdis => m.stage = "EXCHANGE"
    BY <2>1, <2>3, <2>4 DEF Disables, Quiet, SamePort
  <2> DEFINE v == y \o m.out
  <2>6. v \in Seq(Msgs) /\ y \o r.out = v \o <<"CONF">>
    <3>1. "CONF" \in Msgs BY DEF Msgs
    <3>2. /\ v \in Seq(Msgs)
          /\ y \o (m.out \o <<"CONF">>) = v \o <<"CONF">>
      BY <1>1, <3>1, OutMore, Zenon
    <3> QED BY <2>5, <3>2, Zenon
  <2> HIDE DEF v
  <2>7. /\ Whole(n, m, o, x, v, dn, dp) /\ r.stage = m.stage
        /\ m.stage \in {"EXCHANGE", "ERROR"} /\ "CONF" \in Msgs
    BY <2>5 DEF Sending, v, SamePort, Msgs
  <2>8. Both(n, r, o, x, v \o <<"CONF">>)
    BY <2>5, <2>6, <2>7, BothWrite DEF Whole
  <2>9. dn => Side(n, r, x, v \o <<"CONF">>, o)
    BY <1>1, <1>3, <2>5, <2>6, <2>7, SideConfig DEF Whole
  <2>10. dp => Side(Peer(n), o, v \o <<"CONF">>, x, r)
    BY <2>5, <2>6, <2>7, PeerWrite DEF Whole
  <2> QED BY <2>5, <2>6, <2>7, <2>8, <2>9, <2>10, Zenon
      DEF Sending, Whole, SamePort, r
<1> QED BY <1>2, <1>3

LEMMA SendState ==
  ASSUME NEW n \in Node, NEW m, NEW o, NEW x, NEW y \in Seq(Msgs),
         NEW dn \in BOOLEAN, NEW dp \in BOOLEAN, NEW sent \in BOOLEAN,
         Sending(n, m, o, x, y, dn, dp), m.bound => ~m.cfg
  PROVE  LET r == FlushState(m, sent) IN
         /\ Sending(n, r, o, x, y, dn, dp) /\ r.need = m.need
         /\ r.pif = m.pif /\ r.stage = m.stage /\ r.wait = m.wait
<1> DEFINE k == [m EXCEPT !.changed = ~sent]
           r == FlushState(m, sent)
           w == State(m.link)
<1>1. m \in NodeRecords BY DEF Sending
<1>2. CASE ~(m.bound /\ m.changed) BY <1>2 DEF FlushState
<1>3. CASE m.bound /\ m.changed
  <2>1. /\ SamePort(m, k) /\ k.cfg = m.cfg
        /\ k.wait = m.wait /\ k.need = m.need /\ k.pif = m.pif
        /\ k.tdis = m.tdis /\ k.out = m.out
    BY <1>1, ZenonT(30) DEF SamePort, NodeRecords
  <2>2. r = Send(k, <<w>>) BY <1>3 DEF FlushState
  <2>w. w \in Msgs /\ <<w>> \in Seq(Msgs) /\ w # "REQ" BY Words DEF State, Msgs
  <2> HIDE DEF k, r, w
  <2>3. /\ SamePort(k, r) /\ r.cfg = k.cfg
        /\ r.wait = k.wait /\ r.need = k.need /\ r.pif = k.pif
        /\ r.tdis = k.tdis /\ r.out = k.out \o <<w>>
    BY <2>1, <2>2, <2>w, SendEffect, Zenon DEF SamePort
  <2>4. /\ SamePort(m, r) /\ r.cfg = m.cfg
        /\ r.wait = m.wait /\ r.need = m.need /\ r.pif = m.pif
        /\ r.tdis = m.tdis /\ r.out = m.out \o <<w>>
    BY <2>1, <2>3 DEF SamePort
  <2> DEFINE v == y \o m.out
  <2>5. v \in Seq(Msgs) /\ y \o r.out = v \o <<w>>
    BY <1>1, <2>4, <2>w, OutMore, ZenonT(30)
  <2> HIDE DEF v
  <2>6. /\ Whole(n, m, o, x, v, dn, dp) /\ r.stage = m.stage
        /\ m.stage \in {"EXCHANGE", "ERROR"}
    BY <2>4 DEF Sending, v, SamePort
  <2>7. Both(n, r, o, x, v \o <<w>>)
    BY <2>4, <2>5, <2>6, <2>w, BothWrite DEF Whole
  <2>8. dn => Side(n, r, x, v \o <<w>>, o)
    BY <1>1, <1>3, <2>4, <2>5, <2>6, SideState DEF Whole, w
  <2>9. dp => Side(Peer(n), o, v \o <<w>>, x, r)
    BY <2>4, <2>5, <2>6, <2>w, PeerWrite DEF Whole
  <2> QED BY <2>4, <2>5, <2>6, <2>7, <2>8, <2>9, Zenon
      DEF Sending, Whole, SamePort, r
<1> QED BY <1>2, <1>3

LEMMA SendPending ==
  ASSUME NEW n \in Node, NEW m, NEW o, NEW x, NEW y \in Seq(Msgs),
         NEW dn \in BOOLEAN, NEW dp \in BOOLEAN, NEW sent \in BOOLEAN,
         Sending(n, m, o, x, y, dn, dp)
  PROVE  LET r == Flush(m, sent) IN
         Sending(n, r, o, x, y, dn, dp) /\ r.stage = m.stage /\ ~r.need
<1> DEFINE a == FlushRequest(m)
           b == FlushPurge(a)
           c == FlushConfig(b)
           d == FlushState(c, sent)
<1>1. Sending(n, a, o, x, y, dn, dp) /\ ~a.need /\ a.stage = m.stage
  BY SendRequest
<1> HIDE DEF a
<1>2. Sending(n, b, o, x, y, dn, dp) /\ ~b.need /\ b.stage = m.stage
  BY <1>1, SendPurge
<1> HIDE DEF b
<1>3. /\ Sending(n, c, o, x, y, dn, dp) /\ c.need = b.need
      /\ c.stage = b.stage
      /\ c.bound => ~c.cfg
  BY <1>2, SendConfig
<1> HIDE DEF c
<1>4. Sending(n, d, o, x, y, dn, dp) /\ d.need = c.need /\ d.stage = c.stage
  BY <1>3, SendState
<1>5. Flush(m, sent) = d BY DEF Flush, a, b, c
<1> QED BY <1>2, <1>3, <1>4, <1>5
=============================================================================
