--------------------------- MODULE MlagNewsProofs ---------------------------
(***************************************************************************)
(* What the peer of a node knows of its PortChannel, proved for any number *)
(* of messages under way: once everything is handled the peer knows the    *)
(* state, and traffic that was disabled is enabled again.                  *)
(*                                                                         *)
(* Neither is inductive: a change may be pending, under way, or read by a  *)
(* node that is yet to say DONE.  The invariant (NewsInv, in MlagIfProofs  *)
(* with the lemmas on sending and reading) says for each node that what    *)
(* the peer was not told is pending, or under way in an order that leaves  *)
(* the peer with it (News, Acked), and for each pair of stages what is     *)
(* under way (Joint).  Here: every action keeps it, and what follows.      *)
(***************************************************************************)
EXTENDS MlagIfProofs

(***************************************************************************)
(* Reading a message.                                                      *)
(***************************************************************************)
\* What the peer o of a node m that reads the first message of x sees: an UP
\* is acknowledged, unless the end of the data is still to be read.
LEMMA PeerRead ==
  ASSUME NEW k, NEW o \in NodeRecords, NEW y, NEW z,
         NEW x \in Seq(Msgs), x # <<>>, NEW m, NEW r, Side(k, o, y, x, m),
         r.stage # "ERROR" => r.pif = PifAfter(m.pif, Head(x)),
         r.stage # "ERROR" => m.stage # "ERROR",
         Has(y, "ACK") => Has(z, "ACK"),
         (Head(x) = "UP" /\ r.stage # "ERROR" /\ o.stage = "EXCHANGE") =>
            Has(z, "ACK") \/ Has(x, "DONE")
  PROVE  Side(k, o, z, Tail(x), r)
<1> DEFINE t == Tail(x)
           h == Head(x)
           pif == PifAfter(m.pif, h)
<1>1. Kept(o) /\ ~Has(x, "PURGE") BY DEF Side
<1>2. ~Has(t, "PURGE") /\ h # "PURGE" BY <1>1, ReadHas
<1>3. Known(x, m.pif) => Known(t, pif) BY <1>2, ReadKnown
<1>4. o.link \in BOOLEAN BY DEF NodeRecords
<1>5. Told(x, m.pif, o.link) => Told(t, pif, o.link) BY <1>2, <1>4, ReadTold
<1>6. UpLast(x) /\ (h # "UP" \/ Has(x, "DONE")) => UpLast(t) BY ReadUpLast
<1> HIDE DEF t, h, pif
<1>8. ASSUME Announced(k, o) PROVE News(o, t, r) /\ Acked(o, z, t, r)
  <2>1. CASE r.stage = "ERROR" BY <2>1 DEF News, Acked
  <2>2. CASE r.stage # "ERROR"
    <3>1. News(o, x, m) /\ Acked(o, y, x, m) /\ m.stage # "ERROR"
      BY <1>8, <2>2 DEF Side
    <3>2. r.pif = pif BY <2>2 DEF pif, h
    <3>3. News(o, t, r) BY <1>3, <1>5, <3>1, <3>2 DEF News
    <3>4. Acked(o, z, t, r) BY <1>6, <2>2, <3>1 DEF Acked, h
    <3> QED BY <3>3, <3>4
  <2> QED BY <2>1, <2>2
<1> QED BY <1>1, <1>2, <1>8 DEF Side, t

\* What the reader itself has to tell its peer.
LEMMA SideRead ==
  ASSUME NEW n, NEW m \in NodeRecords, NEW r, NEW o, NEW y,
         NEW x \in Seq(Msgs), x # <<>>,
         Side(n, m, x, y, o), Reads(m, Head(x), r)
  PROVE  Side(n, r, Tail(x), y, o)
<1>1. Has(x, "ACK") /\ Head(x) # "ACK" => Has(Tail(x), "ACK") BY ReadHas
<1>2. Kept(r) BY Zenon DEF Side, Kept, Reads, SamePort
<1>3. Announced(n, r) <=> Announced(n, m) BY DEF Announced, Reads, SamePort
<1>4. News(m, y, o) => News(r, y, o) BY DEF News, Reads, SamePort
<1>5. Acked(m, x, y, o) => Acked(r, Tail(x), y, o)
  BY <1>1, Zenon DEF Acked, Reads, SamePort
<1> QED BY <1>2, <1>3, <1>4, <1>5 DEF Side

\* Appending what is to be read is associative.
LEMMA MsgsAssociative ==
  ASSUME NEW a \in Seq(Msgs), NEW b \in Seq(Msgs), NEW c \in Seq(Msgs)
  PROVE  a \o (b \o c) = (a \o b) \o c
<1>1. (a \o b) \o c = a \o (b \o c) BY ConcatAssociative, SMTT(30)
<1> QED BY <1>1

\* Short sequences, message by message.
LEMMA Tuples ==
  ASSUME NEW a \in Msgs, NEW b \in Msgs, NEW c \in Msgs
  PROVE  <<a>> \o <<b>> = <<a, b>> /\ <<a, b>> \o <<c>> = <<a, b, c>>
<1>2. <<a>> \o <<b>> = <<a, b>>
  <2> DEFINE s == <<a>> \o <<b>>
             t == <<a, b>>
  <2>1. <<a>> \in Seq(Msgs) /\ <<b>> \in Seq(Msgs) OBVIOUS
  <2>2. s \in Seq(Msgs) /\ Len(s) = 2 /\ s[1] = a /\ s[2] = b
    BY <2>1
  <2>3. t \in Seq(Msgs) /\ Len(t) = 2 /\ t[1] = a /\ t[2] = b
    OBVIOUS
  <2> HIDE DEF s, t
  <2>4. \A i \in 1..2 : s[i] = t[i] BY <2>2, <2>3
  <2> QED BY <2>2, <2>3, <2>4, SeqEqual, Zenon DEF s, t
<1>3. <<a, b>> \o <<c>> = <<a, b, c>>
  <2> DEFINE s == <<a, b>> \o <<c>>
             t == <<a, b, c>>
  <2>1. <<a, b>> \in Seq(Msgs) /\ <<c>> \in Seq(Msgs) OBVIOUS
  <2>2. s \in Seq(Msgs) /\ Len(s) = 3 /\ s[1] = a /\ s[2] = b /\ s[3] = c
    BY <2>1
  <2>3. t \in Seq(Msgs) /\ Len(t) = 3 /\ t[1] = a /\ t[2] = b /\ t[3] = c
    OBVIOUS
  <2> HIDE DEF s, t
  <2>4. \A i \in 1..3 : s[i] = t[i] BY <2>2, <2>3
  <2> QED BY <2>2, <2>3, <2>4, SeqEqual, Zenon DEF s, t
<1> QED BY <1>2, <1>3

LEMMA Quad ==
  ASSUME NEW a \in Msgs, NEW b \in Msgs, NEW c \in Msgs, NEW d \in Msgs
  PROVE  <<a, b, c>> \o <<d>> = <<a, b, c, d>>
<1> DEFINE s == <<a, b, c>> \o <<d>>
           t == <<a, b, c, d>>
<1>1. <<a, b, c>> \in Seq(Msgs) /\ <<d>> \in Seq(Msgs) OBVIOUS
<1>2. s \in Seq(Msgs) /\ Len(s) = 4 /\ s[1] = a /\ s[2] = b /\ s[3] = c /\ s[4] = d
  BY <1>1
<1>3. t \in Seq(Msgs) /\ Len(t) = 4 /\ t[1] = a /\ t[2] = b /\ t[3] = c /\ t[4] = d
  OBVIOUS
<1> HIDE DEF s, t
<1>4. \A i \in 1..4 : s[i] = t[i] BY <1>2, <1>3
<1> QED BY <1>2, <1>3, <1>4, SeqEqual, Zenon DEF s, t

\* Answering a request writes three messages.
LEMMA AnswerOut ==
  ASSUME NEW y \in Seq(Msgs), NEW q \in Seq(Msgs), NEW st \in Msgs
  PROVE  y \o ((q \o <<"CONF", st>>) \o <<"DONE">>)
           = (((y \o q) \o <<"CONF">>) \o <<st>>) \o <<"DONE">>
<1> DEFINE a == <<"CONF">>
           b == <<st>>
           c == <<"DONE">>
           d == <<"CONF", st>>
<1>1. a \in Seq(Msgs) /\ b \in Seq(Msgs) /\ c \in Seq(Msgs) /\ d \in Seq(Msgs)
  BY DEF Msgs
<1>2. d = a \o b
  <2>1. "CONF" \in Msgs BY DEF Msgs
  <2> QED BY <2>1, Tuples, Zenon
<1> HIDE DEF a, b, c, d
<1>3. q \o d \in Seq(Msgs) /\ y \o q \in Seq(Msgs) BY <1>1
<1>4. y \o ((q \o d) \o c) = (y \o (q \o d)) \o c
  <2> DEFINE e == q \o d
  <2> HIDE DEF e
  <2>1. e \in Seq(Msgs) /\ c \in Seq(Msgs) BY <1>1, <1>3 DEF e
  <2>2. y \o (e \o c) = (y \o e) \o c BY <2>1, MsgsAssociative
  <2> QED BY <2>2 DEF e
<1>5. y \o (q \o d) = (y \o q) \o d BY <1>1, MsgsAssociative, ZenonT(30)
<1>6. (y \o q) \o d = ((y \o q) \o a) \o b
  <2> DEFINE e == y \o q
  <2> HIDE DEF e
  <2>1. e \in Seq(Msgs) BY <1>3 DEF e
  <2>2. e \o (a \o b) = (e \o a) \o b BY <1>1, <2>1, MsgsAssociative,
                                         ZenonT(30)
  <2> QED BY <1>2, <2>2 DEF e
<1>7. y \o ((q \o d) \o c) = (((y \o q) \o a) \o b) \o c BY <1>4, <1>5, <1>6
<1> QED BY <1>7, Zenon DEF a, b, c, d

\* What it writes: no request and no purge, and the end of the data.
LEMMA AnswerWrites ==
  ASSUME NEW m \in NodeRecords, NEW r, Answers(m, r), NEW y \in Seq(Msgs)
  PROVE  /\ ~Has(y \o m.out, "PURGE") => ~Has(y \o r.out, "PURGE")
         /\ ~Has(y \o m.out, "REQ") => ~Has(y \o r.out, "REQ")
         /\ Has(y \o r.out, "DONE")
         /\ Has(y \o m.out, "ACK") => Has(y \o r.out, "ACK")
         /\ m.bound => \A pif : /\ Known(y \o r.out, pif)
                                /\ Told(y \o r.out, pif, m.link)
<1> DEFINE v == y \o m.out
           st == State(m.link)
           v1 == v \o <<"CONF">>
           v2 == v1 \o <<st>>
           v3 == v2 \o <<"DONE">>
           v4 == v \o <<"DONE">>
<1>0. /\ "CONF" \in Msgs /\ "DONE" \in Msgs /\ st \in Msgs
      /\ st \notin {"REQ", "PURGE", "ACK", "DONE"}
      /\ m.link \in BOOLEAN /\ m.out \in Seq(Msgs)
      /\ "DONE" \notin States
  BY DEF Msgs, State, NodeRecords, States
<1>1. v \in Seq(Msgs) BY <1>0
<1> HIDE DEF v, st
<1>2. v1 \in Seq(Msgs) BY <1>0, <1>1, CatOne
<1>3. \A pif : Known(v1, pif) BY <1>0, <1>1, SendKnown
<1>4. \A w : Has(v1, w) <=> Has(v, w) \/ w = "CONF" BY <1>0, <1>1, SendHas
<1>5. \A w : Has(v4, w) <=> Has(v, w) \/ w = "DONE" BY <1>0, <1>1, SendHas
<1> HIDE DEF v1, v4
<1>6. v2 \in Seq(Msgs) BY <1>0, <1>2, CatOne
<1>7. \A pif : Known(v2, pif) BY <1>0, <1>2, <1>3, SendKnown
<1>8. \A pif : Told(v2, pif, m.link)
  <2> TAKE pif
  <2> QED BY <1>0, <1>2, <1>3, SendTold DEF st
<1>9. \A w : Has(v2, w) <=> Has(v1, w) \/ w = st BY <1>0, <1>2, SendHas
<1> HIDE DEF v2
<1>10. \A pif : Known(v3, pif) BY <1>0, <1>6, <1>7, SendKnown
<1>11. \A pif : Told(v3, pif, m.link)
  <2> TAKE pif
  <2> QED BY <1>0, <1>6, <1>8, SendTold
<1>12. \A w : Has(v3, w) <=> Has(v2, w) \/ w = "DONE" BY <1>0, <1>6, SendHas
<1> HIDE DEF v3
<1>13. CASE m.bound
  <2>1. r.out = (m.out \o <<"CONF", st>>) \o <<"DONE">>
    BY <1>13, Zenon DEF Answers, st
  <2>2. y \o r.out = v3
    <3> DEFINE q == m.out
    <3> HIDE DEF q
    <3>1. y \o ((q \o <<"CONF", st>>) \o <<"DONE">>)
            = (((y \o q) \o <<"CONF">>) \o <<st>>) \o <<"DONE">>
      BY <1>0, AnswerOut, Zenon DEF q
    <3> QED BY <2>1, <3>1, Zenon DEF v, v1, v2, v3, q
  <2>3. \A w : Has(v3, w) <=> Has(v, w) \/ w \in {"CONF", "DONE", st}
    BY <1>4, <1>9, <1>12
  <2> QED BY <1>0, <1>10, <1>11, <2>2, <2>3, Zenon DEF v
<1>14. CASE ~m.bound
  <2>1. r.out = m.out \o <<"DONE">> BY <1>14 DEF Answers
  <2>2. y \o (m.out \o <<"DONE">>) = (y \o m.out) \o <<"DONE">>
    BY <1>0, OutMore, Zenon
  <2>3. y \o r.out = v4 BY <2>1, <2>2, Zenon DEF v, v4
  <2> QED BY <1>0, <1>5, <1>14, <2>3 DEF v
<1> QED BY <1>13, <1>14

\* A node that answers a request keeps what is pending.
LEMMA AnswerKept ==
  ASSUME NEW m \in NodeRecords, NEW r, Answers(m, r), Kept(m),
         m.stage # "INIT"
  PROVE  Kept(r)
<1>1. m.stage \in Stages BY DEF NodeRecords
<1>2. m.stage \in {"EXCHANGE", "ERROR"} => r.stage \in {"EXCHANGE", "ERROR"}
  BY <1>1 DEF Answers, Succ
<1> QED BY <1>2 DEF Kept, Answers

\* In EXCHANGE.
LEMMA ReadExchange ==
  ASSUME NEW n \in Node, NEW m, NEW o \in NodeRecords,
         NEW x \in Seq(Msgs), x # <<>>, NEW y \in Seq(Msgs),
         NEW dn \in BOOLEAN, NEW dp \in BOOLEAN,
         Sending(n, m, o, x, y, dn, dp), m.stage = "EXCHANGE"
  PROVE  Sending(n, Receive(m, Head(x)), o, Tail(x), y, dn, dp)
<1> DEFINE h == Head(x)
           t == Tail(x)
           r == Receive(m, h)
           v == y \o m.out
           z == y \o r.out
<1>0. m \in NodeRecords /\ m.out \in Seq(Msgs) BY DEF Sending, NodeRecords
<1>1. h \in Msgs /\ t \in Seq(Msgs) BY TailOne
<1>2. v \in Seq(Msgs) BY <1>0
<1>3. Whole(n, m, o, x, v, dn, dp) BY DEF Sending
<1>4. o.stage \in {"EXCHANGE", "ERROR"}
  BY <1>3 DEF Whole, Both, Joint
<1>5. CASE h = "REQ"
  <2>1. Answers(m, r) BY <1>0, <1>5, AnswerEffect DEF Receive
  <2>2. r \in NodeRecords /\ r.stage = "ERROR" BY <2>1 DEF Answers, Succ
  <2>3. Both(n, r, o, t, z) BY <1>4, <2>2 DEF Both, Joint
  <2>4. ~Has(v, "PURGE") => ~Has(z, "PURGE") BY <1>0, <2>1, AnswerWrites
  <2>5. Kept(m) => Kept(r) BY <1>0, <2>1, AnswerKept
  <2>6. ~Announced(n, r) BY <2>2 DEF Announced
  <2>7. Has(v, "ACK") => Has(z, "ACK") BY <1>0, <2>1, AnswerWrites
  <2> HIDE DEF r, v, z, t, h
  <2>8. dn => Side(n, r, t, z, o) BY <1>3, <2>4, <2>5, <2>6 DEF Whole, Side
  <2>9. dp => Side(Peer(n), o, z, t, r)
    BY <1>3, <2>2, <2>7, PeerRead DEF Whole, t
  <2> QED BY <2>2, <2>3, <2>8, <2>9 DEF Sending, Whole, r, z, t, h
<1>6. CASE h # "REQ"
  <2>1. Reads(m, h, r) BY <1>0, <1>1, <1>6, ReadEffect
  <2>2. /\ r \in NodeRecords /\ r.stage = "EXCHANGE"
        /\ r.pif = PifAfter(m.pif, h)
    BY <2>1 DEF Reads, SamePort
  <2>3. Both(n, r, o, t, z) BY <1>4, <2>2 DEF Both, Joint
  <2>4. "ACK" \in Msgs BY DEF Msgs
  <2>5. z = IF h = "UP" THEN v \o <<"ACK">> ELSE v
    <3>1. y \o (m.out \o <<"ACK">>) = v \o <<"ACK">> BY <1>0, <2>4, OutMore,
                                                        Zenon
    <3> QED BY <2>1, <3>1, Zenon DEF Reads
  <2>6. /\ Has(v, "ACK") => Has(z, "ACK")
        /\ h = "UP" => Has(z, "ACK")
    BY <1>2, <2>4, <2>5, SendHas, Zenon
  <2> HIDE DEF r, v, z
  <2>7. dn => Side(n, r, t, v, o) BY <1>0, <1>3, <2>1, SideRead DEF Whole
  <2>8. Side(n, r, t, v, o) => Side(n, r, t, v \o <<"ACK">>, o)
    <3>1. SamePort(r, r) BY <2>2 DEF SamePort
    <3> QED BY <1>2, <2>2, <3>1, SideWrite
  <2>9. dn => Side(n, r, t, z, o) BY <2>5, <2>7, <2>8
  <2>10. dp => Side(Peer(n), o, z, t, r)
    BY <1>3, <2>2, <2>6, PeerRead DEF Whole
  <2> QED BY <2>2, <2>3, <2>9, <2>10 DEF Sending, Whole, r, z
<1> QED BY <1>5, <1>6

\* The pass that finds the queue empty, in EXCHANGE or ERROR.
LEMMA LastPass ==
  ASSUME NEW n \in Node, NEW m, NEW o, NEW x, NEW y \in Seq(Msgs),
         NEW dn \in BOOLEAN, NEW dp \in BOOLEAN, NEW sent \in BOOLEAN,
         Sending(n, m, o, x, y, dn, dp)
  PROVE  Sending(n, Pass(n, m, "NULL", sent), o, x, y, dn, dp)
<1>1. CASE m.stage = "EXCHANGE"
  <2>1. Pass(n, m, "NULL", sent) = Flush(m, sent) BY <1>1 DEF Pass, Receive
  <2> QED BY <2>1, SendPending
<1>2. CASE m.stage = "ERROR"
  <2>1. Pass(n, m, "NULL", sent) = m BY <1>2 DEF Pass
  <2> QED BY <2>1
<1> QED BY <1>1, <1>2 DEF Sending

\* Entering EXCHANGE.
LEMMA EnterExchange ==
  ASSUME NEW n \in Node, NEW m, NEW o, NEW x, NEW y \in Seq(Msgs),
         NEW dn \in BOOLEAN, NEW dp \in BOOLEAN, NEW sent \in BOOLEAN,
         Sending(n, m, o, x, y, dn, dp)
  PROVE  Sending(n, Pass(n, peer_conn_handler(m), "NULL", sent), o, x, y, dn, dp)
<1> DEFINE b == peer_conn_handler(m)
<1>1. Disables(m, b) BY ConnEffect DEF Sending
<1> HIDE DEF b
<1>2. Whole(n, b, o, x, y \o m.out, dn, dp) BY <1>1, KeepWhole DEF Sending
<1>3. Sending(n, b, o, x, y, dn, dp)
  BY <1>1, <1>2 DEF Sending, Disables, Quiet, SamePort
<1> QED BY <1>3, LastPass DEF b

\* An iteration in EXCHANGE or ERROR that reads nothing, and one that reads
\* a message.
LEMMA ExchangeIdle ==
  ASSUME NEW n \in Node, NEW m, NEW o, NEW x, NEW y \in Seq(Msgs),
         NEW dn \in BOOLEAN, NEW dp \in BOOLEAN, NEW sent \in BOOLEAN,
         Sending(n, m, o, x, y, dn, dp)
  PROVE  Sending(n, Transit(n, m, "NULL", sent), o, x, y, dn, dp)
<1> DEFINE a == Pass(n, m, "NULL", sent)
<1>1. Sending(n, a, o, x, y, dn, dp) BY LastPass
<1>2. ~(m.stage # "EXCHANGE" /\ a.stage = "EXCHANGE")
  BY DEF Pass, Sending
<1> HIDE DEF a
<1>3. Transit(n, m, "NULL", sent) = Pass(n, a, "NULL", sent)
  BY <1>2 DEF Transit, a
<1> QED BY <1>1, <1>3, LastPass

LEMMA ExchangeRead ==
  ASSUME NEW n \in Node, NEW m, NEW o \in NodeRecords,
         NEW x \in Seq(Msgs), x # <<>>, NEW y \in Seq(Msgs),
         NEW dn \in BOOLEAN, NEW dp \in BOOLEAN, NEW sent \in BOOLEAN,
         Sending(n, m, o, x, y, dn, dp)
  PROVE  Sending(n, Transit(n, m, Head(x), sent), o, Tail(x), y, dn, dp)
<1> DEFINE h == Head(x)
           t == Tail(x)
           a == Pass(n, m, h, sent)
<1>1. Sending(n, a, o, t, y, dn, dp) /\ (m.stage # "EXCHANGE" => a = m)
  <2>1. CASE m.stage = "EXCHANGE"
    <3> DEFINE q == Receive(m, h)
    <3>1. Sending(n, q, o, t, y, dn, dp) BY <2>1, ReadExchange
    <3>2. a = Flush(q, sent) BY <2>1 DEF Pass
    <3> HIDE DEF q, t
    <3>3. Sending(n, a, o, t, y, dn, dp) BY <3>1, <3>2, SendPending
    <3> QED BY <2>1, <3>3
  <2>2. CASE m.stage = "ERROR"
    <3>1. a = m BY <2>2 DEF Pass
    <3> DEFINE v == y \o m.out
    <3>2. Whole(n, m, o, x, v, dn, dp) /\ m \in NodeRecords BY DEF Sending
    <3>3. o.stage \in {"EXCHANGE", "ERROR"} BY <2>2, <3>2 DEF Whole, Both, Joint
    <3> HIDE DEF v, t
    <3>4. Both(n, m, o, t, v) BY <2>2, <3>3 DEF Both, Joint
    <3>5. dn => Side(n, m, t, v, o)
      BY <2>2, <3>2 DEF Whole, Side, Announced
    <3>6. dp => Side(Peer(n), o, v, t, m)
      BY <2>2, <3>2, PeerRead DEF Whole, t
    <3>7. Sending(n, m, o, t, y, dn, dp)
      BY <2>2, <3>2, <3>4, <3>5, <3>6 DEF Sending, Whole, v
    <3> QED BY <3>1, <3>7
  <2> QED BY <2>1, <2>2 DEF Sending
<1>2. ~(m.stage # "EXCHANGE" /\ a.stage = "EXCHANGE") BY <1>1
<1> HIDE DEF a
<1>3. Transit(n, m, h, sent) = Pass(n, a, "NULL", sent)
  BY <1>2 DEF Transit, a
<1> HIDE DEF t
<1>4. Sending(n, Pass(n, a, "NULL", sent), o, t, y, dn, dp) BY <1>1, LastPass
<1> QED BY <1>3, <1>4 DEF t, h

(***************************************************************************)
(* An iteration in the stages before EXCHANGE.                             *)
(***************************************************************************)
\* The node that sends the data waits for the request.
LEMMA TransitSender ==
  ASSUME NEW n \in Node, NEW m, NEW sent, m.stage \in {"STAGE1", "STAGE2"},
         m.stage = "STAGE1" <=> n = Active
  PROVE  Transit(n, m, "NULL", sent) = m
<1>1. Stage(n, m, "NULL") = m BY DEF Stage
<1>2. Pass(n, m, "NULL", sent) = m BY <1>1 DEF Pass
<1> QED BY <1>2 DEF Transit

\* It answers it, and the active node then requests in turn.
LEMMA TransitAnswer ==
  ASSUME NEW n \in Node, NEW m \in NodeRecords, NEW sent, ~m.wait,
         m.stage = IF n = Active THEN "STAGE1" ELSE "STAGE2"
  PROVE  Transit(n, m, "REQ", sent) =
           IF n = Active THEN Send([SendAll(m) EXCEPT !.wait = TRUE], <<"REQ">>)
           ELSE Pass(n, peer_conn_handler(SendAll(m)), "NULL", sent)
<1> DEFINE a == SendAll(m)
<1>1. Answers(m, a) BY AnswerEffect
<1>2. Stage(n, m, "REQ") = a BY DEF Stage
<1>3. Pass(n, m, "REQ", sent) = a BY <1>2 DEF Pass
<1>4. a.stage = IF n = Active THEN "STAGE2" ELSE "EXCHANGE"
  BY <1>1 DEF Answers, Succ
<1>5. ~a.wait BY <1>1 DEF Answers
<1> HIDE DEF a
<1>6. CASE n = Active
  <2>1. Transit(n, m, "REQ", sent) = Pass(n, a, "NULL", sent)
    BY <1>3, <1>4, <1>6 DEF Transit
  <2>2. Pass(n, a, "NULL", sent) = Stage(n, a, "NULL") BY <1>4, <1>6 DEF Pass
  <2>3. Stage(n, a, "NULL") = Send([a EXCEPT !.wait = TRUE], <<"REQ">>)
    BY <1>4, <1>5, <1>6 DEF Stage
  <2> QED BY <1>6, <2>1, <2>2, <2>3 DEF a
<1>7. CASE n # Active
  <2>1. Transit(n, m, "REQ", sent) = Pass(n, peer_conn_handler(a), "NULL", sent)
    BY <1>3, <1>4, <1>7 DEF Transit
  <2> QED BY <1>7, <2>1 DEF a
<1> QED BY <1>6, <1>7

\* The node that is to receive the data requests it.
LEMMA TransitRequest ==
  ASSUME NEW n \in Node, NEW m \in NodeRecords, NEW sent, ~m.wait,
         n # Active, m.stage = "STAGE1"
  PROVE  Transit(n, m, "NULL", sent) = Send([m EXCEPT !.wait = TRUE], <<"REQ">>)
<1> DEFINE k == [m EXCEPT !.wait = TRUE]
           a == Send(k, <<"REQ">>)
<1>1. k \in NodeRecords /\ k.stage = "STAGE1" /\ k.wait BY Zenon
                                                           DEF NodeRecords
<1>2. Stage(n, m, "NULL") = a BY DEF Stage
<1> HIDE DEF k
<1>3. a \in NodeRecords /\ a.stage = "STAGE1" /\ a.wait
  BY <1>1, Words, SendEffect, ZenonT(30) DEF SamePort
<1>4. Pass(n, m, "NULL", sent) = a BY <1>2 DEF Pass
<1> HIDE DEF a
<1>5. Stage(n, a, "NULL") = a BY <1>3 DEF Stage, Receive
<1>6. Pass(n, a, "NULL", sent) = a BY <1>3, <1>5 DEF Pass
<1>7. Transit(n, m, "NULL", sent) = a BY <1>3, <1>4, <1>6 DEF Transit
<1> QED BY <1>7 DEF a, k

\* Then it waits, and handles what comes.
LEMMA TransitWaiting ==
  ASSUME NEW n \in Node, NEW m \in NodeRecords, NEW sent, m.wait,
         m.stage = (IF n = Active THEN "STAGE2" ELSE "STAGE1"),
         NEW msg \in (Msgs \cup {"NULL"}) \ {"REQ", "DONE"}
  PROVE  Transit(n, m, msg, sent) = Receive(m, msg)
<1> DEFINE a == Receive(m, msg)
<1>1. Reads(m, msg, a) BY ReadEffect
<1>2. a.stage = m.stage /\ a.wait = m.wait
  <2>1. m.wait = TRUE BY DEF NodeRecords
  <2> QED BY <1>1, <2>1, Zenon DEF Reads, SamePort
<1>3. Stage(n, m, msg) = a BY <1>2 DEF Stage
<1>4. Pass(n, m, msg, sent) = a BY <1>3 DEF Pass
<1> HIDE DEF a
<1>5. Stage(n, a, "NULL") = a BY <1>2, ZenonT(30) DEF Stage, Receive
<1>6. Pass(n, a, "NULL", sent) = a BY <1>2, <1>5 DEF Pass
<1>7. Transit(n, m, msg, sent) = a BY <1>2, <1>4, <1>6 DEF Transit
<1> QED BY <1>7 DEF a

\* The end of the data.
Finishes(m) == [m EXCEPT !.wait = FALSE, !.stage = Succ(m.stage)]

LEMMA TransitDone ==
  ASSUME NEW n \in Node, NEW m \in NodeRecords, NEW sent, m.wait,
         m.stage = IF n = Active THEN "STAGE2" ELSE "STAGE1"
  PROVE  LET a == Finishes(m) IN
         /\ a \in NodeRecords /\ ~a.wait
         /\ a.stage = IF n = Active THEN "EXCHANGE" ELSE "STAGE2"
         /\ a.link = m.link /\ a.bound = m.bound /\ a.purge = m.purge
         /\ a.cfg = m.cfg /\ a.changed = m.changed /\ a.need = m.need
         /\ a.pif = m.pif /\ a.tdis = m.tdis /\ a.out = m.out
         /\ Transit(n, m, "DONE", sent) =
              IF n = Active THEN Pass(n, peer_conn_handler(a), "NULL", sent) ELSE a
<1> DEFINE s == Succ(m.stage)
           q == [m EXCEPT !.wait = FALSE]
           a == [m EXCEPT !.wait = FALSE, !.stage = s]
<1>1. s \in Stages /\ s = (IF n = Active THEN "EXCHANGE" ELSE "STAGE2")
  BY DEF Succ, Stages
<1>2. q.stage = m.stage /\ q.wait = FALSE BY DEF NodeRecords
<1>3. Receive(m, "DONE") = q BY DEF Receive
<1>4. Stage(n, m, "DONE") = [q EXCEPT !.stage = Succ(q.stage)]
  <2> HIDE DEF q
  <2> QED BY <1>2, <1>3 DEF Stage
<1>5. [q EXCEPT !.stage = Succ(q.stage)] = a
  <2>1. Succ(q.stage) = s BY <1>2
  <2> HIDE DEF s
  <2>2. [q EXCEPT !.stage = s] = a BY DEF NodeRecords
  <2> QED BY <2>1, <2>2, Zenon
<1> HIDE DEF s
<1>6. /\ a \in NodeRecords /\ ~a.wait /\ a.stage = s
      /\ a.link = m.link /\ a.bound = m.bound /\ a.purge = m.purge
      /\ a.cfg = m.cfg /\ a.changed = m.changed /\ a.need = m.need
      /\ a.pif = m.pif /\ a.tdis = m.tdis /\ a.out = m.out
  BY <1>1, ZenonT(30) DEF NodeRecords
<1> HIDE DEF a, q
<1>7. Pass(n, m, "DONE", sent) = a BY <1>4, <1>5 DEF Pass
<1>8. CASE n = Active
  <2>1. Transit(n, m, "DONE", sent) = Pass(n, peer_conn_handler(a), "NULL", sent)
    BY <1>1, <1>6, <1>7, <1>8 DEF Transit
  <2> QED BY <1>1, <1>6, <1>8, <2>1 DEF a, s, Finishes
<1>9. CASE n # Active
  <2>1. Transit(n, m, "DONE", sent) = Pass(n, a, "NULL", sent)
    BY <1>1, <1>6, <1>7, <1>9 DEF Transit
  <2>2. Stage(n, a, "NULL") = a BY <1>1, <1>6, <1>9 DEF Stage
  <2>3. Pass(n, a, "NULL", sent) = a BY <1>1, <1>6, <1>9, <2>2, Zenon DEF Pass
  <2> QED BY <1>1, <1>6, <1>9, <2>1, <2>3 DEF a, s, Finishes
<1> QED BY <1>8, <1>9

\* The data as the standby node reads it.
LEMMA DataRead ==
  ASSUME NEW x \in Data
  PROVE  /\ x # <<>> /\ Head(x) \in {"CONF", "UP", "DOWN", "DONE"}
         /\ Head(x) # "DONE" => Tail(x) \in Data
         /\ Head(x) = "DONE" => Tail(x) = <<"REQ">>
<1>1. ASSUME NEW a, NEW b, NEW c, NEW d
      PROVE  LET s == <<a, b, c, d>> IN
             s # <<>> /\ Head(s) = a /\ Tail(s) = <<b, c, d>>
  OBVIOUS
<1>2. ASSUME NEW b, NEW c, NEW d
      PROVE  LET s == <<b, c, d>> IN
             s # <<>> /\ Head(s) = b /\ Tail(s) = <<c, d>>
  OBVIOUS
<1>3. ASSUME NEW c, NEW d
      PROVE  LET s == <<c, d>> IN
             s # <<>> /\ Head(s) = c /\ Tail(s) = <<d>>
  OBVIOUS
<1>4. ASSUME NEW st \in States, x = <<"CONF", st, "DONE", "REQ">>
      PROVE  x # <<>> /\ Head(x) = "CONF" /\ Tail(x) \in Data
  <2>1. Tail(x) = <<st, "DONE", "REQ">> /\ x # <<>> /\ Head(x) = "CONF"
    BY <1>1, <1>4
  <2>2. <<st, "DONE", "REQ">> \in Data BY DEF Data
  <2> QED BY <2>1, <2>2, Zenon
<1>5. ASSUME NEW st \in States, x = <<st, "DONE", "REQ">>
      PROVE  x # <<>> /\ Head(x) \in {"UP", "DOWN"} /\ Tail(x) \in Data
  <2>1. Tail(x) = <<"DONE", "REQ">> /\ x # <<>> /\ Head(x) = st
    BY <1>2, <1>5
  <2>2. <<"DONE", "REQ">> \in Data BY DEF Data
  <2> QED BY <2>1, <2>2, Zenon DEF States
<1>6. ASSUME x = <<"DONE", "REQ">>
      PROVE  x # <<>> /\ Head(x) = "DONE" /\ Tail(x) = <<"REQ">>
  BY <1>3, <1>6
<1>7. \/ \E st \in States : x = <<"CONF", st, "DONE", "REQ">>
      \/ \E st \in States : x = <<st, "DONE", "REQ">>
      \/ x = <<"DONE", "REQ">>
  BY DEF Data
<1> QED BY <1>4, <1>5, <1>6, <1>7, Zenon

LEMMA OneWord ==
  /\ <<"REQ">> # <<>> /\ Head(<<"REQ">>) = "REQ" /\ Tail(<<"REQ">>) = <<>>
  /\ <<"REQ">> \in Seq(Msgs)
  /\ \A w : ~Has(<<>>, w) /\ (Has(<<"REQ">>, w) <=> w = "REQ")
<1>1. <<"REQ">> # <<>> /\ Head(<<"REQ">>) = "REQ" /\ Tail(<<"REQ">>) = <<>>
  OBVIOUS
<1>2. Len(<<>>) = 0 /\ Len(<<"REQ">>) = 1 /\ <<"REQ">>[1] = "REQ" OBVIOUS
<1> QED BY <1>1, <1>2, Words DEF Has

\* What the active node has written after it has answered and requested.
LEMMA AnswerData ==
  ASSUME NEW m \in NodeRecords, NEW r, Answers(m, r), m.out = <<>>
  PROVE  r.out \o <<"REQ">> \in Data /\ r.out \in Seq(Msgs)
<1> DEFINE st == State(m.link)
<1>1. st \in States BY DEF State, States
<1>c. st \in Msgs /\ "CONF" \in Msgs /\ "DONE" \in Msgs /\ "REQ" \in Msgs
  BY <1>1 DEF States, Msgs
<1>d. \A a, b \in Msgs : <<>> \o <<a>> = <<a>> /\ <<>> \o <<a, b>> = <<a, b>>
  OBVIOUS
<1>2. CASE m.bound
  <2>1. r.out = (<<>> \o <<"CONF", st>>) \o <<"DONE">> BY <1>2 DEF Answers
  <2> HIDE DEF st
  <2>2. ((<<>> \o <<"CONF", st>>) \o <<"DONE">>) \o <<"REQ">>
          = <<"CONF", st, "DONE", "REQ">>
    <3>1. <<>> \o <<"CONF", st>> = <<"CONF", st>> BY <1>c, <1>d
    <3>2. <<"CONF", st>> \o <<"DONE">> = <<"CONF", st, "DONE">>
      BY <1>c, Tuples, Zenon
    <3>3. <<"CONF", st, "DONE">> \o <<"REQ">> = <<"CONF", st, "DONE", "REQ">>
      BY <1>c, Quad
    <3> QED BY <3>1, <3>2, <3>3, Zenon
  <2>3. <<"CONF", st, "DONE", "REQ">> \in Data BY <1>1 DEF Data
  <2> QED BY <2>1, <2>2, <2>3, ZenonT(30) DEF Answers, NodeRecords
<1>3. CASE ~m.bound
  <2>1. r.out = <<>> \o <<"DONE">> BY <1>3 DEF Answers
  <2>2. (<<>> \o <<"DONE">>) \o <<"REQ">> = <<"DONE", "REQ">>
    <3>1. <<>> \o <<"DONE">> = <<"DONE">> BY <1>c, <1>d
    <3>2. <<"DONE">> \o <<"REQ">> = <<"DONE", "REQ">> BY <1>c, Tuples, Zenon
    <3> QED BY <3>1, <3>2, Zenon
  <2>3. <<"DONE", "REQ">> \in Data BY DEF Data
  <2> QED BY <2>1, <2>2, <2>3, ZenonT(30) DEF Answers, NodeRecords
<1> QED BY <1>2, <1>3

\* The first pass of a session.
LEMMA StartEffect ==
  ASSUME NEW m \in NodeRecords
  PROVE  LET s == Start(m) IN
         /\ s \in NodeRecords
         /\ m.stage # "INIT" => s = m
         /\ m.stage = "INIT" => s.stage = "STAGE1" /\ ~s.wait
         /\ s.link = m.link /\ s.bound = m.bound /\ s.purge = m.purge
         /\ s.cfg = m.cfg /\ s.changed = m.changed /\ s.need = m.need
         /\ s.pif = m.pif /\ s.tdis = m.tdis /\ s.out = m.out
<1> DEFINE k == [m EXCEPT !.stage = "STAGE1", !.wait = FALSE]
<1>1. /\ k \in NodeRecords /\ k.stage = "STAGE1" /\ ~k.wait
      /\ k.link = m.link /\ k.bound = m.bound /\ k.purge = m.purge
      /\ k.cfg = m.cfg /\ k.changed = m.changed /\ k.need = m.need
      /\ k.pif = m.pif /\ k.tdis = m.tdis /\ k.out = m.out
  BY ZenonT(30) DEF NodeRecords, Stages
<1>2. Start(m) = IF m.stage = "INIT" THEN k ELSE m BY DEF Start
<1> HIDE DEF k
<1> QED BY <1>1, <1>2

\* An iteration that reads nothing.
LEMMA IdleWhole ==
  ASSUME NEW n \in Node, NEW m \in NodeRecords, m.out = <<>>,
         NEW o \in NodeRecords, NEW x \in Seq(Msgs), NEW y \in Seq(Msgs),
         NEW dn \in BOOLEAN, NEW dp \in BOOLEAN, NEW sent \in BOOLEAN,
         Whole(n, m, o, x, y, dn, dp)
  PROVE  LET r == Transit(n, Start(m), "NULL", sent) IN
         Whole(n, r, o, x, y \o r.out, dn, dp)
<1> DEFINE s == Start(m)
           r == Transit(n, s, "NULL", sent)
<1>s. /\ s \in NodeRecords
      /\ m.stage # "INIT" => s = m
      /\ m.stage = "INIT" => s.stage = "STAGE1" /\ ~s.wait
      /\ s.link = m.link /\ s.bound = m.bound /\ s.purge = m.purge
      /\ s.cfg = m.cfg /\ s.changed = m.changed /\ s.need = m.need
      /\ s.pif = m.pif /\ s.tdis = m.tdis /\ s.out = <<>>
  BY StartEffect
<1>y. y \o <<>> = y OBVIOUS
<1> HIDE DEF s, r
<1>b. Both(n, m, o, x, y) BY DEF Whole
<1>0. m.stage \in Stages BY DEF NodeRecords
<1>1. CASE m.stage \in {"EXCHANGE", "ERROR"}
  <2>1. Sending(n, m, o, x, y, dn, dp) BY <1>1, <1>y DEF Sending
  <2>2. Sending(n, Transit(n, m, "NULL", sent), o, x, y, dn, dp)
    BY <2>1, ExchangeIdle
  <2>3. s = m BY <1>1, <1>s
  <2> QED BY <2>2, <2>3 DEF Sending, s
<1>2. ASSUME r = s, m.stage # "INIT" PROVE Whole(n, r, o, x, y \o r.out, dn, dp)
  BY <1>2, <1>s, <1>y
<1>3. CASE n = Active /\ m.stage \in {"INIT", "STAGE1"}
  <2>1. s.stage = "STAGE1" BY <1>3, <1>s
  <2>2. r = s BY <1>3, <2>1, TransitSender DEF r
  <2>3. CASE m.stage = "STAGE1" BY <1>2, <2>2, <2>3 DEF r, s
  <2>4. CASE m.stage = "INIT"
    <3>1. Both(n, s, o, x, y)
      BY <1>b, <1>3, <1>s, <2>1, <2>4 DEF Both, Joint
    <3>2. Side(n, m, x, y, o) => Side(n, s, x, y, o)
      BY <1>3, <1>s, <2>1, <2>4, ZenonT(30) DEF Side, Kept, Announced
    <3>3. Side(Peer(n), o, y, x, m) => Side(Peer(n), o, y, x, s)
      BY <1>s, <2>1, <2>4 DEF Side, News, Acked
    <3>4. Whole(n, s, o, x, y, dn, dp) BY <3>1, <3>2, <3>3 DEF Whole
    <3>5. y \o r.out = y BY <1>s, <1>y, <2>2
    <3> QED BY <2>2, <3>4, <3>5, ZenonT(30) DEF r, s
  <2> QED BY <1>3, <2>3, <2>4
<1>4. CASE n = Active /\ m.stage = "STAGE2"
  <2>1. m.wait BY <1>b, <1>4 DEF Both, Joint
  <2>2. s = m BY <1>4, <1>s
  <2>3. r = Receive(m, "NULL") BY <1>4, <2>1, <2>2, TransitWaiting DEF r
  <2>4. r = s BY <2>2, <2>3 DEF Receive
  <2> QED BY <1>2, <1>4, <2>4 DEF r, s
<1>5. CASE n # Active /\ m.stage = "INIT"
  <2> DEFINE k == [s EXCEPT !.wait = TRUE]
  <2>1. r = Send(k, <<"REQ">>) BY <1>5, <1>s, TransitRequest DEF r
  <2>2. SamePort(s, k) /\ k.wait /\ k.need = s.need /\ k.cfg = s.cfg
        /\ k.changed = s.changed /\ k.tdis = s.tdis /\ k.out = s.out
    BY <1>s, Zenon DEF SamePort, NodeRecords
  <2> HIDE DEF k
  <2>3. /\ SamePort(k, r) /\ r.wait = k.wait /\ r.need = k.need
        /\ r.cfg = k.cfg /\ r.changed = k.changed /\ r.tdis = k.tdis
        /\ r.out = k.out \o <<"REQ">>
    BY <2>1, <2>2, Words, SendEffect, ZenonT(30) DEF SamePort
  <2>4. r.out = <<"REQ">> BY <1>s, <2>2, <2>3
  <2>5. /\ o.stage \in {"INIT", "STAGE1"} /\ y = <<>> /\ x = <<>> /\ ~m.need
        /\ o.stage = "STAGE1" => ~o.wait
    BY <1>b, <1>5 DEF Both, Joint
  <2>6. y \o r.out = <<"REQ">> BY <2>4, <2>5
  <2>7. /\ r.stage = "STAGE1" /\ r.wait /\ ~r.need
        /\ r.link = m.link /\ r.bound = m.bound /\ r.purge = m.purge
        /\ r.cfg = m.cfg /\ r.changed = m.changed /\ r.tdis = m.tdis
    BY <1>5, <1>s, <2>2, <2>3, <2>5 DEF SamePort
  <2>8. Both(n, r, o, x, <<"REQ">>) BY <1>5, <2>5, <2>7 DEF Both, Joint
  <2>9. ~Has(<<"REQ">>, "PURGE") BY OneWord
  <2>10. Side(n, m, x, y, o) => Side(n, r, x, <<"REQ">>, o)
    BY <1>5, <2>7, <2>9 DEF Side, Kept, Announced
  <2>11. Side(Peer(n), o, y, x, m) => Side(Peer(n), o, <<"REQ">>, x, r)
    BY <1>5, <2>5 DEF Side, Announced, Peer
  <2> QED BY <2>6, <2>8, <2>10, <2>11, Zenon DEF Whole, r, s
<1>6. CASE n # Active /\ m.stage = "STAGE1"
  <2>1. m.wait BY <1>b, <1>6 DEF Both, Joint
  <2>2. s = m BY <1>6, <1>s
  <2>3. r = Receive(m, "NULL") BY <1>6, <2>1, <2>2, TransitWaiting DEF r
  <2>4. r = s BY <2>2, <2>3 DEF Receive
  <2> QED BY <1>2, <1>6, <2>4, ZenonT(30) DEF r, s
<1>7. CASE n # Active /\ m.stage = "STAGE2"
  <2>1. s = m BY <1>7, <1>s
  <2>2. r = s BY <1>7, <2>1, TransitSender DEF r
  <2> QED BY <1>2, <1>7, <2>2, Zenon DEF r, s
<1> QED BY <1>0, <1>1, <1>3, <1>4, <1>5, <1>6, <1>7, SMTT(20) DEF Stages

\* An iteration of the active node that reads a message before EXCHANGE.
LEMMA ActiveRead ==
  ASSUME NEW n \in Node, NEW m \in NodeRecords, m.out = <<>>,
         NEW o \in NodeRecords, NEW x \in Seq(Msgs), NEW y \in Seq(Msgs),
         NEW dn \in BOOLEAN, NEW dp \in BOOLEAN, NEW sent \in BOOLEAN,
         Whole(n, m, o, x, y, dn, dp), x # <<>>,
         n = Active, m.stage \in {"STAGE1", "STAGE2"}
  PROVE  LET r == Transit(n, m, Head(x), sent) IN
         Whole(n, r, o, Tail(x), y \o r.out, dn, dp)
<1> DEFINE h == Head(x)
           t == Tail(x)
           r == Transit(n, m, h, sent)
<1>y. y \o <<>> = y OBVIOUS
<1>b. Both(n, m, o, x, y) BY DEF Whole
<1>h. h \in Msgs /\ t \in Seq(Msgs) BY TailOne, Zenon
<1>1. CASE m.stage = "STAGE1"
  <2>1. /\ o.stage = "STAGE1" /\ o.wait /\ ~o.need /\ x = <<"REQ">> /\ y = <<>>
        /\ ~m.wait
    BY <1>1, <1>b DEF Both, Joint
  <2>2. h = "REQ" /\ t = <<>> BY <2>1, OneWord
  <2> DEFINE a == SendAll(m)
             k == [a EXCEPT !.wait = TRUE]
  <2>3. r = Send(k, <<"REQ">>) BY <1>1, <2>1, <2>2, TransitAnswer
  <2>4. Answers(m, a) BY AnswerEffect
  <2> HIDE DEF a, r
  <2>5. /\ SamePort(a, k) /\ k.wait /\ k.cfg = a.cfg /\ k.changed = a.changed
        /\ k.tdis = a.tdis /\ k.out = a.out
    BY <2>4, Zenon DEF Answers, SamePort, NodeRecords
  <2> HIDE DEF k
  <2>6. /\ SamePort(k, r) /\ r.wait = k.wait /\ r.cfg = k.cfg
        /\ r.changed = k.changed /\ r.tdis = k.tdis /\ r.out = k.out \o <<"REQ">>
    BY <2>3, <2>5, Words, SendEffect, ZenonT(30) DEF SamePort
  <2>7. /\ r.stage = "STAGE2" /\ r.wait /\ r.link = m.link /\ r.bound = m.bound
        /\ r.purge = m.purge /\ r.cfg = a.cfg /\ r.changed = a.changed
        /\ r.tdis = m.tdis /\ r.out = a.out \o <<"REQ">>
    BY <1>1, <2>4, <2>5, <2>6 DEF SamePort, Answers, Succ
  <2>8. r.out \in Data /\ a.out \in Seq(Msgs) BY <2>4, <2>7, AnswerData
  <2>9. y \o r.out = r.out /\ y \o a.out = a.out /\ y \o m.out = <<>>
    <3>1. r.out \in Seq(Msgs) BY <2>6, Zenon DEF SamePort, NodeRecords
    <3> QED BY <2>1, <2>8, <3>1
  <2>10. Both(n, r, o, t, r.out) BY <2>1, <2>2, <2>7, <2>8 DEF Both, Joint
  <2>11. "REQ" \in Msgs /\ "REQ" \notin States BY DEF Msgs, States
  <2>12. /\ ~Has(<<>>, "PURGE") => ~Has(a.out, "PURGE")
         /\ m.bound => \A pif : Known(a.out, pif) /\ Told(a.out, pif, m.link)
    <3>1. /\ ~Has(y \o m.out, "PURGE") => ~Has(y \o a.out, "PURGE")
          /\ m.bound => \A pif : /\ Known(y \o a.out, pif)
                                 /\ Told(y \o a.out, pif, m.link)
      BY <2>4, AnswerWrites, ZenonT(30)
    <3> QED BY <2>9, <3>1
  <2>13. ~Has(r.out, "PURGE") BY <2>7, <2>8, <2>11, <2>12, SendHas, OneWord,
                                 SMTT(20)
  <2>14. m.bound => Known(r.out, o.pif)
    BY <2>7, <2>8, <2>11, <2>12, SendKnown, SMTT(20)
  <2>15. m.bound => Told(r.out, o.pif, m.link)
    <3>1. m.link \in BOOLEAN BY DEF NodeRecords
    <3> QED BY <2>7, <2>8, <2>11, <2>12, <3>1, SendTold, ZenonT(30)
  <2>16. Kept(m) => Kept(a) BY <1>1, <2>4, AnswerKept, Zenon
  <2>17. Kept(m) => Kept(r)
    BY <1>1, <2>4, <2>7, <2>16, Zenon DEF Kept, Answers
  <2>18. News(r, r.out, o) /\ Acked(r, t, r.out, o)
    BY <2>7, <2>14, <2>15, Zenon DEF News, Acked
  <2>19. dn => Side(n, r, t, r.out, o)
    BY <2>13, <2>17, <2>18, Zenon DEF Whole, Side
  <2>20. dp => Side(Peer(n), o, r.out, t, r)
    <3>1. ~Announced(Peer(n), o) BY <2>1, NodesDiffer DEF Announced, Peer
    <3>2. ~Has(t, "PURGE") BY <2>2, OneWord, Zenon
    <3> QED BY <3>1, <3>2 DEF Whole, Side
  <2> QED BY <2>9, <2>10, <2>19, <2>20, ZenonT(30) DEF Whole, r
<1>2. CASE m.stage = "STAGE2"
  <2>1. /\ m.wait /\ o.stage = "EXCHANGE" /\ ~o.need
        /\ Has(x, "DONE") /\ ~Has(x, "REQ") /\ y = <<>>
    BY <1>2, <1>b DEF Both, Joint
  <2>2. h # "REQ" BY <2>1, ReadHas
  <2>3. /\ h # "DONE" => Has(t, "DONE")
        /\ ~Has(t, "REQ")
    BY <2>1, ReadHas, Zenon
  <2>4. CASE h # "DONE"
    <3>1. r = Receive(m, h) BY <1>2, <1>h, <2>1, <2>2, <2>4, TransitWaiting,
                               SMTT(20)
    <3>2. Reads(m, h, r) BY <1>h, <2>2, <3>1, ReadEffect
    <3> HIDE DEF r
    <3>3. /\ r.out = <<>> /\ r.stage = "STAGE2" /\ r.wait
          /\ r.pif = PifAfter(m.pif, h)
      <4>1. m.wait = TRUE BY <2>1 DEF NodeRecords
      <4> QED BY <1>2, <2>4, <3>2, <4>1, ZenonT(30) DEF Reads, SamePort
    <3>4. Both(n, r, o, t, y)
      BY <2>1, <2>3, <2>4, <3>3 DEF Both, Joint
    <3>5. dn => Side(n, r, t, y, o) BY <3>2, SideRead, ZenonT(30) DEF Whole
    <3>6. dp => Side(Peer(n), o, y, t, r)
      BY <1>2, <2>1, <3>3, PeerRead, SMTT(20) DEF Whole
    <3>7. y \o r.out = y BY <1>y, <3>3
    <3> QED BY <3>4, <3>5, <3>6, <3>7, ZenonT(30) DEF Whole, r
  <2>5. CASE h = "DONE"
    <3> DEFINE a == Finishes(m)
    <3>1. /\ a \in NodeRecords /\ a.stage = "EXCHANGE"
          /\ a.link = m.link /\ a.bound = m.bound /\ a.purge = m.purge
          /\ a.cfg = m.cfg /\ a.changed = m.changed
          /\ a.pif = m.pif /\ a.tdis = m.tdis /\ a.out = m.out
          /\ r = Pass(n, peer_conn_handler(a), "NULL", sent)
      BY <1>2, <2>1, <2>5, TransitDone
    <3> HIDE DEF a, r, t
    <3>2. Both(n, a, o, t, y) BY <2>1, <3>1, Zenon DEF Both, Joint
    <3>3. Side(n, m, x, y, o) => Side(n, a, t, y, o)
      BY <1>2, <3>1 DEF Side, Kept, Announced, News, Acked
    <3>4. a.pif = PifAfter(m.pif, h) BY <2>5, <3>1, Zenon DEF PifAfter
    <3>5. dp => Side(Peer(n), o, y, t, a)
      BY <1>2, <2>5, <3>1, <3>4, PeerRead, Zenon DEF Whole, t, h
    <3>6. Sending(n, a, o, t, y, dn, dp)
      BY <1>y, <3>1, <3>2, <3>3, <3>5 DEF Sending, Whole
    <3>7. Sending(n, r, o, t, y, dn, dp) BY <3>1, <3>6, EnterExchange
    <3> QED BY <3>7 DEF Sending, r, t
  <2> QED BY <2>4, <2>5
<1> QED BY <1>1, <1>2

\* An iteration of the standby node that reads a message before EXCHANGE.
LEMMA StandbyRead ==
  ASSUME NEW n \in Node, NEW m \in NodeRecords, m.out = <<>>,
         NEW o \in NodeRecords, NEW x \in Seq(Msgs), NEW y \in Seq(Msgs),
         NEW dn \in BOOLEAN, NEW dp \in BOOLEAN, NEW sent \in BOOLEAN,
         Whole(n, m, o, x, y, dn, dp), x # <<>>,
         n # Active, m.stage \in {"STAGE1", "STAGE2"}
  PROVE  LET r == Transit(n, m, Head(x), sent) IN
         Whole(n, r, o, Tail(x), y \o r.out, dn, dp)
<1> DEFINE h == Head(x)
           t == Tail(x)
           r == Transit(n, m, h, sent)
<1>y. y \o <<>> = y OBVIOUS
<1>b. Both(n, m, o, x, y) BY DEF Whole
<1>h. h \in Msgs /\ t \in Seq(Msgs) BY TailOne
<1>1. CASE m.stage = "STAGE1"
  <2>1. /\ m.wait /\ ~m.need /\ o.stage = "STAGE2" /\ o.wait
        /\ y = <<>> /\ x \in Data
    BY <1>1, <1>b DEF Both, Joint
  <2>2. /\ h \in {"CONF", "UP", "DOWN", "DONE"}
        /\ h # "DONE" => t \in Data
        /\ h = "DONE" => t = <<"REQ">>
    BY <2>1, DataRead, Zenon
  <2>3. CASE h # "DONE"
    <3>1. r = Receive(m, h) BY <1>1, <1>h, <2>1, <2>2, <2>3, TransitWaiting
    <3>2. Reads(m, h, r) BY <1>h, <2>2, <3>1, ReadEffect
    <3> HIDE DEF r
    <3>3. /\ r.out = <<>> /\ r.stage = "STAGE1" /\ r.wait /\ ~r.need
          /\ r.pif = PifAfter(m.pif, h)
      <4>1. m.wait = TRUE BY <2>1 DEF NodeRecords
      <4>2. r.need = m.need BY <2>2, <3>2 DEF Reads
      <4> QED BY <1>1, <2>1, <2>3, <3>2, <4>1, <4>2, ZenonT(30)
                 DEF Reads, SamePort
    <3> HIDE DEF t
    <3>4. Both(n, r, o, t, y) BY <2>1, <2>2, <2>3, <3>3 DEF Both, Joint
    <3>5. dn => Side(n, r, t, y, o) BY <3>2, SideRead DEF Whole, t
    <3>6. dp => Side(Peer(n), o, y, t, r)
      BY <1>1, <2>1, <3>3, PeerRead DEF Whole, t
    <3>7. y \o r.out = y BY <1>y, <3>3, Zenon
    <3> QED BY <3>4, <3>5, <3>6, <3>7, ZenonT(30) DEF Whole, r, t
  <2>4. CASE h = "DONE"
    <3> DEFINE a == Finishes(m)
    <3>1. /\ a \in NodeRecords /\ ~a.wait /\ a.stage = "STAGE2"
          /\ a.link = m.link /\ a.bound = m.bound /\ a.purge = m.purge
          /\ a.cfg = m.cfg /\ a.changed = m.changed /\ a.need = m.need
          /\ a.pif = m.pif /\ a.tdis = m.tdis /\ a.out = m.out
          /\ r = a
      BY <1>1, <2>1, <2>4, TransitDone, SMTT(20)
    <3> HIDE DEF a, r, t
    <3>2. Both(n, a, o, t, y) BY <2>1, <2>2, <2>4, <3>1, Zenon DEF Both, Joint
    <3>3. Side(n, m, x, y, o) => Side(n, a, t, y, o)
      BY <1>1, <3>1 DEF Side, Kept, Announced
    <3>4. a.pif = PifAfter(m.pif, h) BY <2>4, <3>1 DEF PifAfter
    <3>5. dp => Side(Peer(n), o, y, t, a)
      BY <1>1, <2>4, <3>1, <3>4, PeerRead DEF Whole, t, h
    <3>6. y \o r.out = y BY <1>y, <3>1
    <3> QED BY <3>1, <3>2, <3>3, <3>5, <3>6, ZenonT(30) DEF Whole, r, t
  <2> QED BY <2>3, <2>4
<1>2. CASE m.stage = "STAGE2"
  <2>1. /\ ~m.wait /\ ~m.need /\ o.stage = "STAGE2" /\ o.wait
        /\ y = <<>> /\ x = <<"REQ">>
    BY <1>2, <1>b DEF Both, Joint
  <2>2. h = "REQ" /\ t = <<>> BY <2>1, OneWord
  <2> DEFINE a == SendAll(m)
             z == y \o a.out
  <2>3. r = Pass(n, peer_conn_handler(a), "NULL", sent)
    BY <1>2, <2>1, <2>2, TransitAnswer, Zenon
  <2>4. Answers(m, a) BY AnswerEffect
  <2> HIDE DEF a, r
  <2>5. /\ a \in NodeRecords /\ a.stage = "EXCHANGE" /\ ~a.need
        /\ a.link = m.link /\ a.bound = m.bound /\ a.purge = m.purge
        /\ a.tdis = m.tdis /\ a.pif = m.pif
    BY <1>2, <2>1, <2>4 DEF Answers, Succ
  <2>6. y \o m.out = <<>> BY <2>1
  <2>7. /\ ~Has(y \o m.out, "PURGE") => ~Has(z, "PURGE")
        /\ ~Has(y \o m.out, "REQ") => ~Has(z, "REQ")
        /\ Has(z, "DONE")
        /\ m.bound => \A pif : Known(z, pif) /\ Told(z, pif, m.link)
    BY <2>4, AnswerWrites, ZenonT(30)
  <2>8. ~Has(z, "PURGE") /\ ~Has(z, "REQ") BY <2>6, <2>7, OneWord, SMTT(20)
  <2> HIDE DEF z
  <2>9. Both(n, a, o, t, z) BY <2>1, <2>2, <2>5, <2>7, <2>8, SMTT(20)
                               DEF Both, Joint
  <2>10. Kept(m) => Kept(a) /\ ~a.tdis
    BY <1>2, <2>4, <2>5, AnswerKept, SMTT(20) DEF Kept
  <2>11. News(a, z, o) BY <2>5, <2>7 DEF News
  <2>12. ~a.tdis => Acked(a, t, z, o) BY DEF Acked
  <2>13. dn => Side(n, a, t, z, o)
    BY <2>8, <2>10, <2>11, <2>12 DEF Whole, Side
  <2>14. a.pif = PifAfter(m.pif, h) BY <2>2, <2>5 DEF PifAfter
  <2>15. Has(y, "ACK") => Has(z, "ACK") BY <2>1, OneWord
  <2>16. dp => Side(Peer(n), o, z, t, a)
    BY <1>2, <2>2, <2>5, <2>14, <2>15, PeerRead, ZenonT(30) DEF Whole
  <2>17. Sending(n, a, o, t, y, dn, dp)
    BY <2>5, <2>9, <2>13, <2>16 DEF Sending, Whole, z
  <2> HIDE DEF t
  <2>18. Sending(n, r, o, t, y, dn, dp) BY <2>3, <2>17, EnterExchange
  <2> QED BY <2>18 DEF Sending, r, t
<1> QED BY <1>1, <1>2

\* An iteration that reads a message.
LEMMA ReadWhole ==
  ASSUME NEW n \in Node, NEW m \in NodeRecords, m.out = <<>>,
         NEW o \in NodeRecords, NEW x \in Seq(Msgs), NEW y \in Seq(Msgs),
         NEW dn \in BOOLEAN, NEW dp \in BOOLEAN, NEW sent \in BOOLEAN,
         Whole(n, m, o, x, y, dn, dp), x # <<>>, m.stage # "INIT"
  PROVE  LET r == Transit(n, m, Head(x), sent) IN
         Whole(n, r, o, Tail(x), y \o r.out, dn, dp)
<1>1. CASE m.stage \in {"EXCHANGE", "ERROR"}
  <2>1. y \o m.out = y OBVIOUS
  <2>2. Sending(n, m, o, x, y, dn, dp) BY <1>1, <2>1 DEF Sending
  <2>3. Sending(n, Transit(n, m, Head(x), sent), o, Tail(x), y, dn, dp)
    BY <2>2, ExchangeRead, SMTT(20)
  <2> QED BY <2>3 DEF Sending
<1>2. CASE m.stage \in {"STAGE1", "STAGE2"} /\ n = Active BY <1>2, ActiveRead
<1>3. CASE m.stage \in {"STAGE1", "STAGE2"} /\ n # Active BY <1>3, StandbyRead
<1> QED BY <1>1, <1>2, <1>3 DEF NodeRecords, Stages

(***************************************************************************)
(* A node that is alone on its connection.  In EXCHANGE what it keeps is   *)
(* what it would keep facing a peer in ERROR.                              *)
(***************************************************************************)
Clean(m) == m \in NodeRecords /\ Kept(m) /\ ~Has(m.out, "PURGE")

\* A peer in ERROR.
Deaf == [NodeInit EXCEPT !.stage = "ERROR"]

LEMMA DeafType == Deaf \in NodeRecords /\ Deaf.stage = "ERROR"
<1>1. <<>> \in Seq(Msgs) OBVIOUS
<1> QED BY <1>1, Zenon DEF Deaf, NodeInit, NodeRecords, Stages

LEMMA CleanExchange ==
  ASSUME NEW n \in Node, NEW m \in NodeRecords, NEW x,
         m.stage = "EXCHANGE" \/ m.stage = "ERROR"
  PROVE  Clean(m) <=> Sending(n, m, Deaf, x, <<>>, TRUE, FALSE)
<1>1. <<>> \o m.out = m.out BY DEF NodeRecords
<1>2. Both(n, m, Deaf, x, m.out) BY DeafType DEF Both, Joint
<1>3. Side(n, m, x, m.out, Deaf) <=> Kept(m) /\ ~Has(m.out, "PURGE")
  BY DeafType DEF Side, News, Acked
<1> QED BY <1>1, <1>2, <1>3 DEF Sending, Whole, Clean

LEMMA CleanAnswer ==
  ASSUME NEW m, Clean(m), m.stage # "INIT"
  PROVE  Clean(SendAll(m))
<1> DEFINE a == SendAll(m)
<1>0. m \in NodeRecords /\ Kept(m) /\ ~Has(m.out, "PURGE") BY DEF Clean
<1>1. Answers(m, a) BY <1>0, AnswerEffect
<1> HIDE DEF a
<1>2. a \in NodeRecords BY <1>1 DEF Answers
<1>3. Kept(a) BY <1>0, <1>1, AnswerKept
<1>4. <<>> \o m.out = m.out /\ <<>> \o a.out = a.out BY <1>0, <1>2 DEF NodeRecords
<1>5. <<>> \in Seq(Msgs) OBVIOUS
<1>6. ~Has(<<>> \o m.out, "PURGE") => ~Has(<<>> \o a.out, "PURGE")
  BY <1>0, <1>1, <1>5, AnswerWrites, ZenonT(30)
<1> QED BY <1>0, <1>2, <1>3, <1>4, <1>6 DEF Clean, a

\* The stage handlers, whatever they read.
LEMMA CleanStage ==
  ASSUME NEW n \in Node, NEW m, Clean(m), m.stage \in {"STAGE1", "STAGE2"},
         NEW msg \in Msgs \cup {"NULL"}
  PROVE  Clean(Stage(n, m, msg))
<1> DEFINE r == Stage(n, m, msg)
           sends == (m.stage = "STAGE1") = (n = Active)
<1>0. m \in NodeRecords /\ Kept(m) /\ ~Has(m.out, "PURGE") /\ ~m.tdis
  BY DEF Clean, Kept
<1>1. CASE sends
  <2>1. r = IF ~m.wait /\ msg = "REQ" THEN SendAll(m) ELSE m
    BY <1>1, SMTT(20) DEF Stage
  <2> QED BY <2>1, CleanAnswer
<1>2. CASE ~sends /\ ~m.wait
  <2> DEFINE w == [m EXCEPT !.wait = TRUE]
  <2>1. r = Send(w, <<"REQ">>) BY <1>2 DEF Stage
  <2>2. /\ SamePort(m, w) /\ w.cfg = m.cfg /\ w.changed = m.changed
        /\ w.tdis = m.tdis /\ w.out = m.out
    BY <1>0, Zenon DEF NodeRecords, SamePort
  <2> HIDE DEF w, r
  <2>3. /\ SamePort(w, r) /\ r.cfg = w.cfg /\ r.changed = w.changed
        /\ r.tdis = w.tdis /\ r.out = w.out \o <<"REQ">>
    BY <2>1, <2>2, Words, SendEffect, ZenonT(30) DEF SamePort
  <2>4. Kept(r) BY <1>0, <2>2, <2>3 DEF Kept, SamePort
  <2>5. m.out \in Seq(Msgs) /\ "REQ" \in Msgs BY <1>0 DEF NodeRecords, Msgs
  <2>6. ~Has(r.out, "PURGE") BY <1>0, <2>2, <2>3, <2>5, SendHas
  <2> QED BY <2>3, <2>4, <2>6 DEF Clean, SamePort, r
<1>3. CASE ~sends /\ m.wait
  <2> DEFINE q == Receive(m, msg)
             t == Succ(q.stage)
             u == [q EXCEPT !.stage = t]
  <2>1. r = IF q.wait THEN q ELSE u BY <1>3 DEF Stage
  <2>2. Clean(q) /\ ~q.tdis
    <3>1. CASE msg = "REQ"
      <4>1. q = SendAll(m) BY <3>1 DEF Receive
      <4>2. Answers(m, q) BY <1>0, <4>1, AnswerEffect
      <4> QED BY <1>0, <4>1, <4>2, CleanAnswer DEF Answers
    <3>2. CASE msg # "REQ"
      <4>1. Reads(m, msg, q) BY <1>0, <3>2, ReadEffect
      <4> HIDE DEF q
      <4>2. Kept(q) /\ ~q.tdis BY <1>0, <4>1, Zenon DEF Kept, Reads, SamePort
      <4>3. q.out = m.out /\ q \in NodeRecords BY <4>1 DEF Reads, SamePort
      <4> QED BY <1>0, <4>2, <4>3 DEF Clean
    <3> QED BY <3>1, <3>2, SMTT(20)
  <2> HIDE DEF q, r
  <2>3. t \in Stages BY <2>2, SuccType DEF NodeRecords, Clean
  <2> HIDE DEF t
  <2>4. /\ u \in NodeRecords /\ u.link = q.link /\ u.bound = q.bound
        /\ u.purge = q.purge /\ u.cfg = q.cfg /\ u.changed = q.changed
        /\ u.tdis = q.tdis /\ u.out = q.out
    BY <2>2, <2>3, ZenonT(30) DEF NodeRecords, Clean
  <2> HIDE DEF u
  <2>5. Clean(u) BY <2>2, <2>4 DEF Clean, Kept
  <2> QED BY <2>1, <2>2, <2>5 DEF r
<1> QED BY <1>1, <1>2, <1>3

LEMMA CleanPass ==
  ASSUME NEW n \in Node, NEW m, Clean(m), NEW msg \in Msgs \cup {"NULL"},
         NEW sent \in BOOLEAN
  PROVE  Clean(Pass(n, m, msg, sent))
<1> DEFINE r == Pass(n, m, msg, sent)
<1>0. m \in NodeRecords BY DEF Clean
<1>1. CASE m.stage \in {"STAGE1", "STAGE2"}
  <2>1. r = Stage(n, m, msg) BY <1>1 DEF Pass
  <2> QED BY <1>1, <2>1, CleanStage
<1>2. CASE m.stage = "EXCHANGE"
  <2> DEFINE q == Receive(m, msg)
  <2>0. <<>> \in Seq(Msgs) OBVIOUS
  <2>1. r = Flush(q, sent) BY <1>2 DEF Pass
  <2>2. PICK t \in Seq(Msgs) : Sending(n, q, Deaf, t, <<>>, TRUE, FALSE)
    <3>1. CASE msg = "NULL"
      <4>1. q = m BY <3>1 DEF Receive
      <4>2. Sending(n, m, Deaf, <<>>, <<>>, TRUE, FALSE)
        BY <1>0, <1>2, CleanExchange, Zenon
      <4> QED BY <2>0, <4>1, <4>2, Zenon
    <3>2. CASE msg # "NULL"
      <4> DEFINE x == <<msg>>
      <4>1. x \in Seq(Msgs) /\ x # <<>> /\ Head(x) = msg /\ Tail(x) = <<>>
        BY <3>2
      <4> HIDE DEF x
      <4>2. Sending(n, m, Deaf, x, <<>>, TRUE, FALSE)
        BY <1>0, <1>2, CleanExchange, Zenon
      <4>3. Sending(n, Receive(m, Head(x)), Deaf, Tail(x), <<>>, TRUE, FALSE)
        BY <1>2, <2>0, <4>1, <4>2, DeafType, ReadExchange, Zenon
      <4> QED BY <2>0, <4>1, <4>3, Zenon
    <3> QED BY <3>1, <3>2, Zenon
  <2> HIDE DEF q
  <2>3. Sending(n, r, Deaf, t, <<>>, TRUE, FALSE) BY <2>0, <2>1, <2>2, SendPending,
                                                     Zenon
  <2> HIDE DEF r
  <2>4. r \in NodeRecords /\ (r.stage = "EXCHANGE" \/ r.stage = "ERROR")
    BY <2>3 DEF Sending
  <2>5. Clean(r) BY <2>3, <2>4, CleanExchange, Zenon
  <2> QED BY <2>5 DEF r
<1>3. CASE m.stage \notin {"STAGE1", "STAGE2", "EXCHANGE"} BY <1>3 DEF Pass
<1> QED BY <1>1, <1>2, <1>3

\* An iteration, whatever it reads.
LEMMA CleanTransit ==
  ASSUME NEW n \in Node, NEW m, Clean(m), NEW msg \in Msgs \cup {"NULL"},
         NEW sent \in BOOLEAN
  PROVE  Clean(Transit(n, m, msg, sent))
<1> DEFINE a == Pass(n, m, msg, sent)
           c == peer_conn_handler(a)
           b == IF m.stage # "EXCHANGE" /\ a.stage = "EXCHANGE" THEN c ELSE a
<1>1. Clean(a) BY CleanPass
<1> HIDE DEF a
<1>2. Disables(a, c) BY <1>1, ConnEffect DEF Clean
<1> HIDE DEF c
<1>3. Clean(c) BY <1>1, <1>2 DEF Clean, Kept, Disables, Quiet, SamePort
<1>4. Clean(b) BY <1>1, <1>3
<1>5. Transit(n, m, msg, sent) = Pass(n, b, "NULL", sent) BY DEF Transit, a, c
<1> HIDE DEF b
<1>6. Clean(Pass(n, b, "NULL", sent)) BY <1>4, CleanPass
<1> QED BY <1>5, <1>6

(***************************************************************************)
(* The actions.                                                            *)
(***************************************************************************)
LEMMA PeerNode ==
  ASSUME NEW n \in Node
  PROVE  /\ Peer(n) \in Node /\ Peer(n) # n /\ Node = {n, Peer(n)}
         /\ Peer(Peer(n)) = n
  BY NodesDiffer, SMTT(20) DEF Node, Peer

\* The invariant of the connection, from either side.
LEMMA WholeOf ==
  ASSUME NEW nd, NEW wr, NEW det, NEW n \in Node
  PROVE  (/\ Joint(nd[Active], nd[Standby], wr[Active], wr[Standby])
          /\ \A k \in Node \ det : Side(k, nd[k], wr[k], wr[Peer(k)], nd[Peer(k)]))
         <=> Whole(n, nd[n], nd[Peer(n)], wr[n], wr[Peer(n)],
                   n \notin det, Peer(n) \notin det)
<1> DEFINE S(k) == Side(k, nd[k], wr[k], wr[Peer(k)], nd[Peer(k)])
<1>1. (\A k \in Node \ det : S(k)) <=>
        (n \notin det => S(n)) /\ (Peer(n) \notin det => S(Peer(n)))
  <2> HIDE DEF S
  <2> QED BY PeerNode
<1>2. Joint(nd[Active], nd[Standby], wr[Active], wr[Standby])
        <=> Both(n, nd[n], nd[Peer(n)], wr[n], wr[Peer(n)])
  <2>1. CASE n = Active BY <2>1 DEF Both, Peer
  <2>2. CASE n # Active
    <3>1. n = Standby /\ Peer(n) = Active BY <2>2 DEF Node, Peer
    <3> QED BY <2>2, <3>1 DEF Both
  <2> QED BY <2>1, <2>2
<1>3. S(Peer(n)) = Side(Peer(n), nd[Peer(n)], wr[Peer(n)], wr[n], nd[n])
  BY PeerNode
<1> QED BY <1>1, <1>2, <1>3 DEF Whole

\* What is asked of a node does not depend on out.
LEMMA Written ==
  ASSUME NEW n, NEW r \in NodeRecords, NEW o, NEW x, NEW y, NEW dn, NEW dp
  PROVE  LET c == [r EXCEPT !.out = <<>>] IN
         /\ Away(r, x) => Away(c, x)
         /\ Kept(r) => Kept(c)
         /\ Whole(n, r, o, x, y, dn, dp) => Whole(n, c, o, x, y, dn, dp)
<1> DEFINE c == [r EXCEPT !.out = <<>>]
<1>1. /\ c.stage = r.stage /\ c.wait = r.wait /\ c.need = r.need
      /\ c.link = r.link /\ c.bound = r.bound /\ c.cfg = r.cfg
      /\ c.changed = r.changed /\ c.purge = r.purge /\ c.tdis = r.tdis
      /\ c.pif = r.pif
  BY DEF NodeRecords
<1> HIDE DEF c
<1>2. Away(r, x) => Away(c, x) BY <1>1 DEF Away
<1>3. Kept(r) => Kept(c) BY <1>1, SMTT(20) DEF Kept
<1>4. Both(n, r, o, x, y) => Both(n, c, o, x, y) BY <1>1 DEF Both, Joint
<1>5. Side(n, r, x, y, o) => Side(n, c, x, y, o)
  BY <1>1, <1>3, ZenonT(30) DEF Side, News, Acked, Announced
<1>6. Side(Peer(n), o, y, x, r) => Side(Peer(n), o, y, x, c)
  BY <1>1, Zenon DEF Side, News, Acked
<1>7. Whole(n, r, o, x, y, dn, dp) => Whole(n, c, o, x, y, dn, dp)
  BY <1>4, <1>5, <1>6, SMTT(20) DEF Whole
<1> QED BY <1>2, <1>3, <1>7 DEF c

\* A step of node n that leaves the connection open or closed as it is.
LEMMA BecomesNews ==
  ASSUME TypeOK, NewsInv, NEW n \in Node, NEW r \in NodeRecords, NEW input,
         Becomes(n, r, input), open' = open,
         detached \subseteq detached', detached' \subseteq detached \cup {n},
         n \notin open => Away(r, input),
         n \notin detached' => Kept(r),
         open = Node => Whole(n, r, node[Peer(n)], input, wire[Peer(n)] \o r.out,
                              n \notin detached', Peer(n) \notin detached)
  PROVE  NewsInv'
<1> DEFINE c == [r EXCEPT !.out = <<>>]
           p == Peer(n)
<1>1. p \in Node /\ p # n /\ Node = {n, p} BY PeerNode
<1>2. /\ node'[n] = c /\ node'[p] = node[p] /\ wire'[n] = input
      /\ p \in open => wire'[p] = wire[p] \o r.out
      /\ p \notin open => wire'[p] = wire[p]
  BY <1>1 DEF Becomes, TypeOK
<1>3. /\ Away(r, input) => Away(c, input)
      /\ Kept(r) => Kept(c)
      /\ \A y : Whole(n, r, node[p], input, y, n \notin detached', p \notin detached)
           => Whole(n, c, node[p], input, y, n \notin detached', p \notin detached)
  BY Written
<1> HIDE DEF c, p
<1>4. p \in detached' <=> p \in detached BY <1>1, Zenon
<1>5. ASSUME NEW k \in Node \ open' PROVE Away(node'[k], wire'[k])
  <2>1. CASE k = n BY <1>2, <1>3, <1>5, <2>1, ZenonT(30)
  <2>2. CASE k = p
    <3>1. Away(node[p], wire[p]) BY <1>1, <1>5, <2>2, ZenonT(30) DEF NewsInv
    <3> QED BY <1>2, <1>5, <2>2, <3>1, ZenonT(30)
  <2> QED BY <1>1, <2>1, <2>2, ZenonT(30)
<1>6. ASSUME NEW k \in Node \ detached' PROVE Kept(node'[k])
  <2>1. CASE k = n BY <1>2, <1>3, <1>6, <2>1, ZenonT(30)
  <2>2. CASE k = p
    <3>1. Kept(node[p]) BY <1>1, <1>4, <1>6, <2>2, ZenonT(30) DEF NewsInv
    <3> QED BY <1>2, <2>2, <3>1, Zenon
  <2> QED BY <1>1, <2>1, <2>2, Zenon
<1>7. ASSUME open' = Node
      PROVE  /\ Joint(node'[Active], node'[Standby], wire'[Active], wire'[Standby])
             /\ \A k \in Node \ detached' :
                  Side(k, node'[k], wire'[k], wire'[Peer(k)], node'[Peer(k)])
  <2>1. Whole(n, r, node[p], input, wire[p] \o r.out, n \notin detached', p \notin detached)
    BY <1>7 DEF p
  <2>2. Whole(n, c, node[p], input, wire[p] \o r.out, n \notin detached', p \notin detached)
    BY <1>3, <2>1, Zenon
  <2>3. wire'[p] = wire[p] \o r.out BY <1>1, <1>2, <1>7, Zenon
  <2>4. (p \notin detached) = (p \notin detached') BY <1>4, SMTT(20)
  <2>5. Whole(n, node'[n], node'[p], wire'[n], wire'[p],
              n \notin detached', p \notin detached')
    BY <1>2, <2>2, <2>3, <2>4
  <2> QED BY <2>5, WholeOf, ZenonT(30) DEF p
<1> QED BY <1>5, <1>6, <1>7, ZenonT(30) DEF NewsInv

\* An iteration of the scheduler loop.
LEMMA StepNews ==
  ASSUME IInv, NewsInv, NEW n \in Node, Step(n)
  PROVE  NewsInv'
<1> DEFINE p == Peer(n)
           m == node[n]
<1>0. /\ m \in NodeRecords /\ m.out = <<>> /\ Good(m) /\ node[p] \in NodeRecords
      /\ wire[n] \in Seq(Msgs) /\ wire[p] \in Seq(Msgs)
      /\ peerlink \in BOOLEAN /\ TypeOK
  BY PeerNode DEF IInv, TypeOK, NodesGood
<1>1. Sent(n) \subseteq BOOLEAN BY ZenonT(30) DEF Sent
<1>2. n \in open BY DEF Step, read, idle
<1>3. open = Node => Whole(n, m, node[p], wire[n], wire[p],
                           n \notin detached, p \notin detached)
  BY WholeOf, Zenon DEF NewsInv
<1>4. n \notin detached => Clean(m)
  <2>1. Len(<<>>) = 0 BY Zenon
  <2> QED BY <1>0, <2>1 DEF NewsInv, Clean, Has
<1>5. CASE read(n)
  <2> DEFINE h == Head(wire[n])
             t == Tail(wire[n])
  <2>1. /\ h \in Msgs /\ t \in Seq(Msgs) /\ wire[n] # <<>> /\ m.stage # "INIT"
        /\ UNCHANGED <<open, peerlink, detached>>
    BY <1>0, <1>5, TailOne, ZenonT(30) DEF read
  <2>2. PICK sent \in Sent(n) : Becomes(n, Transit(n, m, h, sent), t)
    BY <1>5 DEF read
  <2> DEFINE r == Transit(n, m, h, sent)
  <2>3. sent \in BOOLEAN BY <1>1, Zenon
  <2>4. r \in NodeRecords BY <1>0, <2>1, <2>3, TransitGood, ZenonT(30)
  <2>5. n \notin detached => Kept(r) BY <1>4, <2>1, <2>3, CleanTransit, Zenon
                                        DEF Clean
  <2> HIDE DEF m, p
  <2>6. open = Node => Whole(n, r, node[p], t, wire[p] \o r.out,
                             n \notin detached, p \notin detached)
    BY <1>0, <1>3, <2>1, <2>3, ReadWhole, ZenonT(30)
  <2> HIDE DEF r, t, h
  <2> QED BY <1>0, <1>2, <2>1, <2>2, <2>4, <2>5, <2>6, BecomesNews, ZenonT(30)
             DEF r, p
<1>6. CASE idle(n)
  <2> DEFINE s == Start(m)
  <2>1. UNCHANGED <<open, peerlink, detached>> BY <1>6 DEF idle
  <2>2. PICK sent \in Sent(n) : Becomes(n, Transit(n, s, "NULL", sent), wire[n])
    BY <1>6, Zenon DEF idle
  <2> DEFINE r == Transit(n, s, "NULL", sent)
  <2>3. sent \in BOOLEAN BY <1>1
  <2>4. /\ s \in NodeRecords /\ (m.stage # "INIT" => s = m)
        /\ m.stage = "INIT" => s.stage = "STAGE1"
        /\ s.link = m.link /\ s.bound = m.bound /\ s.purge = m.purge
        /\ s.cfg = m.cfg /\ s.changed = m.changed
        /\ s.tdis = m.tdis /\ s.out = m.out
    BY <1>0, StartEffect, ZenonT(30)
  <2> HIDE DEF m, p
  <2>5. open = Node => Whole(n, r, node[p], wire[n], wire[p] \o r.out,
                             n \notin detached, p \notin detached)
    BY <1>0, <1>3, <2>3, IdleWhole, ZenonT(30)
  <2> HIDE DEF s
  <2>6. Good(s) BY <1>0, <2>4 DEF Good, Follows, Disabled
  <2>7. r \in NodeRecords BY <1>0, <2>3, <2>4, <2>6, TransitGood, ZenonT(30)
  <2>8. n \notin detached => Clean(s) BY <1>4, <2>4 DEF Clean, Kept
  <2>9. n \notin detached => Kept(r) BY <2>3, <2>8, CleanTransit DEF Clean
  <2> HIDE DEF r
  <2> QED BY <1>0, <1>2, <2>1, <2>2, <2>5, <2>7, <2>9, BecomesNews, ZenonT(30)
             DEF r, p
<1> QED BY <1>5, <1>6 DEF Step

\* What the links and the operator do to a node: news is pending then.
LEMMA PendingNews ==
  ASSUME IInv, NewsInv, NEW n \in Node, NEW r \in NodeRecords,
         Becomes(n, r, wire[n]), open' = open,
         detached \subseteq detached', detached' \subseteq detached \cup {n},
         r.out = <<>>, r.stage = node[n].stage, r.wait = node[n].wait,
         r.need = node[n].need, r.pif = node[n].pif,
         n \notin detached' =>
           /\ Kept(r) /\ (r.bound => r.changed)
           /\ r.bound /\ ~r.cfg => node[n].bound /\ ~node[n].cfg
  PROVE  NewsInv'
<1> DEFINE p == Peer(n)
           m == node[n]
<1>0. TypeOK /\ wire[p] \in Seq(Msgs) BY PeerNode DEF IInv, TypeOK
<1>1. n \notin open => Away(r, wire[n]) BY Zenon DEF NewsInv, Away
<1>2. ASSUME open = Node
      PROVE  Whole(n, r, node[p], wire[n], wire[p] \o r.out,
                   n \notin detached', p \notin detached)
  <2>1. Whole(n, m, node[p], wire[n], wire[p], n \notin detached, p \notin detached)
    BY <1>2, WholeOf, ZenonT(30) DEF NewsInv
  <2>2. wire[p] \o r.out = wire[p]
    <3>1. r.out = <<>> OBVIOUS
    <3>2. \A t \in Seq(Msgs) : t \o <<>> = t BY ConcatEmptySeq
    <3> QED BY <1>0, <3>1, <3>2
  <2> DEFINE o == node[p]
             x == wire[n]
             y == wire[p]
  <2> HIDE DEF m, o, x, y, p
  <2>3. Both(n, r, o, x, y) BY <2>1, ZenonT(30)
                               DEF Whole, Both, Joint, m, o, x, y
  <2>4. n \notin detached' => Side(n, r, x, y, o)
    BY <2>1, ZenonT(30) DEF Whole, Side, News, Acked, Announced, m, o, x, y
  <2>5. p \notin detached => Side(p, o, y, x, r)
    BY <2>1, Zenon DEF Whole, Side, News, Acked, m, o, x, y, p
  <2> QED BY <2>2, <2>3, <2>4, <2>5, ZenonT(30) DEF Whole, o, x, y, p
<1> QED BY <1>0, <1>1, <1>2, BecomesNews, ZenonT(30)

LEMMA DisturbNews ==
  ASSUME IInv, NewsInv, NEW n \in Node, Disturb(n)
  PROVE  NewsInv'
<1> DEFINE m == node[n]
<1>0. /\ m \in NodeRecords /\ m.out = <<>> /\ TypeOK
      /\ n \notin detached => Kept(m)
  BY Zenon DEF IInv, TypeOK, NewsInv
<1>1. CASE link_change(n)
  <2> DEFINE b == ~m.link
             f == [m EXCEPT !.link = b]
             h == state_handler(m, b)
             r == IF m.bound THEN h ELSE f
  <2>1. b \in BOOLEAN /\ m.link # b BY <1>0 DEF NodeRecords
  <2>2. Becomes(n, r, wire[n]) /\ UNCHANGED <<open, peerlink, detached>>
    BY <1>1, Zenon DEF link_change
  <2> HIDE DEF b
  <2>3. /\ h \in NodeRecords /\ h.changed /\ h.bound = m.bound
        /\ h.purge = m.purge /\ h.stage = m.stage /\ h.cfg = m.cfg
        /\ h.wait = m.wait /\ h.need = m.need /\ h.pif = m.pif /\ h.out = m.out
        /\ h.tdis /\ ~m.tdis => m.bound /\ m.stage = "EXCHANGE"
    <3>1. /\ h \in NodeRecords /\ h.changed = (m.changed \/ m.link # b)
          /\ h.bound = m.bound
          /\ h.purge = m.purge /\ h.stage = m.stage /\ h.cfg = m.cfg
          /\ h.wait = m.wait /\ h.need = m.need /\ h.pif = m.pif /\ h.out = m.out
          /\ h.tdis /\ ~m.tdis => m.bound /\ m.stage = "EXCHANGE" /\ ~b
      BY <1>0, <2>1, StateEffect
    <3>2. (m.changed \/ m.link # b) = TRUE BY <2>1
    <3> HIDE DEF h
    <3> QED BY <3>1, <3>2, ZenonT(30)
  <2>4. /\ f \in NodeRecords /\ f.changed = m.changed /\ f.bound = m.bound
        /\ f.purge = m.purge /\ f.stage = m.stage /\ f.cfg = m.cfg
        /\ f.wait = m.wait /\ f.need = m.need /\ f.pif = m.pif /\ f.out = m.out
        /\ f.tdis = m.tdis
    BY <1>0, <2>1, ZenonT(30) DEF NodeRecords
  <2> HIDE DEF h, f
  <2>5. Kept(m) => Kept(r) BY <2>3, <2>4, Zenon DEF Kept
  <2>6. /\ r \in NodeRecords /\ (r.bound => r.changed) /\ r.bound = m.bound
        /\ r.stage = m.stage /\ r.cfg = m.cfg
        /\ r.wait = m.wait /\ r.need = m.need /\ r.pif = m.pif /\ r.out = m.out
    BY <2>3, <2>4, ZenonT(30)
  <2> HIDE DEF r
  <2> QED BY <1>0, <2>2, <2>5, <2>6, PendingNews
<1>2. CASE attach(n)
  <2> DEFINE k == [m EXCEPT !.bound = TRUE, !.cfg = TRUE, !.purge = FALSE]
             r == isolate_from_lif(k, k.link)
  <2>1. Becomes(n, r, wire[n]) /\ UNCHANGED <<open, peerlink, detached>> /\ ~m.bound
    BY <1>2 DEF attach
  <2>2. /\ k \in NodeRecords /\ k.bound /\ k.cfg /\ ~k.purge
        /\ k.changed = m.changed /\ k.tdis = m.tdis
        /\ k.stage = m.stage /\ k.wait = m.wait /\ k.need = m.need
        /\ k.pif = m.pif /\ k.out = m.out
    BY <1>0, ZenonT(30) DEF NodeRecords
  <2> HIDE DEF k
  <2>3. k.link \in BOOLEAN BY <2>2 DEF NodeRecords
  <2>4. Quiet(k, r) /\ r.tdis = k.tdis BY <2>2, <2>3, IsoEffect, SMTT(20)
  <2> HIDE DEF r
  <2>5. Kept(m) => Kept(r) /\ r.changed
    BY <2>1, <2>2, <2>4 DEF Kept, Quiet, SamePort
  <2>6. /\ r \in NodeRecords /\ r.cfg /\ r.stage = m.stage /\ r.wait = m.wait
        /\ r.need = m.need /\ r.pif = m.pif /\ r.out = <<>>
    BY <1>0, <2>2, <2>4, ZenonT(30) DEF Quiet, SamePort
  <2> QED BY <1>0, <2>1, <2>5, <2>6, PendingNews
<1>3. CASE detach(n)
  <2> DEFINE i == [m EXCEPT !.iso = FALSE]
             d == IF m.stage = "EXCHANGE" THEN i ELSE m
             k == IF peerlink THEN d ELSE enable_traffic(d)
             b == k.stage = "EXCHANGE"
             r == [k EXCEPT !.bound = FALSE, !.purge = b]
  <2>1. /\ Becomes(n, r, wire[n]) /\ UNCHANGED <<open, peerlink>>
        /\ detached' = detached \cup {n}
    BY <1>3 DEF detach, intf_detach_handler
  <2>2. Quiet(m, i) BY <1>0, Zenon DEF NodeRecords, Quiet, SamePort
  <2> HIDE DEF i
  <2>3. Quiet(m, d) BY <1>0, <2>2 DEF Quiet, SamePort
  <2> HIDE DEF d
  <2>4. Quiet(d, k)
    <3>1. Quiet(d, [d EXCEPT !.tdis = FALSE])
      BY <2>3, Zenon DEF NodeRecords, Quiet, SamePort
    <3>2. Quiet(d, d) BY <2>3 DEF Quiet, SamePort
    <3> QED BY <3>1, <3>2 DEF enable_traffic
  <2>5. b \in BOOLEAN OBVIOUS
  <2> HIDE DEF k, b
  <2>6. /\ r \in NodeRecords /\ r.stage = k.stage /\ r.wait = k.wait
        /\ r.need = k.need /\ r.pif = k.pif /\ r.out = k.out
    BY <2>4, <2>5, ZenonT(30) DEF NodeRecords, Quiet, SamePort
  <2> HIDE DEF r
  <2>7. /\ r.stage = m.stage /\ r.wait = m.wait
        /\ r.need = m.need /\ r.pif = m.pif /\ r.out = <<>>
    BY <1>0, <2>3, <2>4, <2>6 DEF Quiet, SamePort
  <2>8. n \in detached' BY <2>1, ZenonT(30)
  <2> QED BY <1>0, <2>1, <2>6, <2>7, <2>8, PendingNews
<1>4. CASE session_down(n)
  <2> DEFINE i == [m EXCEPT !.iso = FALSE]
             k == IF m.bound THEN enable_traffic(i) ELSE m
             r == [k EXCEPT !.stage = "INIT", !.need = FALSE, !.purge = FALSE,
                            !.pif = "none"]
             c == [r EXCEPT !.out = <<>>]
  <2>1. /\ Becomes(n, r, <<>>) /\ open' = open \ {n}
        /\ UNCHANGED <<peerlink, detached>>
    BY <1>4 DEF session_down, peer_disconn_handler
  <2>2. Quiet(m, i) BY <1>0, Zenon DEF NodeRecords, Quiet, SamePort
  <2> HIDE DEF i
  <2>3. Quiet(m, k) /\ (m.bound => ~k.tdis) /\ (~m.bound => k.tdis = m.tdis)
    <3>1. Quiet(i, [i EXCEPT !.tdis = FALSE]) /\ ~[i EXCEPT !.tdis = FALSE].tdis
      BY <2>2, Zenon DEF NodeRecords, Quiet, SamePort
    <3>2. m.bound => k = [i EXCEPT !.tdis = FALSE]
      BY <2>2 DEF enable_traffic, Quiet, SamePort
    <3>3. ~m.bound => k = m OBVIOUS
    <3> HIDE DEF k
    <3> QED BY <1>0, <2>2, <3>1, <3>2, <3>3, Zenon DEF Quiet, SamePort
  <2> HIDE DEF k
  <2>4. /\ r \in NodeRecords /\ r.stage = "INIT" /\ ~r.need /\ ~r.purge
        /\ r.pif = "none" /\ r.bound = k.bound /\ r.cfg = k.cfg
        /\ r.changed = k.changed /\ r.tdis = k.tdis
    BY <2>3, ZenonT(30) DEF NodeRecords, Stages, Quiet, SamePort
  <2> HIDE DEF r
  <2>5. Away(r, <<>>) BY <2>4 DEF Away
  <2>6. Kept(m) => Kept(r) BY <2>3, <2>4 DEF Kept, Quiet, SamePort
  <2>7. Away(c, <<>>) /\ (Kept(r) => Kept(c)) BY <2>4, <2>5, Written
  <2> HIDE DEF c
  <2>8. node'[n] = c /\ wire'[n] = <<>> BY <2>1 DEF Becomes, IInv, TypeOK, c
  <2>9. \A j \in Node \ {n} : /\ node'[j] = node[j]
                              /\ j \notin open => wire'[j] = wire[j]
    BY <2>1 DEF Becomes, IInv, TypeOK
  <2>10. ASSUME NEW j \in Node \ open' PROVE Away(node'[j], wire'[j])
    <3>1. CASE j = n BY <2>7, <2>8, <3>1
    <3>2. CASE j # n
      <4>1. j \notin open BY <2>1, <2>10, <3>2
      <4>2. Away(node[j], wire[j]) BY <4>1 DEF NewsInv
      <4> QED BY <2>9, <3>2, <4>1, <4>2
    <3> QED BY <3>1, <3>2
  <2>11. ASSUME NEW j \in Node \ detached' PROVE Kept(node'[j])
    <3>1. j \notin detached /\ Kept(node[j]) BY <2>1, <2>11, ZenonT(30)
                                                DEF NewsInv
    <3>2. CASE j = n BY <2>6, <2>7, <2>8, <3>1, <3>2, ZenonT(30)
    <3>3. CASE j # n BY <2>9, <3>1, <3>3
    <3> QED BY <3>2, <3>3, ZenonT(30)
  <2>12. open' # Node BY <2>1, ZenonT(30)
  <2> QED BY <2>10, <2>11, <2>12 DEF NewsInv
<1> QED BY <1>1, <1>2, <1>3, <1>4, ZenonT(30) DEF Disturb

\* A new session starts with nothing under way.
LEMMA SessionNews ==
  ASSUME IInv, NewsInv, session_up
  PROVE  NewsInv'
<1>1. UNCHANGED <<node, wire, detached>> /\ open = {} /\ open' = Node
  BY DEF session_up
<1>2. \A n \in Node : Away(node[n], wire[n]) BY <1>1 DEF NewsInv
<1>3. \A n \in Node \ detached : Kept(node[n]) BY Zenon DEF NewsInv
<1>4. Joint(node[Active], node[Standby], wire[Active], wire[Standby])
  BY <1>2 DEF Away, Joint, Node
<1>5. ASSUME NEW n \in Node \ detached
      PROVE  Side(n, node[n], wire[n], wire[Peer(n)], node[Peer(n)])
  <2>1. node[n].stage = "INIT" /\ wire[Peer(n)] = <<>>
    BY <1>2, PeerNode DEF Away
  <2>2. ~Announced(n, node[n]) BY <2>1 DEF Announced
  <2>3. ~Has(wire[Peer(n)], "PURGE") BY <2>1, OneWord
  <2> QED BY <1>3, <2>2, <2>3 DEF Side
<1> QED BY <1>1, <1>3, <1>4, <1>5 DEF NewsInv

LEMMA NewsInductive == Spec => [](IInv /\ NewsInv)
<1>1. Init => NewsInv
  <2> SUFFICES ASSUME Init PROVE NewsInv OBVIOUS
  <2>1. \A n \in Node : node[n] = NodeInit /\ wire[n] = <<>> BY ZenonT(30)
                                                                DEF Init
  <2>2. Away(NodeInit, <<>>) /\ Kept(NodeInit) BY DEF Away, Kept, NodeInit
  <2>3. open # Node BY DEF Init, Node
  <2> QED BY <2>1, <2>2, <2>3 DEF NewsInv
<1>2. IInv /\ NewsInv /\ [Next]_vars => NewsInv'
  <2> SUFFICES ASSUME IInv, NewsInv, [Next]_vars PROVE NewsInv' OBVIOUS
  <2>1. ASSUME NEW n \in Node, Step(n) PROVE NewsInv' BY <2>1, StepNews
  <2>2. ASSUME NEW n \in Node, Disturb(n) PROVE NewsInv' BY <2>2, DisturbNews
  <2>3. CASE session_up BY <2>3, SessionNews
  <2>4. CASE UNCHANGED vars BY <2>4 DEF vars, NewsInv
  <2> QED BY <2>1, <2>2, <2>3, <2>4 DEF Next
<1> QED BY <1>1, <1>2, Inductive, PTL DEF Spec

\* What the invariant says of a node whose peer has nothing left to read.
LEMMA SettledSide ==
  ASSUME IInv, NewsInv, Settled, NEW n \in Node \ detached, node[n].bound
  PROVE  /\ node[Peer(n)].pif = Pif(node[n].link)
         /\ node[n].link => ~node[n].tdis
<1> DEFINE m == node[n]
           o == node[Peer(n)]
<1>1. /\ m.stage = "EXCHANGE" /\ o.stage = "EXCHANGE" /\ wire[n] = <<>>
      /\ wire[Peer(n)] = <<>> /\ ~m.cfg /\ ~m.changed
  BY PeerNode, SMTT(20) DEF Settled
<1>2. Side(n, m, <<>>, <<>>, o) BY <1>1 DEF NewsInv, Settled
<1>3. Announced(n, m) BY <1>1 DEF Announced
<1>4. Len(<<>>) = 0 BY Zenon
<1> HIDE DEF m, o
<1>5. Told(<<>>, o.pif, m.link) BY <1>1, <1>2, <1>3 DEF Side, News, m
<1>6. o.pif = Pif(m.link) BY <1>4, <1>5 DEF Told
<1>7. ~Has(<<>>, "ACK") /\ ~UpLast(<<>>) BY <1>4 DEF Has, UpLast
<1>8. m.link => ~m.tdis BY <1>1, <1>2, <1>3, <1>7 DEF Side, Acked, m
<1> QED BY <1>6, <1>8, Zenon DEF m, o

\* Once everything is handled the peer knows the state of a PortChannel that
\* was never detached, whatever flaps, stages and reconnects led there and
\* however many messages were under way.
THEOREM PeerInformed == Spec => []PeerStateCurrent
<1>1. IInv /\ NewsInv => PeerStateCurrent
  BY SettledSide DEF PeerStateCurrent
<1> QED BY <1>1, NewsInductive, PTL

\* And its traffic is not left disabled: the ack it waits for is not lost.
THEOREM Restored == Spec => []TrafficRestored
<1>1. IInv /\ NewsInv => TrafficRestored
  BY SettledSide DEF TrafficRestored
<1> QED BY <1>1, NewsInductive, PTL
=============================================================================
