---------------------------- MODULE EventdProofs ----------------------------
(***************************************************************************)
(* Theorems about Eventd, for any number of publishers, cache size and     *)
(* stream of events and any order of requests: the cache has one owner at  *)
(* a time and heartbeats stay paused while events are cached; what is      *)
(* cached is what was published, whatever stock CACHE_START gives and      *)
(* wherever the capture socket was connected; and what is read after       *)
(* CACHE_STOP is what was cached.                                          *)
(***************************************************************************)
EXTENDS Eventd, FiniteSetTheorems, WellFoundedInduction, TLAPS

\* OneOwner and PausedWhileCaching with what makes them inductive: a capture
\* that the main thread is creating has been given no signal, START_CAPTURE
\* is in force only while the main thread serves it, and no thread outlives
\* its capture_service.
Signals ==
  /\ main \in {"startup", "poll"} => ctrl = "NEED_INIT" /\ have
  /\ main \in {"join_stop", "join_reset"} => ctrl = "STOP"
  /\ main = "join_init" => ctrl # "START"
  /\ main = "drain" => ctrl = "START"
  /\ main = "startup" => paused
  /\ ctrl = "START" => have /\ main \in {"recv", "drain", "exit"} /\ paused
  /\ ~have => thr = "done"
  /\ thr \in {"check", "recv"} => ctrl \in {"START", "STOP"}

LEMMA SignalsInit == Init => Signals
  BY DEF Init, Signals

\* A request that is only read, or served at once.
LEMMA SignalsRequest == Signals /\ Request => Signals'
<1> SUFFICES ASSUME Signals, Request PROVE Signals'
  OBVIOUS
<1>1. CASE req_init
  BY <1>1 DEF req_init, Main, Signals
<1>2. CASE req_start
  BY <1>2 DEF req_start, Signals
<1>3. CASE req_start_refused
  BY <1>3 DEF req_start_refused, Signals
<1>4. CASE req_stop
  BY <1>4 DEF req_stop, Main, Signals
<1>5. CASE req_stop_refused
  BY <1>5 DEF req_stop_refused, Main, Signals
<1>6. CASE req_read
  BY <1>6 DEF req_read, Signals
<1>7. CASE req_refused
  BY <1>7 DEF req_refused, Signals
<1>8. CASE req_exit
  BY <1>8 DEF req_exit, Main, Signals
<1> QED
  BY <1>1, <1>2, <1>3, <1>4, <1>5, <1>6, <1>7, <1>8 DEF Request

\* The rest of a request, and the startup.
LEMMA SignalsServe == Signals /\ Serve => Signals'
<1> SUFFICES ASSUME Signals, Serve PROVE Signals'
  OBVIOUS
<1>1. CASE startup
  BY <1>1 DEF startup, Main, Signals
<1>2. CASE startup_fail
  BY <1>2 DEF startup_fail, Main, Signals
<1>3. CASE create
  BY <1>3 DEF create, Main, Signals
<1>4. CASE poll
  BY <1>4 DEF poll, Main, Signals
<1>5. CASE drained
  BY <1>5 DEF drained, Main, Signals
<1>6. CASE join_stop
  BY <1>6 DEF join_stop, Main, Signals
<1>7. CASE join_reset
  BY <1>7 DEF join_reset, Main, Signals
<1>8. CASE exited
  BY <1>8 DEF exited, Main, Signals
<1> QED
  BY <1>1, <1>2, <1>3, <1>4, <1>5, <1>6, <1>7, <1>8 DEF Serve

\* The capture thread.
LEMMA SignalsCaching == Signals /\ Caching => Signals'
<1> USE DEF Thread, requestvars
<1> SUFFICES ASSUME Signals, Caching PROVE Signals'
  OBVIOUS
<1>1. CASE cap_connect
  BY <1>1 DEF cap_connect, Signals
<1>2. CASE cap_subscribed
  BY <1>2 DEF cap_subscribed, Signals
<1>3. CASE cap_fail
  BY <1>3 DEF cap_fail, Signals
<1>4. CASE cap_start
  BY <1>4 DEF cap_start, Signals
<1>5. CASE cap_check
  BY <1>5 DEF cap_check, Signals
<1>6. CASE cap_timeout
  BY <1>6 DEF cap_timeout, Signals
<1>7. CASE cap_event
  BY <1>7 DEF cap_event, Signals
<1> QED
  BY <1>1, <1>2, <1>3, <1>4, <1>5, <1>6, <1>7 DEF Caching

LEMMA SignalsStep == Signals /\ [Next]_vars => Signals'
<1> SUFFICES ASSUME Signals, [Next]_vars PROVE Signals'
  OBVIOUS
<1>1. ASSUME NEW r \in Rid, publish(r) PROVE Signals'
  BY <1>1 DEF publish, requestvars, Signals
<1>2. CASE UNCHANGED vars
  BY <1>2 DEF vars, requestvars, Signals
<1> QED
  BY <1>1, <1>2, SignalsRequest, SignalsServe, SignalsCaching DEF Next

LEMMA SignalsAlways == Spec => []Signals
  BY SignalsInit, SignalsStep, PTL DEF Spec

\* The vectors and maps of capture_service are never handled by the capture
\* thread and the main thread at once, whatever the order of requests and
\* wherever do_capture is when m_ctrl changes.
THEOREM SingleOwner == Spec => []OneOwner
<1>1. Signals => OneOwner
  BY DEF Signals, OneOwner
<1> QED
  BY <1>1, SignalsAlways, PTL

\* Heartbeats stay paused as long as a capture_service is in START_CAPTURE.
THEOREM HeartbeatPaused == Spec => []PausedWhileCaching
<1>1. Signals => PausedWhileCaching
  BY DEF Signals, PausedWhileCaching
<1> QED
  BY <1>1, SignalsAlways, PTL

(***************************************************************************)
(* The stream and the cache.                                               *)
(***************************************************************************)
Events == Rid \X (Nat \ {0})

\* s is the sequence number of the last event of r in q[lo..hi].
LastIn(q, lo, hi, r, s) ==
  \/ s = 0 /\ \A i \in lo..hi : q[i][1] # r
  \/ \E i \in lo..hi : /\ q[i] = <<r, s>>
                       /\ \A j \in (i + 1)..hi : q[j][1] # r

\* The events of a runtime id have rising numbers, and one of them is last.
Ascending(q) ==
  \A i, j \in 1..Len(q) : i < j /\ q[i][1] = q[j][1] => q[i][2] < q[j][2]

Ordered(q) ==
  /\ q \in Seq(Events)
  /\ Ascending(q)
  /\ \A r \in Rid : \A lo \in 1..(Len(q) + 1) : \A hi \in 0..Len(q) :
       \E s \in Nat : LastIn(q, lo, hi, r, s)

CapType ==
  cap \in [run : BOOLEAN, next : Nat \ {0}, events : Seq(Events),
           last : [Rid -> Nat], listed : BOOLEAN, missed : Nat,
           held : BOOLEAN, pre : [Rid -> Nat],
           state : {"INIT", "ACTIVE", "LAST"}, cnt : Int, over : Nat,
           lo : Nat \ {0}, hi : Nat]

\* What CAP_STATE_INIT relies on to tell the events of the stock: those that
\* the socket still holds are at most m_pre_exist_id, whose numbers are of
\* the stock, and init_cnt does not run out before them.
InitInv ==
  cap.state = "INIT" =>
    /\ \A i \in cap.next..cap.hi : stream[i][2] <= cap.pre[stream[i][1]]
    /\ \A r \in Rid : cap.pre[r] # 0 =>
         \E i \in cap.lo..cap.hi : stream[i] = <<r, cap.pre[r]>>
    /\ thr \in {"check", "recv"} => cap.cnt >= cap.hi - cap.next + 1

PlaceInv ==
  /\ cap.lo <= cap.next /\ cap.next <= Len(stream) + 1
  /\ cap.lo <= cap.hi + 1 /\ cap.hi <= Len(stream)
  /\ cap.state = "ACTIVE" => cap.hi < cap.next
  /\ cap.state = "LAST" => cap.lo + Len(cap.events) <= cap.next
  /\ cap.state # "LAST" =>
       cap.last = NoSeq /\ cap.over = 0 /\ cap.missed = 0 /\ ~cap.listed
  /\ cap.listed => ~cap.held
  /\ ctrl \in {"NEED_INIT", "INIT"} =>
       cap.state = "INIT" /\ cap.lo = cap.next /\ cap.hi = cap.next - 1
  /\ thr = "new" => cap = Capture /\ main \in {"startup", "poll"}

CacheInv == /\ Ordered(stream) /\ CapType /\ InitInv /\ PlaceInv
            /\ CacheExact /\ MissedCounted

(***************************************************************************)
(* Runs of the stream                                                      *)
(***************************************************************************)
LEMMA SubSeqIs ==
  ASSUME NEW q \in Seq(Events), NEW lo \in Nat \ {0}, NEW hi \in Nat,
         lo <= hi + 1, hi <= Len(q)
  PROVE  /\ SubSeq(q, lo, hi) \in Seq(Events) /\ Len(SubSeq(q, lo, hi)) = hi - lo + 1
         /\ \A i \in 1..(hi - lo + 1) : SubSeq(q, lo, hi)[i] = q[lo + i - 1]
  OBVIOUS

LEMMA LastIs ==
  ASSUME Ordered(stream), NEW r \in Rid, NEW lo \in 1..(Len(stream) + 1),
         NEW hi \in 0..Len(stream), lo <= hi + 1, NEW s \in Nat, LastIn(stream, lo, hi, r, s)
  PROVE  LastSeq(SubSeq(stream, lo, hi), r) = s
<1> DEFINE q == SubSeq(stream, lo, hi)
           K == {k \in 1..Len(q) : q[k][1] = r}
           mine == {q[i][2] : i \in K}
<1>1. /\ Len(q) = hi - lo + 1 /\ q \in Seq(Events)
      /\ \A i \in 1..(hi - lo + 1) : q[i] = stream[lo + i - 1]
  BY SubSeqIs DEF Ordered
<1>2. CASE s = 0 /\ \A i \in lo..hi : stream[i][1] # r
  <2>1. K = {} BY <1>1, <1>2
  <2>2. mine = {} BY <2>1, ZenonT(30)
  <2> QED BY <1>2, <2>2 DEF LastSeq
<1>3. ASSUME NEW i \in lo..hi, stream[i] = <<r, s>>,
             \A j \in (i + 1)..hi : stream[j][1] # r
      PROVE  LastSeq(q, r) = s
  <2>1. i - lo + 1 \in 1..Len(q) /\ q[i - lo + 1] = <<r, s>> BY <1>1, <1>3
  <2>2. i - lo + 1 \in K BY <2>1
  <2>3. q[i - lo + 1][2] = s BY <2>1
  <2>4. s \in mine BY <2>2, <2>3, ZenonT(30)
  <2>5. ASSUME NEW k \in K PROVE q[k][2] <= s /\ q[k][2] \in Nat
    <3>1. k \in 1..Len(q) /\ q[k][1] = r OBVIOUS
    <3>2. lo + k - 1 \in lo..hi /\ q[k] = stream[lo + k - 1]
      <4>1. k \in 1..(hi - lo + 1) BY <1>1, <3>1
      <4>2. lo + k - 1 \in lo..hi BY <4>1
      <4> QED BY <1>1, <4>1, <4>2
    <3>3. lo + k - 1 <= i BY <1>3, <3>1, <3>2
    <3>4. q[k] \in Events BY <1>1, <3>1
    <3>5. stream[i][1] = r /\ stream[i][2] = s BY <1>3
    <3>6. stream[lo + k - 1][1] = r /\ stream[lo + k - 1][2] \in Nat
      BY <3>1, <3>2, <3>4 DEF Events
    <3>7. lo + k - 1 < i => stream[lo + k - 1][2] < s
      <4>1. lo + k - 1 \in 1..Len(stream) /\ i \in 1..Len(stream) BY <3>2
      <4>2. Ascending(stream) BY DEF Ordered
      <4> QED BY <3>5, <3>6, <4>1, <4>2, SMTT(20) DEF Ascending
    <3> QED BY <3>2, <3>3, <3>5, <3>6, <3>7
  <2>6. \A t \in mine : t <= s /\ t \in Nat BY <2>5, ZenonT(30)
  <2> HIDE DEF mine
  <2>7. \A t \in mine : (\A u \in mine : u <= t) => t = s BY <2>4, <2>6
  <2>8. (CHOOSE t \in mine : \A u \in mine : u <= t) = s BY <2>4, <2>6, <2>7,
                                                            ZenonT(30)
  <2>9. LastSeq(q, r) = IF mine = {} THEN 0 ELSE CHOOSE t \in mine : \A u \in mine : u <= t
    BY DEF LastSeq, mine
  <2> QED BY <2>4, <2>8, <2>9
<1> QED BY <1>2, <1>3 DEF LastIn

\* A longer stream has the same runs.
LEMMA Extended ==
  ASSUME NEW q \in Seq(Events), NEW e \in Events, NEW lo \in Nat \ {0}, NEW hi \in Nat,
         lo <= hi + 1, hi <= Len(q)
  PROVE  SubSeq(Append(q, e), lo, hi) = SubSeq(q, lo, hi)
<1>1. Append(q, e) \in Seq(Events) /\ Len(Append(q, e)) = Len(q) + 1
      /\ \A i \in 1..Len(q) : Append(q, e)[i] = q[i]
  OBVIOUS
<1>2. /\ SubSeq(Append(q, e), lo, hi) \in Seq(Events)
      /\ Len(SubSeq(Append(q, e), lo, hi)) = hi - lo + 1
      /\ \A i \in 1..(hi - lo + 1) : SubSeq(Append(q, e), lo, hi)[i] = Append(q, e)[lo + i - 1]
  BY <1>1, SubSeqIs
<1>3. /\ SubSeq(q, lo, hi) \in Seq(Events) /\ Len(SubSeq(q, lo, hi)) = hi - lo + 1
      /\ \A i \in 1..(hi - lo + 1) : SubSeq(q, lo, hi)[i] = q[lo + i - 1]
  BY SubSeqIs
<1>4. \A i \in 1..(hi - lo + 1) : SubSeq(Append(q, e), lo, hi)[i] = SubSeq(q, lo, hi)[i]
  BY <1>1, <1>2, <1>3
<1> DEFINE a == SubSeq(Append(q, e), lo, hi)
           b == SubSeq(q, lo, hi)
<1>5. a \in Seq(Events) /\ b \in Seq(Events) /\ Len(a) = Len(b) BY <1>2, <1>3
<1>6. \A i \in 1..Len(b) : a[i] = b[i] BY <1>3, <1>4
<1> HIDE DEF a, b
<1>7. a = b BY <1>5, <1>6
<1> QED BY <1>7 DEF a, b

\* A run grows by the event that follows it.
LEMMA Grown ==
  ASSUME NEW q \in Seq(Events), NEW lo \in Nat \ {0}, NEW hi \in Nat,
         lo <= hi + 1, hi < Len(q)
  PROVE  Append(SubSeq(q, lo, hi), q[hi + 1]) = SubSeq(q, lo, hi + 1)
<1> DEFINE a == Append(SubSeq(q, lo, hi), q[hi + 1])
           b == SubSeq(q, lo, hi + 1)
<1>1. /\ SubSeq(q, lo, hi) \in Seq(Events) /\ Len(SubSeq(q, lo, hi)) = hi - lo + 1
      /\ \A i \in 1..(hi - lo + 1) : SubSeq(q, lo, hi)[i] = q[lo + i - 1]
  BY SubSeqIs
<1>2. /\ b \in Seq(Events) /\ Len(b) = hi - lo + 2
      /\ \A i \in 1..(hi - lo + 2) : b[i] = q[lo + i - 1]
  BY SubSeqIs
<1>3. q[hi + 1] \in Events OBVIOUS
<1>4. /\ a \in Seq(Events) /\ Len(a) = hi - lo + 2
      /\ \A i \in 1..(hi - lo + 1) : a[i] = SubSeq(q, lo, hi)[i]
      /\ a[hi - lo + 2] = q[hi + 1]
  BY <1>1, <1>3
<1> HIDE DEF a, b
<1>5. ASSUME NEW i \in 1..(hi - lo + 2) PROVE a[i] = b[i]
  <2>1. b[i] = q[lo + i - 1] BY <1>2
  <2>2. CASE i \in 1..(hi - lo + 1)
    <3>1. a[i] = SubSeq(q, lo, hi)[i] BY <1>4, <2>2
    <3>2. SubSeq(q, lo, hi)[i] = q[lo + i - 1] BY <1>1, <2>2
    <3> QED BY <2>1, <3>1, <3>2
  <2>3. CASE i = hi - lo + 2
    <3>1. lo + i - 1 = hi + 1 BY <2>3
    <3> QED BY <1>4, <2>1, <2>3, <3>1
  <2> QED BY <2>2, <2>3
<1>6. a = b BY <1>2, <1>4, <1>5
<1> QED BY <1>6 DEF a, b

LEMMA OrderedPublish ==
  ASSUME Ordered(stream), NEW r \in Rid, publish(r)
  PROVE  /\ Ordered(stream') /\ Len(stream') = Len(stream) + 1
         /\ \A i \in 1..Len(stream) : stream'[i] = stream[i]
         /\ \E e \in Events : stream' = Append(stream, e)
<1> DEFINE n == Len(stream)
           s == Published(r)
           e == <<r, s + 1>>
<1>1. n \in Nat /\ stream \in Seq(Events) BY DEF Ordered
<1>2. PICK m \in Nat : LastIn(stream, 1, n, r, m) BY <1>1 DEF Ordered
<1>3. SubSeq(stream, 1, n) = stream
  <2>1. /\ SubSeq(stream, 1, n) \in Seq(Events) /\ Len(SubSeq(stream, 1, n)) = n
        /\ \A i \in 1..n : SubSeq(stream, 1, n)[i] = stream[i]
    BY <1>1, SubSeqIs
  <2> QED BY <1>1, <2>1
<1>4. LastSeq(SubSeq(stream, 1, n), r) = m BY <1>1, <1>2, LastIs
<1>5. s = m BY <1>3, <1>4, ZenonT(30) DEF Published
<1>6. e \in Events /\ e[1] = r /\ e[2] = m + 1 BY <1>5 DEF Events
<1>7. stream' = Append(stream, e) BY DEF publish
<1> HIDE DEF e, s, n
<1>8. /\ stream' \in Seq(Events) /\ Len(stream') = n + 1 /\ stream'[n + 1] = e
      /\ \A i \in 1..n : stream'[i] = stream[i]
  BY <1>1, <1>6, <1>7 DEF n
<1>9. \A i \in 1..n : stream[i][1] \in Rid /\ stream[i][2] \in Nat
  BY <1>1 DEF Events, n
<1>10. ASSUME NEW i \in 1..n, stream[i][1] = r PROVE stream[i][2] < m + 1
  <2>1. PICK k \in 1..n : stream[k] = <<r, m>> /\ \A j \in (k + 1)..n : stream[j][1] # r
    BY <1>2, <1>10 DEF LastIn
  <2>2. i <= k BY <1>1, <1>10, <2>1
  <2>3. stream[k][1] = r /\ stream[k][2] = m BY <2>1
  <2>4. i < k => stream[i][2] < m BY <1>10, <2>3 DEF Ordered, Ascending, n
  <2> QED BY <1>9, <2>2, <2>3, <2>4
<1>11. ASSUME NEW i \in 1..(n + 1), NEW j \in 1..(n + 1), i < j,
              stream'[i][1] = stream'[j][1]
       PROVE  stream'[i][2] < stream'[j][2]
  <2>1. CASE j \in 1..n
    <3>1. i \in 1..n BY <1>1, <1>11, <2>1
    <3>2. stream'[i] = stream[i] /\ stream'[j] = stream[j] BY <1>8, <2>1, <3>1
    <3>3. Ascending(stream) BY DEF Ordered
    <3> QED BY <1>11, <2>1, <3>1, <3>2, <3>3 DEF Ascending, n
  <2>2. CASE j = n + 1
    <3>1. i \in 1..n BY <1>1, <1>11, <2>2
    <3> QED BY <1>6, <1>8, <1>10, <1>11, <2>2, <3>1
  <2> QED BY <1>1, <2>1, <2>2
<1>12. ASSUME NEW p \in Rid, NEW lo \in 1..(n + 2), NEW hi \in 0..(n + 1)
       PROVE  \E t \in Nat : LastIn(stream', lo, hi, p, t)
  <2>1. CASE lo = n + 2 \/ hi < lo
    <3>1. lo..hi = {} BY <1>1, <2>1
    <3> QED BY <3>1 DEF LastIn
  <2>2. CASE lo <= n + 1 /\ hi <= n
    <3>1. PICK t \in Nat : LastIn(stream, lo, hi, p, t) BY <1>1, <2>2 DEF Ordered, n
    <3>2. lo..hi \subseteq 1..n /\ \A i \in lo..hi : (i + 1)..hi \subseteq 1..n BY <1>1, <2>2
    <3>3. LastIn(stream', lo, hi, p, t) BY <1>8, <3>1, <3>2 DEF LastIn
    <3> QED BY <3>3
  <2>3. CASE lo <= n + 1 /\ hi = n + 1 /\ p = r
    <3>1. n + 1 \in lo..hi /\ (n + 1 + 1)..hi = {} BY <1>1, <2>3
    <3>2. stream'[n + 1] = <<r, m + 1>> BY <1>5, <1>8 DEF e
    <3>3. LastIn(stream', lo, hi, p, m + 1) BY <2>3, <3>1, <3>2 DEF LastIn
    <3> QED BY <3>3
  <2>4. CASE lo <= n + 1 /\ hi = n + 1 /\ p # r
    <3>1. PICK t \in Nat : LastIn(stream, lo, n, p, t) BY <1>1, <2>4 DEF Ordered, n
    <3>2. lo..n \subseteq 1..n /\ lo..hi = (lo..n) \cup {n + 1}
          /\ \A i \in lo..n : (i + 1)..n \subseteq 1..n /\ (i + 1)..hi = ((i + 1)..n) \cup {n + 1}
      BY <1>1, <2>4
    <3>3. stream'[n + 1][1] # p BY <1>6, <1>8, <2>4
    <3>4. CASE t = 0 /\ \A i \in lo..n : stream[i][1] # p
      <4>1. \A i \in lo..hi : stream'[i][1] # p BY <1>8, <3>2, <3>3, <3>4
      <4> QED BY <3>4, <4>1 DEF LastIn
    <3>5. ASSUME NEW i \in lo..n, stream[i] = <<p, t>>, \A j \in (i + 1)..n : stream[j][1] # p
          PROVE  LastIn(stream', lo, hi, p, t)
      <4>1. i \in lo..hi /\ stream'[i] = <<p, t>> BY <1>8, <3>2, <3>5
      <4>2. \A j \in (i + 1)..hi : stream'[j][1] # p BY <1>8, <3>2, <3>3, <3>5
      <4> QED BY <4>1, <4>2 DEF LastIn
    <3> QED BY <3>1, <3>4, <3>5 DEF LastIn
  <2> QED BY <1>1, <2>1, <2>2, <2>3, <2>4
<1>13. Ascending(stream')
  <2>1. \A i, j \in 1..(n + 1) :
          i < j /\ stream'[i][1] = stream'[j][1] => stream'[i][2] < stream'[j][2]
    BY <1>11
  <2>2. Len(stream') = n + 1 BY <1>8
  <2> QED BY <2>1, <2>2 DEF Ascending
<1>14. Ordered(stream') BY <1>1, <1>8, <1>12, <1>13 DEF Ordered
<1> QED BY <1>6, <1>7, <1>8, <1>14 DEF n

LEMMA EmptyRun ==
  ASSUME NEW q \in Seq(Events), NEW k \in 0..Len(q)
  PROVE  SubSeq(q, k + 1, k) = <<>>
<1>1. k + 1 \in Nat \ {0} /\ k \in Nat /\ k + 1 <= k + 1 /\ k <= Len(q) OBVIOUS
<1>2. SubSeq(q, k + 1, k) \in Seq(Events) /\ Len(SubSeq(q, k + 1, k)) = 0 BY <1>1, SubSeqIs
<1> QED BY <1>2

(***************************************************************************)
(* Steps that leave the cache as it is, or begin a new one                 *)
(***************************************************************************)
LEMMA Kept ==
  ASSUME CacheInv, CapType', UNCHANGED stream,
         cap'.next = cap.next, cap'.events = cap.events, cap'.last = cap.last,
         cap'.listed = cap.listed, cap'.missed = cap.missed, cap'.pre = cap.pre,
         cap'.state = cap.state, cap'.over = cap.over, cap'.lo = cap.lo, cap'.hi = cap.hi,
         cap'.state = "INIT" /\ thr' \in {"check", "recv"} =>
           cap'.cnt >= cap'.hi - cap'.next + 1,
         cap'.listed => ~cap'.held,
         ctrl' \in {"NEED_INIT", "INIT"} => ctrl \in {"NEED_INIT", "INIT"},
         thr' = "new" => cap' = Capture /\ main' \in {"startup", "poll"}
  PROVE  CacheInv'
<1>1. Ordered(stream)' BY DEF CacheInv
<1>2. InitInv' BY SMTT(20) DEF CacheInv, InitInv
<1>3. PlaceInv' BY DEF CacheInv, PlaceInv
<1>4. CacheExact' BY DEF CacheInv, CacheExact
<1>5. MissedCounted' BY ZenonT(30) DEF CacheInv, MissedCounted
<1> QED BY <1>1, <1>2, <1>3, <1>4, <1>5 DEF CacheInv

LEMMA CaptureFields ==
  /\ Capture.run = FALSE /\ Capture.next = 1 /\ Capture.events = <<>>
  /\ Capture.last = NoSeq /\ Capture.listed = FALSE /\ Capture.missed = 0
  /\ Capture.held = FALSE /\ Capture.pre = NoSeq /\ Capture.state = "INIT"
  /\ Capture.cnt = 0 /\ Capture.over = 0 /\ Capture.lo = 1 /\ Capture.hi = 0
  /\ NoSeq \in [Rid -> Nat] /\ \A r \in Rid : NoSeq[r] = 0
  BY DEF Capture, NoSeq

LEMMA CacheInit == Init => CacheInv
<1> SUFFICES ASSUME Init PROVE CacheInv OBVIOUS
<1>1. stream = <<>> /\ stream \in Seq(Events) /\ Len(stream) = 0 BY DEF Init
<1>2. Ordered(stream)
  <2>1. Ascending(stream) BY <1>1 DEF Ascending
  <2>2. ASSUME NEW r \in Rid, NEW lo \in 1..(Len(stream) + 1), NEW hi \in 0..Len(stream)
        PROVE  \E s \in Nat : LastIn(stream, lo, hi, r, s)
    <3>1. lo..hi = {} BY <1>1
    <3> QED BY <3>1 DEF LastIn
  <2> QED BY <1>1, <2>1, <2>2 DEF Ordered
<1>3. cap = Capture /\ thr = "new" /\ main = "startup" BY DEF Init
<1>4. CapType BY <1>3, CaptureFields DEF CapType, Capture
<1>5. InitInv BY <1>3, CaptureFields DEF InitInv
<1>6. PlaceInv BY <1>1, <1>3, CaptureFields DEF PlaceInv
<1>7. CacheExact
  <2>1. SubSeq(stream, 0 + 1, 0) = <<>> BY <1>1, EmptyRun
  <2>2. cap.lo + Len(cap.events) - 1 = 0 BY <1>3, CaptureFields
  <2> QED BY <1>1, <1>3, <2>1, <2>2, CaptureFields DEF CacheExact
<1>8. MissedCounted BY <1>3, CaptureFields DEF MissedCounted
<1> QED BY <1>2, <1>4, <1>5, <1>6, <1>7, <1>8 DEF CacheInv

LEMMA Renewed ==
  ASSUME CacheInv, UNCHANGED stream, cap' = Capture, thr' \notin {"check", "recv"},
         thr' = "new" => main' \in {"startup", "poll"}
  PROVE  CacheInv'
<1>1. stream' = stream /\ stream \in Seq(Events) /\ Len(stream) \in Nat
  BY DEF CacheInv, Ordered
<1>2. Ordered(stream)' BY DEF CacheInv
<1>3. CapType' BY CaptureFields DEF CapType, Capture
<1>4. InitInv' BY CaptureFields DEF InitInv
<1>5. PlaceInv' BY <1>1, CaptureFields DEF PlaceInv
<1>6. CacheExact'
  <2>1. SubSeq(stream, 0 + 1, 0) = <<>> BY <1>1, EmptyRun
  <2>2. cap'.lo + Len(cap'.events) - 1 = 0 BY CaptureFields
  <2> QED BY <1>1, <2>1, <2>2, CaptureFields DEF CacheExact
<1>7. MissedCounted' BY CaptureFields DEF MissedCounted
<1> QED BY <1>2, <1>3, <1>4, <1>5, <1>6, <1>7 DEF CacheInv

\* The end of m_events in the stream.
End == cap.lo + Len(cap.events) - 1

Bounds ==
  /\ Len(stream) \in Nat
  /\ cap.lo \in Nat \ {0} /\ cap.next \in Nat \ {0} /\ cap.hi \in Nat
  /\ Len(cap.events) \in Nat /\ End + 1 = cap.lo + Len(cap.events)
  /\ End \in Nat /\ cap.lo <= End + 1 /\ End <= Len(stream)
  /\ cap.lo <= cap.next /\ cap.next <= Len(stream) + 1
  /\ cap.lo <= cap.hi + 1 /\ cap.hi <= Len(stream)

Cached == /\ stream \in Seq(Events) /\ cap.events \in Seq(Events)
          /\ cap.events = SubSeq(stream, cap.lo, End)

LEMMA Ends == CacheInv => Bounds /\ Cached
<1> SUFFICES ASSUME CacheInv PROVE Bounds /\ Cached OBVIOUS
<1>1. stream \in Seq(Events) BY DEF CacheInv, Ordered
<1>2. /\ cap.lo \in Nat \ {0} /\ cap.next \in Nat \ {0} /\ cap.hi \in Nat
      /\ cap.events \in Seq(Events)
  BY DEF CacheInv, CapType
<1>3. Len(stream) \in Nat /\ Len(cap.events) \in Nat BY <1>1, <1>2
<1>4. End <= Len(stream) /\ cap.events = SubSeq(stream, cap.lo, End)
  BY DEF CacheInv, CacheExact, End
<1>5. /\ cap.lo <= cap.next /\ cap.next <= Len(stream) + 1
      /\ cap.lo <= cap.hi + 1 /\ cap.hi <= Len(stream)
  BY DEF CacheInv, PlaceInv
<1>6. End \in Nat /\ cap.lo <= End + 1 /\ End + 1 = cap.lo + Len(cap.events)
  <2>1. cap.lo \in Nat \ {0} BY <1>2
  <2>2. \A a \in Nat \ {0}, b \in Nat :
          a + b - 1 \in Nat /\ a <= (a + b - 1) + 1 /\ (a + b - 1) + 1 = a + b
    OBVIOUS
  <2> QED BY <1>3, <2>1, <2>2, ZenonT(30) DEF End
<1>7. Bounds BY <1>2, <1>3, <1>4, <1>5, <1>6 DEF Bounds
<1> QED BY <1>1, <1>2, <1>4, <1>7 DEF Cached

\* CacheExact after a step that leaves CAP_STATE_LAST out.
LEMMA ExactNow ==
  ASSUME UNCHANGED stream, NEW e \in Nat, e = cap'.lo + Len(cap'.events) - 1,
         e <= Len(stream), cap'.events = SubSeq(stream, cap'.lo, e),
         cap'.state # "LAST", e \in {cap'.hi, cap'.next - 1}, e >= cap'.hi, e >= cap'.next - 1
  PROVE  CacheExact'
  BY ZenonT(30) DEF CacheExact

\* CacheExact after a step to CAP_STATE_LAST or in it.
LEMMA ExactLast ==
  ASSUME UNCHANGED stream, NEW e \in Nat, e = cap'.lo + Len(cap'.events) - 1,
         e <= Len(stream), cap'.events = SubSeq(stream, cap'.lo, e), cap'.state = "LAST",
         cap'.last = [r \in Rid |-> LastSeq(SubSeq(stream, e + 1, cap'.next - 1), r)]
  PROVE  CacheExact'
  BY ZenonT(30) DEF CacheExact

\* m_events grows by the event that follows it in the stream.
LEMMA Appended ==
  ASSUME CacheInv, End < Len(stream)
  PROVE  /\ Append(cap.events, stream[End + 1]) = SubSeq(stream, cap.lo, End + 1)
         /\ Append(cap.events, stream[End + 1]) \in Seq(Events)
         /\ cap.lo + Len(Append(cap.events, stream[End + 1])) - 1 = End + 1
<1> DEFINE es == Append(cap.events, stream[End + 1])
<1>1. Bounds /\ Cached BY Ends
<1>2. es = SubSeq(stream, cap.lo, End + 1)
  <2>1. cap.lo \in Nat \ {0} /\ End \in Nat /\ cap.lo <= End + 1 BY <1>1 DEF Bounds
  <2>2. stream \in Seq(Events) /\ cap.events = SubSeq(stream, cap.lo, End) BY <1>1 DEF Cached
  <2>3. Append(SubSeq(stream, cap.lo, End), stream[End + 1]) = SubSeq(stream, cap.lo, End + 1)
    BY <2>1, <2>2, Grown, ZenonT(30)
  <2> QED BY <2>2, <2>3
<1>3. End + 1 \in Nat /\ cap.lo <= (End + 1) + 1 /\ End + 1 <= Len(stream)
  BY <1>1 DEF Bounds
<1>4. /\ SubSeq(stream, cap.lo, End + 1) \in Seq(Events)
      /\ Len(SubSeq(stream, cap.lo, End + 1)) = (End + 1) - cap.lo + 1
  BY <1>1, <1>3, SubSeqIs DEF Bounds, Cached
<1> HIDE DEF es
<1>5. cap.lo + Len(es) - 1 = End + 1
  <2>1. \A a \in Nat, b \in Nat : a + ((b + 1) - a + 1) - 1 = b + 1 OBVIOUS
  <2>2. cap.lo \in Nat /\ End \in Nat BY <1>1 DEF Bounds
  <2> QED BY <1>2, <1>4, <2>1, <2>2
<1> QED BY <1>2, <1>4, <1>5 DEF es

LEMMA CachePublish ==
  ASSUME CacheInv, NEW r \in Rid, publish(r)
  PROVE  CacheInv'
<1>1. /\ UNCHANGED <<main, ctrl, thr, cap>>
  BY DEF publish, requestvars
<1>2. /\ Ordered(stream') /\ Len(stream') = Len(stream) + 1
      /\ \A i \in 1..Len(stream) : stream'[i] = stream[i]
  BY OrderedPublish DEF CacheInv
<1>3. PICK e \in Events : stream' = Append(stream, e) BY OrderedPublish DEF CacheInv
<1>4. CapType' BY <1>1 DEF CacheInv, CapType
<1>5. InitInv'
  <2>1. \A i \in cap.next..cap.hi : i \in 1..Len(stream) BY Ends DEF Bounds
  <2>2. \A i \in cap.lo..cap.hi : i \in 1..Len(stream) BY Ends DEF Bounds
  <2>3. InitInv BY DEF CacheInv
  <2> QED BY <1>1, <1>2, <2>1, <2>2, <2>3, ZenonT(30) DEF InitInv
<1>6. PlaceInv' BY <1>1, <1>2, Ends DEF Bounds, CacheInv, PlaceInv
<1>7. CacheExact'
  <2>1. SubSeq(stream', cap.lo, End) = SubSeq(stream, cap.lo, End)
    BY <1>3, Extended, Ends, ZenonT(30) DEF Bounds, Cached
  <2>2. cap.state = "LAST" =>
          SubSeq(stream', End + 1, cap.next - 1) = SubSeq(stream, End + 1, cap.next - 1)
    <3> SUFFICES ASSUME cap.state = "LAST"
                 PROVE  SubSeq(stream', End + 1, cap.next - 1)
                          = SubSeq(stream, End + 1, cap.next - 1)
      BY ZenonT(30)
    <3>1. End + 1 <= cap.next BY Ends DEF Bounds, CacheInv, PlaceInv
    <3>2. /\ End + 1 \in Nat \ {0} /\ cap.next - 1 \in Nat
          /\ End + 1 <= (cap.next - 1) + 1 /\ cap.next - 1 <= Len(stream)
      <4>1. End \in Nat /\ cap.next \in Nat \ {0} /\ Len(stream) \in Nat
            /\ cap.next <= Len(stream) + 1
        BY Ends DEF Bounds
      <4>2. \A d \in Nat, m \in Nat \ {0}, l \in Nat : d + 1 <= m /\ m <= l + 1 =>
              d + 1 \in Nat \ {0} /\ m - 1 \in Nat /\ d + 1 <= (m - 1) + 1 /\ m - 1 <= l
        OBVIOUS
      <4> QED BY <3>1, <4>1, <4>2
    <3> QED BY <1>3, <3>2, Extended, Ends, ZenonT(30) DEF Cached
  <2>3. CacheExact BY DEF CacheInv
  <2>4. End <= Len(stream') BY <1>2, Ends DEF Bounds
  <2> QED BY <1>1, <2>1, <2>2, <2>3, <2>4, ZenonT(30) DEF CacheExact, End
<1>8. MissedCounted' BY <1>1, ZenonT(30) DEF CacheInv, MissedCounted
<1> QED BY <1>2, <1>4, <1>5, <1>6, <1>7, <1>8 DEF CacheInv

(***************************************************************************)
(* An event is read and saved                                              *)
(***************************************************************************)
LEMMA EventAt ==
  ASSUME CacheInv, NEW i \in 1..Len(stream)
  PROVE  /\ stream[i][1] \in Rid /\ stream[i][2] \in Nat \ {0}
         /\ stream[i] = <<stream[i][1], stream[i][2]>>
  BY DEF CacheInv, Ordered, Events

InitSaved == cap' = SaveInit([cap EXCEPT !.next = @ + 1],
                             stream[cap.next][1], stream[cap.next][2])

LEMMA SavedInit ==
  ASSUME CacheInv, thr = "recv", cap.next <= Len(stream), cap.state = "INIT",
         thr' = "check", UNCHANGED <<stream, main, ctrl>>,
         ctrl \notin {"NEED_INIT", "INIT"}, InitSaved
  PROVE  CacheInv'
<1> DEFINE n == cap.next
           r == stream[n][1]
           s == stream[n][2]
           add == cap.pre[r] = 0 \/ s > cap.pre[r]
           pre == IF s >= cap.pre[r] THEN [cap.pre EXCEPT ![r] = 0] ELSE cap.pre
           over == pre = NoSeq \/ cap.cnt <= 1
<1>1. Bounds BY Ends
<1>2. n \in 1..Len(stream) /\ n \in Nat BY <1>1 DEF Bounds
<1>3. r \in Rid /\ s \in Nat \ {0} /\ stream[n] = <<r, s>> BY <1>2, EventAt
<1>4. CapType BY DEF CacheInv
<1>5. cap' = [cap EXCEPT !.next = n + 1, !.cnt = cap.cnt - 1,
                         !.events = IF add THEN Append(cap.events, <<r, s>>) ELSE cap.events,
                         !.pre = IF over THEN NoSeq ELSE pre,
                         !.state = IF over THEN "ACTIVE" ELSE "INIT"]
  BY <1>4 DEF InitSaved, SaveInit, CapType
<1> HIDE DEF r, s, add, pre, over, n
<1>6. /\ cap'.next = n + 1 /\ cap'.cnt = cap.cnt - 1 /\ cap'.lo = cap.lo /\ cap'.hi = cap.hi
      /\ cap'.events = (IF add THEN Append(cap.events, <<r, s>>) ELSE cap.events)
      /\ cap'.pre = (IF over THEN NoSeq ELSE pre)
      /\ cap'.state = (IF over THEN "ACTIVE" ELSE "INIT")
      /\ cap'.last = cap.last /\ cap'.over = cap.over /\ cap'.missed = cap.missed
      /\ cap'.listed = cap.listed /\ cap'.held = cap.held
  BY <1>4, <1>5 DEF CapType
<1>7. /\ cap.pre \in [Rid -> Nat] /\ cap.cnt \in Int /\ cap.pre[r] \in Nat
      /\ pre \in [Rid -> Nat] /\ \A p \in Rid : pre[p] \in {0, cap.pre[p]}
      /\ \A p \in Rid : p # r => pre[p] = cap.pre[p]
      /\ s < cap.pre[r] => pre[r] = cap.pre[r]
  <2>1. cap.pre \in [Rid -> Nat] /\ cap.cnt \in Int BY <1>4 DEF CapType
  <2>2. cap.pre[r] \in Nat BY <1>3, <2>1
  <2>3. CASE s >= cap.pre[r]
    <3>1. pre = [cap.pre EXCEPT ![r] = 0] /\ ~(s < cap.pre[r]) BY <1>3, <2>2, <2>3 DEF pre
    <3> QED BY <1>3, <2>1, <2>2, <3>1
  <2>4. CASE ~(s >= cap.pre[r])
    <3>1. pre = cap.pre BY <2>4 DEF pre
    <3> QED BY <2>1, <2>2, <3>1
  <2> QED BY <2>3, <2>4
<1>8. CapType'
  <2>1. <<r, s>> \in Events BY <1>3 DEF Events
  <2>2. cap'.events \in Seq(Events) BY <1>6, <2>1, Ends DEF Cached
  <2>3. (IF add THEN Append(cap.events, <<r, s>>) ELSE cap.events) \in Seq(Events)
    BY <1>6, <2>2
  <2>4. (IF over THEN NoSeq ELSE pre) \in [Rid -> Nat] BY <1>7, CaptureFields
  <2>5. cap.cnt - 1 \in Int /\ n + 1 \in Nat \ {0} BY <1>2, <1>7
  <2> QED BY <1>4, <1>5, <2>3, <2>4, <2>5, ZenonT(30) DEF CapType
<1>9. /\ End \in {cap.hi, n - 1} /\ End >= cap.hi /\ End >= n - 1
  BY DEF CacheInv, CacheExact, End, n
<1>10. /\ \A i \in n..cap.hi : stream[i][2] <= cap.pre[stream[i][1]]
       /\ \A p \in Rid : cap.pre[p] # 0 =>
            \E i \in cap.lo..cap.hi : stream[i] = <<p, cap.pre[p]>>
       /\ cap.cnt >= cap.hi - n + 1
  BY ZenonT(30) DEF CacheInv, InitInv, n
<1>11. Ascending(stream) BY DEF CacheInv, Ordered
\* What the socket still holds of the stock after this event.
<1>12. ASSUME NEW i \in (n + 1)..cap.hi
       PROVE  stream[i][2] <= pre[stream[i][1]] /\ pre[stream[i][1]] # 0
  <2>1. i \in 1..Len(stream) /\ n < i /\ i \in n..cap.hi BY <1>1, <1>2 DEF Bounds
  <2>2. stream[i][1] \in Rid /\ stream[i][2] \in Nat \ {0} BY <2>1, EventAt
  <2>3. stream[i][2] <= cap.pre[stream[i][1]] BY <1>10, <2>1
  <2>4. CASE stream[i][1] = r
    <3>1. s < stream[i][2] BY <1>2, <1>11, <2>1, <2>4 DEF Ascending, r, s
    <3>2. s < cap.pre[r] BY <1>3, <1>7, <2>2, <2>3, <2>4, <3>1
    <3> QED BY <1>7, <2>2, <2>3, <2>4, <3>2
  <2>5. CASE stream[i][1] # r BY <1>7, <2>2, <2>3, <2>5
  <2> QED BY <2>4, <2>5
<1>13. InitInv'
  <2> SUFFICES ASSUME cap'.state = "INIT" PROVE InitInv' BY ZenonT(30)
                                                            DEF InitInv
  <2>1. ~over /\ cap'.pre = pre BY <1>6
  <2>2. ASSUME NEW p \in Rid, pre[p] # 0
        PROVE  \E i \in cap.lo..cap.hi : stream[i] = <<p, pre[p]>>
    <3>1. pre[p] = cap.pre[p] BY <1>7, <2>2
    <3> QED BY <1>10, <2>2, <3>1, ZenonT(30)
  <2>3. cap.cnt - 1 >= cap.hi - (n + 1) + 1
    <3>1. \A c \in Int, h \in Nat, m \in Nat : c >= h - m + 1 => c - 1 >= h - (m + 1) + 1
      OBVIOUS
    <3>2. cap.cnt \in Int /\ cap.hi \in Nat /\ cap.cnt >= cap.hi - n + 1
      BY <1>1, <1>7, <1>10 DEF Bounds
    <3> QED BY <1>2, <3>1, <3>2
  <2>4. cap'.cnt >= cap'.hi - cap'.next + 1 BY <1>6, <2>3
  <2> QED BY <1>6, <1>12, <2>1, <2>2, <2>4, ZenonT(30) DEF InitInv
<1>14. over => cap.hi < n + 1
  <2> SUFFICES ASSUME over, n + 1 <= cap.hi PROVE FALSE BY <1>1, <1>2 DEF Bounds
  <2>1. n + 1 \in (n + 1)..cap.hi BY <1>1, <1>2 DEF Bounds
  <2>2. pre[stream[n + 1][1]] # 0 BY <1>12, <2>1
  <2>3. n + 1 \in 1..Len(stream) BY <1>1, <1>2, <2>1 DEF Bounds
  <2>4. stream[n + 1][1] \in Rid BY <2>3, EventAt
  <2>5. pre # NoSeq BY <2>2, <2>4, CaptureFields
  <2>6. cap.cnt > 1 BY <1>1, <1>2, <1>7, <1>10 DEF Bounds
  <2> QED BY <1>7, <2>5, <2>6 DEF over
<1>15. PlaceInv'
  <2>1. /\ cap.last = NoSeq /\ cap.over = 0 /\ cap.missed = 0 /\ ~cap.listed
    BY DEF CacheInv, PlaceInv
  <2>2. /\ cap.lo <= n + 1 /\ n + 1 <= Len(stream) + 1
        /\ cap.lo <= cap.hi + 1 /\ cap.hi <= Len(stream)
    BY <1>1, <1>2 DEF Bounds, n
  <2>3. cap'.state \in {"INIT", "ACTIVE"} /\ (cap'.state = "ACTIVE" => over) BY <1>6
  <2> QED BY <1>6, <1>14, <2>1, <2>2, <2>3 DEF PlaceInv
<1>16. ASSUME n <= cap.hi PROVE CacheExact'
  <2>1. n \in n..cap.hi BY <1>1, <1>2, <1>16 DEF Bounds
  <2>2. s <= cap.pre[r] BY <1>10, <2>1 DEF r, s
  <2>3. ~add BY <1>3, <1>7, <2>2 DEF add
  <2>4. cap'.events = cap.events BY <1>6, <2>3
  <2>5. End = cap.hi BY <1>1, <1>2, <1>9, <1>16 DEF Bounds
  <2>6. cap'.lo + Len(cap'.events) - 1 = End BY <1>6, <2>4, ZenonT(30) DEF End
  <2>7. cap'.state # "LAST" BY <1>6
  <2>8. End \in Nat /\ End <= Len(stream) /\ End >= (n + 1) - 1 BY <1>1, <1>2, <1>16, <2>5 DEF Bounds
  <2>9. cap'.events = SubSeq(stream, cap'.lo, End) BY <1>6, <2>4, Ends, ZenonT(30)
                                                      DEF Cached
  <2>10. End \in {cap'.hi, cap'.next - 1} /\ End >= cap'.hi /\ End >= cap'.next - 1
    BY <1>1, <1>6, <2>5, <2>8 DEF Bounds
  <2> QED BY <2>6, <2>7, <2>8, <2>9, <2>10, ExactNow, ZenonT(30)
<1>17. ASSUME n > cap.hi PROVE CacheExact'
  <2>1. End = n - 1 BY <1>1, <1>2, <1>9, <1>17 DEF Bounds
  <2>2. cap.pre[r] # 0 => cap.pre[r] < s
    <3> SUFFICES ASSUME cap.pre[r] # 0 PROVE cap.pre[r] < s OBVIOUS
    <3>1. PICK i \in cap.lo..cap.hi : stream[i] = <<r, cap.pre[r]>> BY <1>3, <1>10
    <3>2. i \in 1..Len(stream) /\ i < n BY <1>1, <1>2, <1>17 DEF Bounds
    <3>3. stream[i][1] = r /\ stream[i][2] = cap.pre[r] BY <3>1
    <3> QED BY <1>2, <1>11, <3>2, <3>3 DEF Ascending, r, s
  <2>3. add BY <1>3, <1>7, <2>2 DEF add
  <2>4. End + 1 = n /\ End < Len(stream) BY <1>1, <1>2, <2>1 DEF Bounds
  <2>5. cap'.events = Append(cap.events, stream[End + 1]) BY <1>3, <1>6, <2>3, <2>4,
                                                             ZenonT(30)
  <2>6. cap'.lo + Len(cap'.events) - 1 = End + 1 BY <1>6, <2>4, <2>5, Appended
  <2>7. cap'.events = SubSeq(stream, cap'.lo, End + 1) BY <1>6, <2>4, <2>5, Appended,
                                                          ZenonT(30)
  <2>8. cap'.state # "LAST" BY <1>6
  <2>9. n \in Nat /\ n <= Len(stream) BY <1>2
  <2>10. cap'.next - 1 = n /\ n >= cap'.hi BY <1>1, <1>2, <1>6, <1>17 DEF Bounds
  <2>11. End + 1 \in {cap'.hi, cap'.next - 1} /\ End + 1 >= cap'.hi /\ End + 1 >= cap'.next - 1
    BY <2>4, <2>9, <2>10
  <2> QED BY <2>4, <2>6, <2>7, <2>8, <2>9, <2>11, ExactNow, ZenonT(30)
<1>18. CacheExact'
  <2>1. n <= cap.hi \/ n > cap.hi BY <1>1, <1>2 DEF Bounds
  <2> QED BY <1>16, <1>17, <2>1
<1>19. MissedCounted'
  <2>1. ~cap.listed BY DEF CacheInv, PlaceInv
  <2> QED BY <1>6, <2>1 DEF MissedCounted
<1> QED BY <1>8, <1>13, <1>15, <1>18, <1>19 DEF CacheInv

ActiveSaved == cap' = SaveActive([cap EXCEPT !.next = @ + 1],
                                 stream[cap.next][1], stream[cap.next][2])

LEMMA NoneSize == Size(NoSeq, FALSE) = 0
<1>1. {r \in Rid : NoSeq[r] # 0} = {} BY DEF NoSeq
<1> QED BY <1>1, FS_EmptySet DEF Size

LEMMA SavedActive ==
  ASSUME CacheInv, cap.next <= Len(stream), cap.state = "ACTIVE",
         thr' = "check", UNCHANGED <<stream, main, ctrl>>,
         ctrl \notin {"NEED_INIT", "INIT"}, ActiveSaved
  PROVE  CacheInv'
<1> DEFINE n == cap.next
           es == Append(cap.events, <<stream[n][1], stream[n][2]>>)
           full == Len(cap.events) + 1 >= CacheMax
<1>1. Bounds BY Ends
<1>2. n \in 1..Len(stream) /\ n \in Nat BY <1>1 DEF Bounds
<1>3. stream[n] = <<stream[n][1], stream[n][2]>> BY <1>2, EventAt
<1>4. CapType BY DEF CacheInv
<1>5. cap' = [cap EXCEPT !.next = n + 1, !.events = es,
                         !.state = IF full THEN "LAST" ELSE "ACTIVE",
                         !.last = IF full THEN NoSeq ELSE cap.last,
                         !.held = cap.held /\ ~full,
                         !.listed = cap.listed \/ full]
  BY <1>4, ZenonT(30) DEF ActiveSaved, SaveActive, CapType
<1>6. End + 1 = n /\ End < Len(stream)
  <2>1. End \in {cap.hi, n - 1} /\ End >= cap.hi /\ End >= n - 1
    BY DEF CacheInv, CacheExact, End
  <2>2. cap.hi < n BY DEF CacheInv, PlaceInv
  <2> QED BY <1>1, <1>2, <2>1, <2>2, SMTT(20) DEF Bounds
<1>7. /\ es = SubSeq(stream, cap.lo, n) /\ es \in Seq(Events) /\ cap.lo + Len(es) - 1 = n
  BY <1>3, <1>6, Appended, ZenonT(30)
<1> HIDE DEF n, es, full
<1>8. /\ cap'.next = n + 1 /\ cap'.lo = cap.lo /\ cap'.hi = cap.hi /\ cap'.events = es
      /\ cap'.state = (IF full THEN "LAST" ELSE "ACTIVE")
      /\ cap'.last = (IF full THEN NoSeq ELSE cap.last)
      /\ cap'.over = cap.over /\ cap'.missed = cap.missed
      /\ cap'.held = (cap.held /\ ~full) /\ cap'.listed = (cap.listed \/ full)
  BY <1>4, <1>5 DEF CapType
<1>9. /\ cap.last = NoSeq /\ cap.over = 0 /\ cap.missed = 0 /\ ~cap.listed
      /\ cap.hi < n
  BY DEF CacheInv, PlaceInv, n
<1>10. cap'.last = NoSeq BY <1>8, <1>9
<1>11. CapType'
  <2>1. n + 1 \in Nat \ {0} /\ NoSeq \in [Rid -> Nat] /\ es \in Seq(Events)
    BY <1>2, <1>7, CaptureFields
  <2>2. CASE full
    <3>1. cap' = [cap EXCEPT !.next = n + 1, !.events = es, !.state = "LAST",
                             !.last = NoSeq, !.held = FALSE, !.listed = TRUE]
      BY <1>4, <1>5, <2>2, ZenonT(30) DEF CapType
    <3> QED BY <1>4, <2>1, <3>1, ZenonT(30) DEF CapType
  <2>3. CASE ~full
    <3>1. cap' = [cap EXCEPT !.next = n + 1, !.events = es]
      <4>1. cap.held \in BOOLEAN /\ cap.listed \in BOOLEAN BY <1>4 DEF CapType
      <4>2. (cap.held /\ ~full) = cap.held /\ (cap.listed \/ full) = cap.listed
        BY <2>3, <4>1
      <4> QED BY <1>4, <1>5, <2>3, <4>2, ZenonT(30) DEF CapType
    <3> QED BY <1>4, <2>1, <3>1, ZenonT(30) DEF CapType
  <2> QED BY <2>2, <2>3
<1>12. InitInv' BY <1>8 DEF InitInv
<1>13. PlaceInv'
  <2>1. /\ cap.lo <= n + 1 /\ n + 1 <= Len(stream) + 1 /\ cap.hi < n + 1
        /\ cap.lo <= cap.hi + 1 /\ cap.hi <= Len(stream)
    BY <1>1, <1>2, <1>9 DEF Bounds, n
  <2>2. cap.lo + Len(es) <= n + 1
    <3>1. Len(es) \in Nat /\ cap.lo \in Nat
      <4>1. Len(es) \in Nat BY <1>7
      <4> QED BY <1>1, <4>1 DEF Bounds
    <3>2. \A a, b, c \in Nat : a + b - 1 = c => a + b <= c + 1 OBVIOUS
    <3> QED BY <1>2, <1>7, <3>1, <3>2
  <2> QED BY <1>8, <1>9, <1>10, <2>1, <2>2, ZenonT(30) DEF PlaceInv
<1>14. CacheExact'
  <2>1. CASE full
    <3>1. cap'.next - 1 = n BY <1>2, <1>8
    <3>2. SubSeq(stream, n + 1, n) = <<>> BY <1>2, EmptyRun, Ends DEF Cached
    <3>3. \A r \in Rid : LastSeq(<<>>, r) = 0
      <4>1. ASSUME NEW r \in Rid PROVE {k \in 1..Len(<<>>) : <<>>[k][1] = r} = {} OBVIOUS
      <4> QED BY <4>1 DEF LastSeq
    <3>4. cap'.last = [r \in Rid |-> LastSeq(SubSeq(stream, n + 1, cap'.next - 1), r)]
      BY <1>10, <3>1, <3>2, <3>3, ZenonT(30) DEF NoSeq
    <3>5. cap'.state = "LAST" BY <1>8, <2>1
    <3>6. n \in Nat /\ n <= Len(stream) BY <1>2
    <3>7. n = cap'.lo + Len(cap'.events) - 1 /\ cap'.events = SubSeq(stream, cap'.lo, n)
      BY <1>7, <1>8
    <3> HIDE DEF n
    <3> QED BY <3>4, <3>5, <3>6, <3>7, ExactLast, ZenonT(30)
  <2>2. CASE ~full
    <3>1. cap'.next - 1 = n /\ n >= cap'.hi /\ n <= Len(stream)
      BY <1>1, <1>2, <1>8, <1>9 DEF Bounds
    <3>2. cap'.state # "LAST" BY <1>8, <2>2
    <3>3. n \in {cap'.hi, cap'.next - 1} /\ n >= cap'.next - 1 BY <1>2, <3>1
    <3> QED BY <1>2, <1>7, <1>8, <3>1, <3>2, <3>3, ExactNow, ZenonT(30)
  <2> QED BY <2>1, <2>2
<1>15. MissedCounted'
  <2>1. Size(cap'.last, FALSE) = 0 BY <1>10, NoneSize, ZenonT(30)
  <2>2. cap'.missed = 0 /\ cap'.over = 0 BY <1>8, <1>9
  <2>3. 0 >= 0 - 0 OBVIOUS
  <2>4. cap'.missed >= cap'.over - Size(cap'.last, FALSE) BY <2>1, <2>2, <2>3, Zenon
  <2> QED BY <2>4, ZenonT(30) DEF MissedCounted
<1> QED BY <1>11, <1>12, <1>13, <1>14, <1>15 DEF CacheInv

LastSaved == cap' = SaveLast([cap EXCEPT !.next = @ + 1],
                             stream[cap.next][1], stream[cap.next][2])

\* m_last_events has at most one entry more.
LEMMA SizeGrows ==
  ASSUME NEW last \in [Rid -> Nat], NEW r \in Rid, NEW s \in Nat \ {0}
  PROVE  /\ Size(last, FALSE) \in Nat /\ Size([last EXCEPT ![r] = s], FALSE) \in Nat
         /\ Size(last, FALSE) <= Size([last EXCEPT ![r] = s], FALSE)
<1> DEFINE A == {p \in Rid : last[p] # 0}
           B == {p \in Rid : [last EXCEPT ![r] = s][p] # 0}
<1>1. IsFiniteSet(Rid)
  <2>1. 1 \in Int /\ Rids \in Int BY BoundsNat
  <2> QED BY <2>1, FS_Interval DEF Rid
<1>2. A \subseteq B /\ B \subseteq Rid OBVIOUS
<1> HIDE DEF A, B
<1>3. IsFiniteSet(B) BY <1>1, <1>2, FS_Subset
<1>4. IsFiniteSet(A) /\ Cardinality(A) <= Cardinality(B) BY <1>2, <1>3, FS_Subset
<1>5. Cardinality(A) \in Nat /\ Cardinality(B) \in Nat BY <1>3, <1>4, FS_CardinalityType
<1>6. Size(last, FALSE) = Cardinality(A) + 0 /\ Size([last EXCEPT ![r] = s], FALSE) = Cardinality(B) + 0
  BY DEF Size, A, B
<1>7. \A a \in Nat : a + 0 = a OBVIOUS
<1>8. Size(last, FALSE) = Cardinality(A) /\ Size([last EXCEPT ![r] = s], FALSE) = Cardinality(B)
  BY <1>5, <1>6, <1>7, ZenonT(30)
<1> QED BY <1>4, <1>5, <1>8, ZenonT(30)

LEMMA SavedLast ==
  ASSUME CacheInv, cap.next <= Len(stream), cap.state \in {"ACTIVE", "LAST"},
         thr' = "check", UNCHANGED <<stream, main, ctrl>>,
         ctrl \notin {"NEED_INIT", "INIT"}, LastSaved
  PROVE  CacheInv'
<1> DEFINE n == cap.next
           r == stream[n][1]
           s == stream[n][2]
           last == [cap.last EXCEPT ![r] = s]
           missed == IF cap.over + 1 > Size(last, cap.held) THEN cap.missed + 1 ELSE cap.missed
<1>1. Bounds BY Ends
<1>2. n \in 1..Len(stream) /\ n \in Nat BY <1>1 DEF Bounds
<1>3. r \in Rid /\ s \in Nat \ {0} /\ stream[n] = <<r, s>> BY <1>2, EventAt
<1>4. CapType BY DEF CacheInv
<1>5. cap' = [cap EXCEPT !.next = n + 1, !.state = "LAST", !.last = last,
                         !.over = cap.over + 1, !.missed = missed]
  BY <1>4 DEF LastSaved, SaveLast, CapType
<1> HIDE DEF n, r, s, last, missed
<1>6. /\ cap'.next = n + 1 /\ cap'.lo = cap.lo /\ cap'.hi = cap.hi /\ cap'.events = cap.events
      /\ cap'.state = "LAST" /\ cap'.last = last /\ cap'.over = cap.over + 1
      /\ cap'.missed = missed /\ cap'.held = cap.held /\ cap'.listed = cap.listed
  BY <1>4, <1>5 DEF CapType
<1>7. /\ cap.last \in [Rid -> Nat] /\ cap.over \in Nat /\ cap.missed \in Nat
      /\ cap.held \in BOOLEAN /\ cap.listed \in BOOLEAN
  BY <1>4 DEF CapType
<1>8. /\ last \in [Rid -> Nat] /\ last[r] = s /\ \A p \in Rid : p # r => last[p] = cap.last[p]
      /\ missed \in Nat
  BY <1>3, <1>7 DEF last, missed
<1>9. CapType'
  <2>1. n + 1 \in Nat \ {0} /\ cap.over + 1 \in Nat BY <1>2, <1>7
  <2> QED BY <1>4, <1>5, <1>8, <2>1, ZenonT(30) DEF CapType
<1>10. InitInv' BY <1>6 DEF InitInv
\* What was read since m_events was closed.
<1>11. End + 1 <= n
  <2>1. CASE cap.state = "LAST"
    <3>1. cap.lo + Len(cap.events) <= n BY <2>1 DEF CacheInv, PlaceInv, n
    <3> QED BY <1>1, <3>1 DEF Bounds
  <2>2. CASE cap.state = "ACTIVE"
    <3>1. End \in {cap.hi, n - 1} BY <2>2 DEF CacheInv, CacheExact, End, n
    <3>2. cap.hi < n BY <2>2 DEF CacheInv, PlaceInv, n
    <3> QED BY <1>1, <1>2, <3>1, <3>2 DEF Bounds
  <2> QED BY <2>1, <2>2
<1>12. End + 1 \in 1..(Len(stream) + 1) /\ n - 1 \in 0..Len(stream) /\ End + 1 <= (n - 1) + 1
  BY <1>1, <1>2, <1>11 DEF Bounds
<1>13. ASSUME NEW p \in Rid PROVE LastSeq(SubSeq(stream, End + 1, n - 1), p) = cap.last[p]
  <2>1. CASE cap.state = "LAST"
    <3>1. cap.last = [q \in Rid |-> LastSeq(SubSeq(stream, End + 1, n - 1), q)]
      BY <2>1 DEF CacheInv, CacheExact, End, n
    <3> QED BY <3>1
  <2>2. CASE cap.state = "ACTIVE"
    <3>1. /\ End \in {cap.hi, n - 1} /\ End >= cap.hi /\ End >= n - 1
      BY <2>2 DEF CacheInv, CacheExact, End, n
    <3>2. cap.hi < n BY <2>2 DEF CacheInv, PlaceInv, n
    <3>3. End + 1 = n BY <1>1, <1>2, <3>1, <3>2 DEF Bounds
    <3>4. (End + 1)..(n - 1) = {} BY <1>2, <3>3
    <3>5. LastIn(stream, End + 1, n - 1, p, 0) BY <3>4 DEF LastIn
    <3>6. LastSeq(SubSeq(stream, End + 1, n - 1), p) = 0
      BY <1>12, <3>5, LastIs DEF CacheInv
    <3>7. cap.last = NoSeq BY <2>2 DEF CacheInv, PlaceInv
    <3> QED BY <3>6, <3>7, CaptureFields
  <2> QED BY <2>1, <2>2
<1>14. ASSUME NEW p \in Rid PROVE LastSeq(SubSeq(stream, End + 1, n), p) = last[p]
  <2>1. n \in 0..Len(stream) /\ End + 1 <= n + 1 /\ n \in (End + 1)..n
        /\ (End + 1)..n = ((End + 1)..(n - 1)) \cup {n} /\ (n + 1)..n = {}
    BY <1>1, <1>2, <1>11, SMTT(20) DEF Bounds
  <2>2. CASE p = r
    <3>1. LastIn(stream, End + 1, n, p, s) BY <1>3, <2>1, <2>2 DEF LastIn
    <3> QED BY <1>3, <1>8, <1>12, <2>1, <2>2, <3>1, LastIs DEF CacheInv
  <2>3. CASE p # r
    <3>1. PICK t \in Nat : LastIn(stream, End + 1, n - 1, p, t) BY <1>12 DEF CacheInv, Ordered
    <3>2. LastSeq(SubSeq(stream, End + 1, n - 1), p) = t BY <1>12, <3>1, LastIs DEF CacheInv
    <3>3. t = last[p] BY <1>8, <1>13, <2>3, <3>2
    <3>4. stream[n][1] # p BY <2>3 DEF r
    <3>5. \A i \in (End + 1)..(n - 1) : (i + 1)..n = ((i + 1)..(n - 1)) \cup {n}
      BY <1>1, <1>2, SMTT(20) DEF Bounds
    <3>7. ASSUME NEW i \in (End + 1)..(n - 1), stream[i] = <<p, t>>,
                 \A j \in (i + 1)..(n - 1) : stream[j][1] # p
          PROVE  LastIn(stream, End + 1, n, p, t)
      <4>1. i \in (End + 1)..n BY <2>1
      <4>2. \A j \in (i + 1)..n : stream[j][1] # p BY <3>4, <3>5, <3>7
      <4> QED BY <3>7, <4>1, <4>2 DEF LastIn
    <3>8. LastIn(stream, End + 1, n, p, t)
      <4>1. CASE t = 0 /\ \A i \in (End + 1)..(n - 1) : stream[i][1] # p
        BY <2>1, <3>4, <4>1, SMTT(20) DEF LastIn
      <4> QED BY <3>1, <3>7, <4>1 DEF LastIn
    <3> QED BY <1>12, <2>1, <3>3, <3>8, LastIs DEF CacheInv
  <2> QED BY <2>2, <2>3
<1>15. CacheExact'
  <2>1. cap'.next - 1 = n BY <1>2, <1>6
  <2>2. last = [p \in Rid |-> LastSeq(SubSeq(stream, End + 1, n), p)] BY <1>8, <1>14
  <2>3. cap'.last = [p \in Rid |-> LastSeq(SubSeq(stream, End + 1, cap'.next - 1), p)]
    BY <1>6, <2>1, <2>2
  <2>4. End = cap'.lo + Len(cap'.events) - 1 BY <1>6 DEF End
  <2>5. End \in Nat /\ End <= Len(stream) BY <1>1 DEF Bounds
  <2>6. cap'.events = SubSeq(stream, cap'.lo, End) BY <1>6, Ends DEF Cached
  <2> QED BY <1>6, <2>3, <2>4, <2>5, <2>6, ExactLast, ZenonT(30)
<1>16. PlaceInv'
  <2>1. /\ cap.lo <= n + 1 /\ n + 1 <= Len(stream) + 1 /\ cap.lo + Len(cap.events) <= n + 1
        /\ cap.lo <= cap.hi + 1 /\ cap.hi <= Len(stream)
    BY <1>1, <1>2, <1>11 DEF Bounds, n
  <2>2. cap.listed => ~cap.held BY DEF CacheInv, PlaceInv
  <2> QED BY <1>6, <2>1, <2>2 DEF PlaceInv
<1>17. MissedCounted'
  <2> SUFFICES ASSUME cap'.listed PROVE cap'.missed >= cap'.over - Size(cap'.last, FALSE)
    BY ZenonT(30) DEF MissedCounted
  <2> cap.listed BY <1>6
  <2>1. cap.held = FALSE BY <1>7 DEF CacheInv, PlaceInv
  <2>2. cap.missed >= cap.over - Size(cap.last, FALSE) BY ZenonT(30)
                                                          DEF CacheInv, MissedCounted
  <2>3. /\ Size(cap.last, FALSE) \in Nat /\ Size(last, FALSE) \in Nat
        /\ Size(cap.last, FALSE) <= Size(last, FALSE)
    BY <1>3, <1>7, SizeGrows, ZenonT(30) DEF last
  <2>4. missed = IF cap.over + 1 > Size(last, FALSE) THEN cap.missed + 1 ELSE cap.missed
    BY <2>1, ZenonT(30) DEF missed
  <2>5. \A o, m, a, b \in Nat : m >= o - a /\ a <= b =>
          (IF o + 1 > b THEN m + 1 ELSE m) >= (o + 1) - b
    OBVIOUS
  <2>6. missed >= (cap.over + 1) - Size(last, FALSE) BY <1>7, <2>2, <2>3, <2>4, <2>5,
                                                        ZenonT(30)
  <2>7. cap'.missed = missed /\ cap'.over = cap.over + 1 BY <1>6
  <2>8. Size(cap'.last, FALSE) = Size(last, FALSE) BY <1>6
  <2> QED BY <2>6, <2>7, <2>8, ZenonT(30)
<1> QED BY <1>9, <1>10, <1>15, <1>16, <1>17 DEF CacheInv

(***************************************************************************)
(* The actions                                                             *)
(***************************************************************************)
LEMMA CacheRead ==
  ASSUME CacheInv, Signals, cap_event
  PROVE  CacheInv'
<1>1. thr = "recv" /\ cap.next <= Len(stream) /\ ctrl \notin {"NEED_INIT", "INIT"}
  BY DEF cap_event, Signals
<1>2. thr' = "check" /\ UNCHANGED <<stream, main, ctrl>>
  BY DEF cap_event, Thread, requestvars
<1>3. \/ cap.state = "INIT" /\ InitSaved
      \/ cap.state = "ACTIVE" /\ ActiveSaved
      \/ cap.state \in {"ACTIVE", "LAST"} /\ LastSaved
  BY DEF cap_event, Thread, InitSaved, ActiveSaved, LastSaved
<1> QED BY <1>1, <1>2, <1>3, SavedInit, SavedActive, SavedLast

\* The capture socket is connected: it holds what is published from now on.
LEMMA CacheConnect ==
  ASSUME CacheInv, cap_connect
  PROVE  CacheInv'
<1> DEFINE n == Len(stream)
<1>1. cap = Capture BY DEF CacheInv, PlaceInv, cap_connect
<1>2. /\ cap' = [Capture EXCEPT !.run = TRUE, !.next = n + 1, !.lo = n + 1, !.hi = n]
      /\ thr' \in {"wait", "subscribe"} /\ UNCHANGED <<stream, main, ctrl>>
  BY <1>1 DEF cap_connect, Thread, requestvars
<1>3. n \in Nat /\ stream \in Seq(Events) BY Ends DEF Bounds, Cached
<1> HIDE DEF n
<1>4. /\ cap'.next = n + 1 /\ cap'.lo = n + 1 /\ cap'.hi = n /\ cap'.events = <<>>
      /\ cap'.last = NoSeq /\ cap'.over = 0 /\ cap'.missed = 0 /\ cap'.listed = FALSE
      /\ cap'.pre = NoSeq /\ cap'.state = "INIT"
  BY <1>2 DEF Capture
<1>5. CapType'
  <2>1. CapType /\ n + 1 \in Nat \ {0} BY <1>3 DEF CacheInv
  <2>2. cap' = [cap EXCEPT !.run = TRUE, !.next = n + 1, !.lo = n + 1, !.hi = n]
    BY <1>1, <1>2
  <2> QED BY <1>3, <2>1, <2>2, ZenonT(30) DEF CapType
<1>6. InitInv'
  <2>1. (n + 1)..n = {} BY <1>3
  <2> QED BY <1>2, <1>4, <2>1, CaptureFields DEF InitInv
<1>7. PlaceInv'
  <2>1. n + 1 <= n + 1 /\ n <= n /\ n = (n + 1) - 1 BY <1>3
  <2> QED BY <1>2, <1>4, <2>1, ZenonT(30) DEF PlaceInv, n
<1>8. CacheExact'
  <2>1. SubSeq(stream, n + 1, n) = <<>> BY <1>3, EmptyRun DEF n
  <2>2. n = cap'.lo + Len(cap'.events) - 1 BY <1>3, <1>4
  <2>3. n \in {cap'.hi, cap'.next - 1} /\ n >= cap'.hi /\ n >= cap'.next - 1 BY <1>3, <1>4
  <2>4. n <= Len(stream) BY <1>3 DEF n
  <2> QED BY <1>2, <1>3, <1>4, <2>1, <2>2, <2>3, <2>4, ExactNow, ZenonT(30)
<1>9. MissedCounted' BY <1>4 DEF MissedCounted
<1> QED BY <1>2, <1>5, <1>6, <1>7, <1>8, <1>9 DEF CacheInv

\* CACHE_START: the stock is a run of the stream that reaches up to what the
\* socket holds, or further.
LEMMA CacheStock ==
  ASSUME CacheInv, Signals, req_start
  PROVE  CacheInv'
<1>1. PICK lo \in 1..cap.lo, hi \in cap.hi..Len(stream) : cap' = Stocked(cap, lo, hi)
  BY DEF req_start
<1>2. /\ UNCHANGED <<stream, main, thr>> /\ ctrl = "INIT" /\ ctrl' = "START" /\ main = "recv"
  BY DEF req_start
<1> DEFINE stock == SubSeq(stream, lo, hi)
           pre == [r \in Rid |-> LastSeq(stock, r)]
<1>3. cap' = [cap EXCEPT !.held = TRUE, !.lo = lo, !.hi = hi, !.events = stock, !.pre = pre]
  BY <1>1 DEF Stocked
<1>4. Bounds /\ Cached /\ CapType BY Ends DEF CacheInv
<1>5. cap.state = "INIT" /\ cap.lo = cap.next /\ cap.hi = cap.next - 1
  BY <1>2 DEF CacheInv, PlaceInv
<1>6. thr \notin {"check", "recv", "new"} BY <1>2 DEF Signals, CacheInv, PlaceInv
<1>7. /\ lo \in Nat \ {0} /\ hi \in Nat /\ lo <= hi + 1 /\ hi <= Len(stream) /\ lo <= cap.next
      /\ hi >= cap.next - 1 /\ lo \in 1..(Len(stream) + 1) /\ hi \in 0..Len(stream)
  BY <1>4, <1>5 DEF Bounds
<1>8. stock \in Seq(Events) /\ Len(stock) = hi - lo + 1 BY <1>4, <1>7, SubSeqIs, SMTT(20)
                                                           DEF Cached
<1>9. ASSUME NEW r \in Rid PROVE pre[r] \in Nat /\ LastIn(stream, lo, hi, r, pre[r])
  <2>1. PICK s \in Nat : LastIn(stream, lo, hi, r, s) BY <1>7 DEF CacheInv, Ordered
  <2>2. LastSeq(stock, r) = s BY <1>7, <2>1, LastIs DEF CacheInv
  <2> QED BY <2>1, <2>2
<1>10. pre \in [Rid -> Nat] BY <1>9
<1> HIDE DEF stock, pre
<1>11. /\ cap'.next = cap.next /\ cap'.lo = lo /\ cap'.hi = hi /\ cap'.events = stock
       /\ cap'.pre = pre /\ cap'.last = cap.last /\ cap'.over = cap.over
       /\ cap'.missed = cap.missed /\ cap'.listed = cap.listed /\ cap'.state = cap.state
  BY <1>3, <1>4 DEF CapType
<1>12. CapType' BY <1>3, <1>4, <1>7, <1>8, <1>10, ZenonT(30) DEF CapType
<1>13. ASSUME NEW i \in cap.next..hi PROVE stream[i][2] <= pre[stream[i][1]]
  <2>1. i \in 1..Len(stream) /\ i \in lo..hi BY <1>4, <1>7 DEF Bounds
  <2>2. stream[i][1] \in Rid /\ stream[i][2] \in Nat BY <2>1, EventAt
  <2>3. PICK k \in lo..hi : /\ stream[k] = <<stream[i][1], pre[stream[i][1]]>>
                            /\ \A j \in (k + 1)..hi : stream[j][1] # stream[i][1]
    BY <1>9, <2>1, <2>2, ZenonT(30) DEF LastIn
  <2>4. k \in 1..Len(stream) /\ i <= k BY <1>4, <1>7, <2>1, <2>3, SMTT(30) DEF Bounds
  <2>5. stream[k][1] = stream[i][1] /\ stream[k][2] = pre[stream[i][1]] BY <2>3
  <2>6. i < k => stream[i][2] < stream[k][2]
    BY <2>1, <2>4, <2>5 DEF CacheInv, Ordered, Ascending
  <2>7. pre[stream[i][1]] \in Nat BY <1>9, <2>2
  <2>8. i = k \/ i < k BY <2>1, <2>4
  <2>9. \A a, b \in Nat : a = b \/ a < b => a <= b OBVIOUS
  <2> QED BY <2>2, <2>5, <2>6, <2>7, <2>8, <2>9
<1>14. InitInv'
  <2>1. ASSUME NEW r \in Rid, pre[r] # 0 PROVE \E i \in lo..hi : stream[i] = <<r, pre[r]>>
    BY <1>9, <2>1, SMTT(20) DEF LastIn
  <2> QED BY <1>2, <1>6, <1>11, <1>13, <2>1, ZenonT(30) DEF InitInv
<1>15. PlaceInv'
  <2>1. /\ cap.last = NoSeq /\ cap.over = 0 /\ cap.missed = 0 /\ ~cap.listed
        /\ cap.next <= Len(stream) + 1
    BY <1>5 DEF CacheInv, PlaceInv
  <2> QED BY <1>2, <1>5, <1>6, <1>7, <1>11, <2>1 DEF PlaceInv
<1>16. CacheExact'
  <2>1. hi = cap'.lo + Len(cap'.events) - 1
    <3>1. \A a, b \in Nat : b = a + (b - a + 1) - 1 OBVIOUS
    <3> QED BY <1>7, <1>8, <1>11, <3>1
  <2>2. cap'.events = SubSeq(stream, cap'.lo, hi) BY <1>11 DEF stock
  <2>3. hi \in {cap'.hi, cap'.next - 1} /\ hi >= cap'.hi /\ hi >= cap'.next - 1
    BY <1>7, <1>11
  <2>4. cap'.state # "LAST" BY <1>5, <1>11
  <2> QED BY <1>2, <1>7, <2>1, <2>2, <2>3, <2>4, ExactNow, ZenonT(30)
<1>17. MissedCounted' BY <1>5, <1>11 DEF CacheInv, PlaceInv, MissedCounted
<1> QED BY <1>2, <1>12, <1>14, <1>15, <1>16, <1>17 DEF CacheInv

LEMMA Same ==
  ASSUME CacheInv, UNCHANGED <<stream, cap>>,
         thr' \in {"check", "recv"} => thr \in {"check", "recv"},
         ctrl' \in {"NEED_INIT", "INIT"} => ctrl \in {"NEED_INIT", "INIT"},
         thr' # "new"
  PROVE  CacheInv'
<1>1. CapType' BY DEF CacheInv, CapType
<1>2. cap'.state = "INIT" /\ thr' \in {"check", "recv"} => cap'.cnt >= cap'.hi - cap'.next + 1
  BY DEF CacheInv, InitInv
<1>3. cap'.listed => ~cap'.held BY DEF CacheInv, PlaceInv
<1> QED BY <1>1, <1>2, <1>3, Kept

LEMMA NotNew ==
  ASSUME CacheInv
  PROVE  /\ main \notin {"startup", "poll"} => thr # "new"
         /\ cap.run => thr # "new"
  BY CaptureFields DEF CacheInv, PlaceInv

LEMMA CacheRequest == CacheInv /\ Signals /\ Request => CacheInv'
<1> SUFFICES ASSUME CacheInv, Signals, Request PROVE CacheInv'
  OBVIOUS
<1>1. CASE req_start BY <1>1, CacheStock
<1>2. CASE req_init BY <1>2, Same, NotNew DEF req_init
<1>3. CASE req_start_refused BY <1>3, Same, NotNew DEF req_start_refused
<1>4. CASE req_stop BY <1>4, Same, NotNew DEF req_stop
<1>5. CASE req_stop_refused BY <1>5, Same, NotNew DEF req_stop_refused
<1>6. CASE req_read BY <1>6, Same, NotNew DEF req_read
<1>7. CASE req_refused BY <1>7, Same, NotNew DEF req_refused
<1>8. CASE req_exit BY <1>8, Same, NotNew DEF req_exit, Main
<1> QED BY <1>1, <1>2, <1>3, <1>4, <1>5, <1>6, <1>7, <1>8 DEF Request

LEMMA CacheServe == CacheInv /\ Signals /\ Serve => CacheInv'
<1> SUFFICES ASSUME CacheInv, Signals, Serve PROVE CacheInv'
  OBVIOUS
<1>1. CASE startup
  <2>1. thr # "new" /\ ctrl = "NEED_INIT" BY <1>1, NotNew DEF startup, Signals
  <2>2. cap.state = "INIT" /\ ~cap.listed /\ CapType BY <2>1 DEF CacheInv, PlaceInv
  <2>3. thr \notin {"check", "recv"} BY <2>1 DEF Signals
  <2>4. /\ cap' = [cap EXCEPT !.held = TRUE] /\ ctrl' = "START" /\ UNCHANGED <<stream, thr>>
    BY <1>1 DEF startup
  <2>5. CapType' BY <2>2, <2>4, ZenonT(30) DEF CapType
  <2>6. /\ cap'.next = cap.next /\ cap'.events = cap.events /\ cap'.last = cap.last
        /\ cap'.listed = cap.listed /\ cap'.missed = cap.missed /\ cap'.pre = cap.pre
        /\ cap'.state = cap.state /\ cap'.over = cap.over /\ cap'.lo = cap.lo /\ cap'.hi = cap.hi
    BY <2>2, <2>4 DEF CapType
  <2> QED BY <2>1, <2>2, <2>3, <2>4, <2>5, <2>6, Kept
<1>2. CASE startup_fail BY <1>2, Same DEF startup_fail
<1>3. CASE create BY <1>3, Renewed DEF create, Main
<1>4. CASE poll
  <2>1. thr # "new" /\ ctrl = "NEED_INIT" BY <1>4, NotNew DEF poll, Signals
  <2> QED BY <1>4, <2>1, Same DEF poll
<1>5. CASE drained BY <1>5, Same, NotNew DEF drained
<1>6. CASE join_stop BY <1>6, Renewed DEF join_stop
<1>7. CASE join_reset BY <1>7, Renewed DEF join_reset
<1>8. CASE exited BY <1>8, Renewed DEF exited
<1> QED BY <1>1, <1>2, <1>3, <1>4, <1>5, <1>6, <1>7, <1>8 DEF Serve

\* The thread clears m_cap_run and ends.
LEMMA Ended ==
  ASSUME CacheInv, UNCHANGED <<stream, ctrl>>, thr' = "done", cap' = [cap EXCEPT !.run = FALSE]
  PROVE  CacheInv'
<1>1. CapType BY DEF CacheInv
<1>2. CapType' BY <1>1, ZenonT(30) DEF CapType
<1>3. /\ cap'.next = cap.next /\ cap'.events = cap.events /\ cap'.last = cap.last
      /\ cap'.listed = cap.listed /\ cap'.missed = cap.missed /\ cap'.pre = cap.pre
      /\ cap'.state = cap.state /\ cap'.over = cap.over /\ cap'.lo = cap.lo /\ cap'.hi = cap.hi
      /\ cap'.held = cap.held
  BY <1>1 DEF CapType
<1>4. cap'.listed => ~cap'.held BY <1>3 DEF CacheInv, PlaceInv
<1> QED BY <1>2, <1>3, <1>4, Kept

\* init_cnt is the size of the stock when the thread begins to read.
LEMMA CacheBegin ==
  ASSUME CacheInv, cap_start
  PROVE  CacheInv'
<1>1. CapType /\ Bounds BY Ends DEF CacheInv
<1>2. /\ cap' = [cap EXCEPT !.cnt = Len(cap.events)] /\ thr' = "check"
      /\ UNCHANGED <<stream, ctrl, main>>
  BY DEF cap_start, Thread, requestvars
<1>3. Len(cap.events) \in Int BY <1>1 DEF Bounds
<1>4. CapType' BY <1>1, <1>2, <1>3, ZenonT(30) DEF CapType
<1>5. /\ cap'.next = cap.next /\ cap'.events = cap.events /\ cap'.last = cap.last
      /\ cap'.listed = cap.listed /\ cap'.missed = cap.missed /\ cap'.pre = cap.pre
      /\ cap'.state = cap.state /\ cap'.over = cap.over /\ cap'.lo = cap.lo /\ cap'.hi = cap.hi
      /\ cap'.held = cap.held /\ cap'.cnt = Len(cap.events)
  BY <1>1, <1>2 DEF CapType
<1>6. cap.state = "INIT" => Len(cap.events) >= cap.hi - cap.next + 1
  <2> SUFFICES ASSUME cap.state = "INIT" PROVE Len(cap.events) >= cap.hi - cap.next + 1
    OBVIOUS
  <2>1. End >= cap.hi BY DEF CacheInv, CacheExact, End
  <2>2. \A l, m, h, e, x \in Nat : e + 1 = l + x /\ e >= h /\ l <= m => x >= h - m + 1
    OBVIOUS
  <2>3. /\ cap.lo \in Nat /\ cap.next \in Nat /\ cap.hi \in Nat /\ End \in Nat
        /\ Len(cap.events) \in Nat /\ End + 1 = cap.lo + Len(cap.events) /\ cap.lo <= cap.next
    BY <1>1 DEF Bounds
  <2> QED BY <2>1, <2>2, <2>3
<1>7. cap'.state = "INIT" => cap'.cnt >= cap'.hi - cap'.next + 1 BY <1>5, <1>6
<1>8. cap'.listed => ~cap'.held BY <1>5 DEF CacheInv, PlaceInv
<1> QED BY <1>2, <1>4, <1>5, <1>7, <1>8, Kept

LEMMA CacheCaching == CacheInv /\ Signals /\ Caching => CacheInv'
<1> SUFFICES ASSUME CacheInv, Signals, Caching PROVE CacheInv'
  OBVIOUS
<1> USE DEF Thread
<1>1. CASE cap_connect BY <1>1, CacheConnect
<1>2. CASE cap_subscribed BY <1>2, Same DEF cap_subscribed
<1>3. CASE cap_fail BY <1>3, Ended DEF cap_fail
<1>4. CASE cap_start BY <1>4, CacheBegin
<1>5. CASE cap_check
  <2>1. CASE ctrl = "START" BY <1>5, <2>1, Same DEF cap_check
  <2>2. CASE ctrl # "START" BY <1>5, <2>2, Ended DEF cap_check
  <2> QED BY <2>1, <2>2
<1>6. CASE cap_timeout BY <1>6, Same DEF cap_timeout
<1>7. CASE cap_event BY <1>7, CacheRead
<1> QED BY <1>1, <1>2, <1>3, <1>4, <1>5, <1>6, <1>7 DEF Caching

LEMMA CacheStep == CacheInv /\ Signals /\ [Next]_vars => CacheInv'
<1> SUFFICES ASSUME CacheInv, Signals, [Next]_vars PROVE CacheInv'
  OBVIOUS
<1>1. CASE UNCHANGED vars
  <2>1. UNCHANGED <<stream, cap, thr, ctrl, main>> BY <1>1 DEF vars, requestvars
  <2>2. CapType' BY <2>1 DEF CacheInv, CapType
  <2>3. cap'.state = "INIT" /\ thr' \in {"check", "recv"} => cap'.cnt >= cap'.hi - cap'.next + 1
    BY <2>1 DEF CacheInv, InitInv
  <2>4. /\ cap'.listed => ~cap'.held
        /\ thr' = "new" => cap' = Capture /\ main' \in {"startup", "poll"}
    BY <2>1 DEF CacheInv, PlaceInv
  <2> QED BY <2>1, <2>2, <2>3, <2>4, Kept
<1> QED BY <1>1, CacheRequest, CacheServe, CacheCaching, CachePublish DEF Next

LEMMA CacheAlways == Spec => []CacheInv
  BY CacheInit, CacheStep, SignalsAlways, PTL DEF Spec

\* m_events is an unbroken run of the stream that begins with the stock, no
\* event twice and none left out, and after an overflow m_last_events has the
\* last event of each runtime id, whatever the stock, the events the socket
\* holds of it and the interleaving of the publishers.
THEOREM CachedExactly == Spec => []CacheExact
<1>1. CacheInv => CacheExact BY DEF CacheInv
<1> QED BY <1>1, CacheAlways, PTL

\* No event that an overflow drops goes uncounted: m_total_missed_cache has
\* at least the events read after m_events was full that m_last_events does
\* not keep.
THEOREM DropsCounted == Spec => []MissedCounted
<1>1. CacheInv => MissedCounted BY DEF CacheInv
<1> QED BY <1>1, CacheAlways, PTL

(***************************************************************************)
(* The events a sequence holds: what Full returns.                         *)
(***************************************************************************)
Pairs == Nat \X Nat

\* A set of numbers that is not empty has a least one, so induction over the
\* numbers is a statement about sets.
LEMMA Induction ==
  ASSUME NEW S, 0 \in S, \A n \in Nat : n \in S => n + 1 \in S
  PROVE  Nat \subseteq S
<1> SUFFICES ASSUME Nat \ S # {} PROVE FALSE OBVIOUS
<1> DEFINE R == OpToRel(<, Nat)
           T == Nat \ S
<1>1. IsWellFoundedOn(R, Nat) BY NatLessThanWellFounded, ZenonT(30)
<1>2. \A p, q \in Nat : p < q => <<p, q>> \in R BY DEF OpToRel
<1> HIDE DEF R
<1>3. T \in SUBSET Nat /\ T # {} OBVIOUS
<1> HIDE DEF T
<1>4. PICK x \in T : \A y \in T : ~(<<y, x>> \in R) BY <1>1, <1>3, WFMin,
                                                       ZenonT(30)
<1>5. x \in Nat /\ x \notin S BY <1>4 DEF T
<1>6. x # 0 /\ x - 1 \in Nat /\ x - 1 < x /\ (x - 1) + 1 = x BY <1>5
<1>7. <<x - 1, x>> \in R BY <1>2, <1>5, <1>6
<1>8. x - 1 \notin T BY <1>4, <1>7
<1>9. x - 1 \in S BY <1>6, <1>8 DEF T
<1> QED BY <1>5, <1>6, <1>9

\* The function Full is defined with, and what it is up to n.
Steps(q, f) ==
  f = [i \in 0..Len(q) |-> IF i = 0 THEN <<>>
                           ELSE IF q[i][2] # 0 THEN Append(f[i - 1], q[i])
                           ELSE f[i - 1]]

Part(q, n, f) ==
  /\ f \in [0..n -> Seq(Pairs)] /\ f[0] = <<>>
  /\ \A i \in 1..n :
       f[i] = IF q[i][2] # 0 THEN Append(f[i - 1], q[i]) ELSE f[i - 1]

\* One more entry.
LEMMA PartGrows ==
  ASSUME NEW q \in Seq(Pairs), NEW n \in Nat, n + 1 <= Len(q), NEW f, Part(q, n, f)
  PROVE  \E g : Part(q, n + 1, g)
<1> DEFINE v == IF q[n + 1][2] # 0 THEN Append(f[n], q[n + 1]) ELSE f[n]
           g == [i \in 0..(n + 1) |-> IF i <= n THEN f[i] ELSE v]
<1>1. f \in [0..n -> Seq(Pairs)] /\ f[0] = <<>> BY DEF Part
<1>2. f[n] \in Seq(Pairs) /\ q[n + 1] \in Pairs BY <1>1
<1>3. v \in Seq(Pairs) BY <1>2
<1> HIDE DEF v
<1>4. /\ \A i \in 0..n : i <= n /\ i \in 0..(n + 1)
      /\ n + 1 \in 0..(n + 1) /\ ~(n + 1 <= n)
      /\ \A i \in 0..(n + 1) : i <= n => i \in 0..n
  OBVIOUS
<1>5. g \in [0..(n + 1) -> Seq(Pairs)] BY <1>1, <1>3, <1>4
<1>6. \A i \in 0..n : g[i] = f[i] BY <1>4
<1>7. g[n + 1] = v BY <1>4
<1>8. g[0] = <<>> BY <1>1, <1>6, SMTT(20)
<1> HIDE DEF g
<1>9. ASSUME NEW i \in 1..(n + 1)
      PROVE  g[i] = IF q[i][2] # 0 THEN Append(g[i - 1], q[i]) ELSE g[i - 1]
  <2>1. CASE i <= n
    <3>1. i \in 1..n /\ i \in 0..n /\ i - 1 \in 0..n BY <2>1
    <3>2. g[i] = f[i] /\ g[i - 1] = f[i - 1] BY <1>6, <3>1
    <3> QED BY <3>1, <3>2, ZenonT(30) DEF Part
  <2>2. CASE i = n + 1
    <3>1. i - 1 = n /\ n \in 0..n BY <2>2
    <3>2. g[i - 1] = f[n] BY <1>6, <3>1
    <3> QED BY <1>7, <2>2, <3>2 DEF v
  <2> QED BY <2>1, <2>2
<1>10. Part(q, n + 1, g) BY <1>5, <1>8, <1>9 DEF Part
<1> QED BY <1>10

\* The recursive function Full is defined by exists, for every sequence of
\* pairs.
LEMMA StepsExist ==
  ASSUME NEW q \in Seq(Pairs)
  PROVE  \E f : Steps(q, f)
<1> DEFINE S == {n \in Nat : n <= Len(q) => \E f : Part(q, n, f)}
<1>1. 0 \in S
  <2> DEFINE f == [i \in 0..0 |-> <<>>]
  <2>1. <<>> \in Seq(Pairs) /\ 0 \in 0..0 /\ 1..0 = {} OBVIOUS
  <2>2. f \in [0..0 -> Seq(Pairs)] /\ f[0] = <<>> BY <2>1
  <2>3. Part(q, 0, f) BY <2>1, <2>2 DEF Part
  <2> QED BY <2>3
<1>2. ASSUME NEW n \in Nat, n \in S PROVE n + 1 \in S
  <2> SUFFICES ASSUME n + 1 <= Len(q) PROVE \E f : Part(q, n + 1, f) OBVIOUS
  <2>1. n <= Len(q) OBVIOUS
  <2>2. PICK f : Part(q, n, f) BY <1>2, <2>1
  <2> QED BY <2>2, PartGrows
<1> HIDE DEF S
<1>3. Nat \subseteq S BY <1>1, <1>2, Induction
<1>4. Len(q) \in Nat /\ Len(q) <= Len(q) OBVIOUS
<1>5. PICK f : Part(q, Len(q), f) BY <1>3, <1>4 DEF S
<1>6. f = [i \in 0..Len(q) |-> f[i]] BY <1>5 DEF Part
<1>7. \A i \in 0..Len(q) :
        f[i] = IF i = 0 THEN <<>>
               ELSE IF q[i][2] # 0 THEN Append(f[i - 1], q[i]) ELSE f[i - 1]
  <2>1. \A i \in 0..Len(q) : i = 0 \/ i \in 1..Len(q) BY <1>4
  <2> QED BY <1>5, <2>1, ZenonT(30) DEF Part
<1>8. Steps(q, f) BY <1>6, <1>7, ZenonT(30) DEF Steps
<1> QED BY <1>8

\* Full(q) is what is built entry by entry.
LEMMA FullBuilt ==
  ASSUME NEW q \in Seq(Pairs)
  PROVE  \E f : /\ f[0] = <<>> /\ Full(q) = f[Len(q)]
                /\ \A n \in Nat : n + 1 <= Len(q) =>
                     f[n + 1] = IF q[n + 1][2] # 0
                                THEN Append(f[n], q[n + 1]) ELSE f[n]
<1>1. Full(q) = (CHOOSE f : Steps(q, f))[Len(q)] BY DEF Full, Steps
<1>2. PICK f : Steps(q, f) /\ Full(q) = f[Len(q)] BY <1>1, StepsExist,
                                                     ZenonT(30)
<1>3. Len(q) \in Nat OBVIOUS
<1>4. \A i \in 0..Len(q) :
        f[i] = IF i = 0 THEN <<>>
               ELSE IF q[i][2] # 0 THEN Append(f[i - 1], q[i]) ELSE f[i - 1]
  BY <1>2, ZenonT(30) DEF Steps
<1>5. f[0] = <<>> BY <1>3, <1>4
<1>6. ASSUME NEW n \in Nat, n + 1 <= Len(q)
      PROVE  f[n + 1] = IF q[n + 1][2] # 0
                        THEN Append(f[n], q[n + 1]) ELSE f[n]
  <2>1. n + 1 \in 0..Len(q) /\ n + 1 # 0 /\ (n + 1) - 1 = n BY <1>3, <1>6
  <2> QED BY <1>4, <2>1
<1> QED BY <1>2, <1>5, <1>6

\* Its entries are those of the sequence.
LEMMA FullType ==
  ASSUME NEW q \in Seq(Pairs), NEW E,
         \A i \in 1..Len(q) : q[i][2] # 0 => q[i] \in E
  PROVE  Full(q) \in Seq(E)
<1>1. PICK f : /\ f[0] = <<>> /\ Full(q) = f[Len(q)]
               /\ \A n \in Nat : n + 1 <= Len(q) =>
                     f[n + 1] = IF q[n + 1][2] # 0
                                THEN Append(f[n], q[n + 1]) ELSE f[n]
  BY FullBuilt
<1> DEFINE S == {n \in Nat : n <= Len(q) => f[n] \in Seq(E)}
<1>2. 0 \in S
  <2>1. <<>> \in Seq(E) OBVIOUS
  <2> QED BY <1>1, <2>1, ZenonT(30)
<1>3. ASSUME NEW n \in Nat, n \in S PROVE n + 1 \in S
  <2> SUFFICES ASSUME n + 1 <= Len(q) PROVE f[n + 1] \in Seq(E) OBVIOUS
  <2>1. n <= Len(q) /\ n + 1 \in 1..Len(q) OBVIOUS
  <2>2. f[n] \in Seq(E) BY <1>3, <2>1
  <2>3. q[n + 1][2] # 0 => q[n + 1] \in E BY <2>1
  <2>4. q[n + 1][2] # 0 => Append(f[n], q[n + 1]) \in Seq(E) BY <2>2, <2>3
  <2> QED BY <1>1, <2>2, <2>4, ZenonT(30)
<1> HIDE DEF S
<1>4. Nat \subseteq S BY <1>2, <1>3, Induction
<1>5. Len(q) \in S BY <1>4
<1> QED BY <1>1, <1>5 DEF S

\* Of strings moved from, and of runtime ids without an event, it has none.
LEMMA FullNone ==
  ASSUME NEW q \in Seq(Pairs), \A i \in 1..Len(q) : q[i][2] = 0
  PROVE  Full(q) = <<>>
<1>1. Full(q) \in Seq({}) BY FullType
<1> QED BY <1>1

\* Of events it leaves out none.
LEMMA FullAll ==
  ASSUME NEW q \in Seq(Pairs), \A i \in 1..Len(q) : q[i][2] # 0
  PROVE  Full(q) = q
<1>1. PICK f : /\ f[0] = <<>> /\ Full(q) = f[Len(q)]
               /\ \A n \in Nat : n + 1 <= Len(q) =>
                     f[n + 1] = IF q[n + 1][2] # 0
                                THEN Append(f[n], q[n + 1]) ELSE f[n]
  BY FullBuilt
<1> DEFINE Alike(n) == /\ f[n] \in Seq(Pairs) /\ Len(f[n]) = n
                      /\ \A i \in 1..n : f[n][i] = q[i]
           S == {n \in Nat : n <= Len(q) => Alike(n)}
<1>2. 0 \in S
  <2>1. <<>> \in Seq(Pairs) /\ Len(<<>>) = 0 /\ 1..0 = {} OBVIOUS
  <2>2. Alike(0) BY <1>1, <2>1
  <2> HIDE DEF Alike
  <2> QED BY <2>2
<1>3. ASSUME NEW n \in Nat, n \in S PROVE n + 1 \in S
  <2> SUFFICES ASSUME n + 1 <= Len(q) PROVE Alike(n + 1) OBVIOUS
  <2>1. n <= Len(q) /\ n + 1 \in 1..Len(q) /\ q[n + 1] \in Pairs OBVIOUS
  <2>2. Alike(n) BY <1>3, <2>1
  <2>3. f[n + 1] = Append(f[n], q[n + 1]) BY <1>1, <2>1, ZenonT(30)
  <2>4. /\ Append(f[n], q[n + 1]) \in Seq(Pairs)
        /\ Len(Append(f[n], q[n + 1])) = n + 1
        /\ \A i \in 1..n : Append(f[n], q[n + 1])[i] = f[n][i]
        /\ Append(f[n], q[n + 1])[n + 1] = q[n + 1]
    BY <2>1, <2>2
  <2>5. \A i \in 1..(n + 1) : i \in 1..n \/ i = n + 1 OBVIOUS
  <2> QED BY <2>2, <2>3, <2>4, <2>5
<1>4. S \subseteq Nat /\ \A n \in S : n <= Len(q) => Alike(n) OBVIOUS
<1> HIDE DEF S
<1>5. Nat \subseteq S BY <1>2, <1>3, Induction, SMTT(20)
<1>6. Alike(Len(q)) BY <1>4, <1>5
<1> QED BY <1>1, <1>6

\* Events and moved-from strings are pairs, told apart by their sequence number.
LEMMA EventPairs ==
  /\ Event \subseteq Pairs /\ Blank \in Pairs /\ Blank[2] = 0
  /\ \A e \in Event : e[2] # 0
  /\ Seq(Event) \subseteq Seq(Pairs) /\ Seq(Event \cup {Blank}) \subseteq Seq(Pairs)
  /\ Seq(Event) \subseteq Seq(Event \cup {Blank})
<1>1. Event \subseteq Pairs BY BoundsNat DEF Event, Pairs, Rid
<1>2. Blank \in Pairs /\ Blank[2] = 0 BY DEF Blank, Pairs
<1>3. \A e \in Event : e[2] # 0 BY DEF Event
<1>4. Event \cup {Blank} \subseteq Pairs BY <1>1, <1>2
<1>5. \A A, B : A \subseteq B => Seq(A) \subseteq Seq(B) OBVIOUS
<1> QED BY <1>1, <1>2, <1>3, <1>4, <1>5

\* What a read returns of the cache is events, and all of its events.
LEMMA FullOf ==
  ASSUME NEW q \in Seq(Event \cup {Blank})
  PROVE  Full(q) \in Seq(Event)
<1>1. q \in Seq(Pairs) BY EventPairs
<1>2. \A i \in 1..Len(q) : q[i] \in Event \cup {Blank} OBVIOUS
<1>3. \A i \in 1..Len(q) : q[i][2] # 0 => q[i] \in Event BY <1>2, EventPairs
<1> QED BY <1>1, <1>3, FullType

\* A sequence of events keeps all of them.
LEMMA FullSame ==
  ASSUME NEW q \in Seq(Event)
  PROVE  Full(q) = q
<1>1. q \in Seq(Pairs) BY EventPairs
<1>2. \A i \in 1..Len(q) : q[i] \in Event OBVIOUS
<1>3. \A i \in 1..Len(q) : q[i][2] # 0 BY <1>2, EventPairs
<1> QED BY <1>1, <1>3, FullAll

\* What a read leaves behind holds none.
LEMMA FullRest ==
  ASSUME NEW q \in Seq(Event \cup {Blank})
  PROVE  Read(q).rest \in Seq(Event \cup {Blank}) /\ Full(Read(q).rest) = <<>>
<1> DEFINE n == Len(q) - Prefix(q)
           b == [i \in 1..n |-> Blank]
<1>1. n \in Nat
  <2>1. Len(q) \in Nat /\ ReadSetSize \in Nat BY BoundsNat
  <2> QED BY <2>1 DEF Prefix
<1>2. Read(q).rest = b BY DEF Read
<1> HIDE DEF n
<1>3. b \in Seq(Event \cup {Blank}) /\ b \in Seq(Pairs) /\ Len(b) = n
  BY <1>1, EventPairs
<1>4. \A i \in 1..Len(b) : b[i][2] = 0 BY <1>3, EventPairs, ZenonT(30)
<1>5. Full(b) = <<>> BY <1>3, <1>4, FullNone, ZenonT(30)
<1> QED BY <1>2, <1>3, <1>5

\* The last-event map of a capture is listed as events.
LEMMA ListedType ==
  ASSUME NEW last \in [Rid -> 0..MaxStream]
  PROVE  Listed(last) \in Seq(Event)
<1> DEFINE q == [r \in 1..Rids |-> <<r, last[r]>>]
<1>1. Rids \in Nat /\ MaxStream \in Nat BY BoundsNat
<1>2. \A r \in 1..Rids : last[r] \in 0..MaxStream BY DEF Rid
<1>3. \A r \in 1..Rids : <<r, last[r]>> \in Pairs BY <1>1, <1>2 DEF Pairs
<1>4. q \in Seq(Pairs) /\ Len(q) = Rids BY <1>1, <1>3
<1>5. ASSUME NEW r \in 1..Len(q), q[r][2] # 0 PROVE q[r] \in Event
  <2>1. r \in Rid /\ q[r] = <<r, last[r]>> BY <1>4, ZenonT(30) DEF Rid
  <2>2. last[r] # 0 /\ last[r] \in 1..MaxStream BY <1>1, <1>2, <1>5, <2>1 DEF Rid
  <2> QED BY <2>1, <2>2 DEF Event
<1> HIDE DEF q
<1>6. Full(q) \in Seq(Event) BY <1>4, <1>5, FullType
<1> QED BY <1>6 DEF Listed, q

\* An empty last-event map lists nothing.
LEMMA ListedNone == Listed(NoSeq) = <<>>
<1> DEFINE q == [r \in 1..Rids |-> <<r, NoSeq[r]>>]
<1>1. Rids \in Nat BY BoundsNat
<1>2. \A r \in 1..Rids : NoSeq[r] = 0 BY DEF NoSeq, Rid
<1>3. \A r \in 1..Rids : <<r, NoSeq[r]>> \in Pairs BY <1>1, <1>2 DEF Pairs
<1>4. q \in Seq(Pairs) /\ Len(q) = Rids BY <1>1, <1>3
<1>5. \A r \in 1..Len(q) : q[r][2] = 0 BY <1>2, <1>4, ZenonT(30)
<1> HIDE DEF q
<1>6. Full(q) = <<>> BY <1>4, <1>5, FullNone
<1> QED BY <1>6 DEF Listed, q

(***************************************************************************)
(* Types, and what the reads return.                                       *)
(***************************************************************************)
\* An event's number is at most its place in the stream.
Numbered(q) == /\ q \in Seq(Event) /\ Len(q) <= MaxStream
               /\ \A i \in 1..Len(q) : q[i][2] <= i

Plain ==
  /\ main \in {"startup", "recv", "join_init", "poll", "drain", "join_stop",
               "join_reset", "exit", "end"}
  /\ have \in BOOLEAN /\ skip \in BOOLEAN /\ paused \in BOOLEAN
  /\ init_done \in BOOLEAN /\ mark \in Nat
  /\ ctrl \in {"NEED_INIT", "INIT", "START", "STOP"}
  /\ thr \in {"new", "subscribe", "wait", "check", "recv", "done"}

\* What is being read: of the cache, of the reply and of the history.
Reading(f, l, a, g, w) ==
  /\ f \in Seq(Event \cup {Blank}) /\ a \in Seq(Event \cup {Blank})
  /\ g \in Seq(Event) /\ w \in Seq(Event) /\ l \in [Rid -> 0..MaxStream]
  /\ (g \o Full(f)) \o Listed(l) = w

ReadInv == /\ Numbered(stream) /\ Plain /\ Reading(fifo, flast, resp, got, want)

\* Every number in a run of the stream is within the bound.
LEMMA LastBound ==
  ASSUME Ordered(stream), Numbered(stream), NEW r \in Rid,
         NEW lo \in 1..(Len(stream) + 1), NEW hi \in 0..Len(stream), lo <= hi + 1
  PROVE  LastSeq(SubSeq(stream, lo, hi), r) \in 0..Len(stream)
<1>1. PICK s \in Nat : LastIn(stream, lo, hi, r, s) BY DEF Ordered
<1>2. LastSeq(SubSeq(stream, lo, hi), r) = s BY <1>1, LastIs
<1>3. Len(stream) \in Nat BY DEF Numbered
<1>4. ASSUME NEW i \in lo..hi, stream[i] = <<r, s>> PROVE s <= Len(stream)
  <2>1. i \in 1..Len(stream) /\ i <= Len(stream) /\ i \in Nat BY <1>3
  <2>2. stream[i][2] = s BY <1>4
  <2>3. s <= i BY <2>1, <2>2 DEF Numbered
  <2> QED BY <1>3, <2>1, <2>3
<1>5. s = 0 \/ s <= Len(stream) BY <1>1, <1>4 DEF LastIn
<1> QED BY <1>1, <1>2, <1>3, <1>5

\* A published event keeps the stream within its bound and its numbers.
LEMMA NumberedPublish ==
  ASSUME Ordered(stream), Numbered(stream), NEW r \in Rid, publish(r)
  PROVE  Numbered(stream')
<1> DEFINE n == Len(stream)
           s == Published(r)
           e == <<r, s + 1>>
<1>1. n \in Nat /\ stream \in Seq(Events) /\ stream \in Seq(Event) /\ MaxStream \in Nat
  BY BoundsNat DEF Ordered, Numbered
<1>2. SubSeq(stream, 1, n) = stream
  <2>1. /\ SubSeq(stream, 1, n) \in Seq(Events) /\ Len(SubSeq(stream, 1, n)) = n
        /\ \A i \in 1..n : SubSeq(stream, 1, n)[i] = stream[i]
    BY <1>1, SubSeqIs
  <2> QED BY <1>1, <2>1
<1>3. s \in 0..n
  <2>1. 1 \in 1..(n + 1) /\ n \in 0..n /\ 1 <= n + 1 BY <1>1
  <2>2. LastSeq(SubSeq(stream, 1, n), r) \in 0..n BY <2>1, LastBound
  <2> QED BY <1>2, <2>2, ZenonT(30) DEF Published
<1>4. n < MaxStream /\ stream' = Append(stream, e) BY DEF publish
<1> HIDE DEF s, n
<1>5. e \in Event /\ e[2] = s + 1 /\ s + 1 <= n + 1 BY <1>1, <1>3, <1>4 DEF Event
<1> HIDE DEF e
<1>6. /\ stream' \in Seq(Event) /\ Len(stream') = n + 1 /\ stream'[n + 1] = e
      /\ \A i \in 1..n : stream'[i] = stream[i]
  BY <1>1, <1>4, <1>5 DEF n
<1>7. ASSUME NEW i \in 1..(n + 1) PROVE stream'[i][2] <= i
  <2>1. CASE i \in 1..n BY <1>6, <2>1, SMTT(20) DEF Numbered, n
  <2>2. CASE i = n + 1 BY <1>5, <1>6, <2>2
  <2> QED BY <1>1, <2>1, <2>2
<1>8. n + 1 <= MaxStream BY <1>1, <1>4
<1> QED BY <1>6, <1>7, <1>8, SMTT(20) DEF Numbered

\* A sequence whose elements are events is a sequence of events.
LEMMA EventsOnly ==
  ASSUME NEW q \in Seq(Events), \A i \in 1..Len(q) : q[i] \in Event
  PROVE  q \in Seq(Event)
<1>1. Len(q) \in Nat /\ q = [i \in 1..Len(q) |-> q[i]] OBVIOUS
<1>2. q \in [1..Len(q) -> Event] BY <1>1
<1> QED BY <1>1, <1>2

\* m_events is of events, and m_last_events of their numbers.
LEMMA CacheTypes ==
  ASSUME CacheInv, Numbered(stream)
  PROVE  cap.events \in Seq(Event) /\ cap.last \in [Rid -> 0..MaxStream]
<1>1. Bounds /\ Cached BY Ends
<1>2. /\ cap.events = SubSeq(stream, cap.lo, End) /\ stream \in Seq(Events)
      /\ cap.events \in Seq(Events)
  BY <1>1 DEF Cached
<1>3. /\ cap.lo \in Nat \ {0} /\ End \in Nat /\ cap.lo <= End + 1 /\ End <= Len(stream)
      /\ Len(stream) \in Nat /\ Len(stream) <= MaxStream /\ MaxStream \in Nat
  BY <1>1, BoundsNat DEF Bounds, Numbered
<1>4. /\ Len(cap.events) = End - cap.lo + 1
      /\ \A i \in 1..(End - cap.lo + 1) : cap.events[i] = stream[cap.lo + i - 1]
  BY <1>2, <1>3, SubSeqIs, SMTT(20)
<1>5. \A i \in 1..Len(cap.events) : cap.events[i] \in Event
  <2> SUFFICES ASSUME NEW i \in 1..Len(cap.events) PROVE cap.events[i] \in Event OBVIOUS
  <2>1. cap.lo + i - 1 \in 1..Len(stream) BY <1>3, <1>4
  <2>2. stream[cap.lo + i - 1] \in Event BY <2>1 DEF Numbered
  <2> QED BY <1>4, <2>2
<1>6. cap.events \in Seq(Event) BY <1>2, <1>5, EventsOnly, Zenon
<1>7. cap.last \in [Rid -> 0..MaxStream]
  <2>1. CASE cap.state # "LAST"
    <3>1. cap.last = NoSeq BY <2>1 DEF CacheInv, PlaceInv
    <3>2. 0 \in 0..MaxStream BY <1>3
    <3> QED BY <3>1, <3>2 DEF NoSeq
  <2>2. CASE cap.state = "LAST"
    <3> DEFINE q == SubSeq(stream, End + 1, cap.next - 1)
    <3>1. cap.last = [r \in Rid |-> LastSeq(q, r)]
      BY <2>2 DEF CacheInv, CacheExact, End
    <3>2. cap.lo + Len(cap.events) <= cap.next BY <2>2 DEF CacheInv, PlaceInv
    <3>3. /\ cap.next \in Nat \ {0} /\ cap.next <= Len(stream) + 1
          /\ End + 1 = cap.lo + Len(cap.events)
      BY <1>1 DEF Bounds
    <3>4. End + 1 <= cap.next BY <3>2, <3>3
    <3>5. /\ End + 1 \in 1..(Len(stream) + 1) /\ cap.next - 1 \in 0..Len(stream)
          /\ End + 1 <= (cap.next - 1) + 1
      BY <1>3, <3>3, <3>4
    <3>6. Ordered(stream) BY DEF CacheInv
    <3>7. ASSUME NEW r \in Rid PROVE LastSeq(q, r) \in 0..MaxStream
      <4>1. LastSeq(q, r) \in 0..Len(stream) BY <3>5, <3>6, LastBound
      <4> QED BY <1>3, <4>1
    <3> HIDE DEF q
    <3> QED BY <3>1, <3>7, SMTT(20)
  <2> QED BY <2>1, <2>2
<1> QED BY <1>6, <1>7

\* Nothing cached and nothing read.
LEMMA ReadNothing ==
  ASSUME NEW a \in Seq(Event \cup {Blank})
  PROVE  Reading(<<>>, NoSeq, a, <<>>, <<>>)
<1>1. NoSeq \in [Rid -> 0..MaxStream] BY BoundsNat DEF NoSeq
<1>2. <<>> \in Seq(Event) /\ <<>> \in Seq(Event \cup {Blank}) OBVIOUS
<1>3. Full(<<>>) = <<>> BY <1>2, FullSame, ZenonT(30)
<1>4. <<>> \o <<>> = <<>> OBVIOUS
<1> QED BY <1>1, <1>2, <1>3, <1>4, ListedNone DEF Reading

\* A daemon that starts has nothing to read.
LEMMA ReadInit == Init => ReadInv
<1> SUFFICES ASSUME Init PROVE ReadInv OBVIOUS
<1>1. Numbered(stream) BY BoundsNat DEF Init, Numbered
<1>2. Plain BY ZenonT(30) DEF Init, Plain
<1>3. Reading(<<>>, NoSeq, <<>>, <<>>, <<>>)
  <2>1. <<>> \in Seq(Event \cup {Blank}) OBVIOUS
  <2> QED BY <2>1, ReadNothing, ZenonT(30)
<1> QED BY <1>1, <1>2, <1>3 DEF Init, ReadInv

\* The locations and flags.
LEMMA PlainStep ==
  ASSUME Plain, Numbered(stream), [Next]_vars
  PROVE  Plain'
<1>0. Len(stream) \in Nat /\ 0 \in Nat BY DEF Numbered
<1> USE DEF Main, Thread, requestvars
<1>1. CASE Request
  <2>1. req_init \/ req_start \/ req_start_refused => Plain'
    BY <1>0, ZenonT(30) DEF req_init, req_start, req_start_refused, Plain
  <2>2. req_stop \/ req_stop_refused \/ req_refused \/ req_exit => Plain'
    BY <1>0, ZenonT(30) DEF req_stop, req_stop_refused, req_refused, req_exit, Plain
  <2>3. req_read => Plain' BY <1>0, ZenonT(30) DEF req_read, Plain
  <2> QED BY <1>1, <2>1, <2>2, <2>3, Zenon DEF Request
<1>2. CASE Serve
  BY <1>0, <1>2, ZenonT(30)
     DEF Serve, startup, startup_fail, create, poll, drained, join_stop,
     join_reset, exited, Plain
<1>3. CASE Caching
  BY <1>3, ZenonT(30)
     DEF Caching, cap_connect, cap_subscribed, cap_fail, cap_start, cap_check,
     cap_timeout, cap_event, Plain
<1>4. ASSUME NEW r \in Rid, publish(r) PROVE Plain' BY <1>4 DEF publish, Plain
<1>5. CASE UNCHANGED vars BY <1>5 DEF vars, Plain
<1> QED BY <1>1, <1>2, <1>3, <1>4, <1>5, SMTT(20) DEF Next

\* The reply and the cache as they are, or an empty reply.
LEMMA ReadSame ==
  ASSUME Reading(fifo, flast, resp, got, want), UNCHANGED <<fifo, flast, got, want>>,
         resp' = resp \/ resp' = <<>>
  PROVE  Reading(fifo, flast, resp, got, want)'
<1>1. resp' \in Seq(Event \cup {Blank})
  <2>1. resp \in Seq(Event \cup {Blank}) BY DEF Reading
  <2>2. <<>> \in Seq(Event \cup {Blank}) OBVIOUS
  <2> QED BY <2>1, <2>2, ZenonT(30)
<1> QED BY <1>1 DEF Reading

\* CACHE_READ returns what it takes from the cache.
LEMMA ReadRead ==
  ASSUME Reading(fifo, flast, resp, got, want), req_read
  PROVE  Reading(fifo, flast, resp, got, want)'
<1> DEFINE all == IF fifo = <<>> THEN Listed(flast) ELSE fifo
           L == Listed(flast)
<1>1. /\ resp' = Read(all).resp /\ got' = got \o Full(resp') /\ fifo' = Read(all).rest
      /\ flast' = IF fifo = <<>> THEN NoSeq ELSE flast
      /\ want' = want
  BY DEF req_read
<1>2. /\ fifo \in Seq(Event \cup {Blank}) /\ got \in Seq(Event) /\ want \in Seq(Event)
      /\ flast \in [Rid -> 0..MaxStream] /\ (got \o Full(fifo)) \o L = want
  BY DEF Reading
<1>3. L \in Seq(Event) /\ L \in Seq(Event \cup {Blank}) BY <1>2, ListedType, EventPairs
<1> HIDE DEF L
<1>4. all \in Seq(Event \cup {Blank}) BY <1>2, <1>3 DEF L
<1>5. resp' = all BY <1>1 DEF Read
<1>6. fifo' \in Seq(Event \cup {Blank}) /\ Full(fifo') = <<>> BY <1>1, <1>4, FullRest,
                                                                 SMTT(20)
<1>7. Full(all) \in Seq(Event) BY <1>4, FullOf, SMTT(20)
<1>8. got' = got \o Full(all) BY <1>1, <1>5, ZenonT(30)
<1> HIDE DEF all
<1>9. got' \in Seq(Event) /\ got' \o <<>> = got' BY <1>2, <1>7, <1>8
<1>10. NoSeq \in [Rid -> 0..MaxStream] BY BoundsNat DEF NoSeq
<1>11. CASE fifo = <<>>
  <2>1. all = L /\ flast' = NoSeq BY <1>1, <1>11 DEF all, L
  <2>2. Full(all) = L BY <1>3, <2>1, FullSame
  <2>3. Full(fifo) = <<>>
    <3>1. <<>> \in Seq(Event) OBVIOUS
    <3> QED BY <1>11, <3>1, FullSame, ZenonT(30)
  <2>4. got \o <<>> = got BY <1>2
  <2>5. got' = want BY <1>2, <1>8, <2>2, <2>3, <2>4
  <2>6. (got' \o Full(fifo')) \o Listed(flast') = want'
    BY <1>1, <1>6, <1>9, <2>1, <2>5, ListedNone, ZenonT(30)
  <2> QED BY <1>1, <1>2, <1>4, <1>5, <1>6, <1>9, <1>10, <2>1, <2>6, ZenonT(30)
             DEF Reading
<1>12. CASE fifo # <<>>
  <2>1. all = fifo /\ flast' = flast BY <1>1, <1>12 DEF all
  <2>2. (got' \o Full(fifo')) \o Listed(flast') = want'
    <3>1. got' \o Full(fifo') = got \o Full(fifo) BY <1>6, <1>8, <1>9, <2>1
    <3> QED BY <1>1, <1>2, <2>1, <3>1, ZenonT(30) DEF L
  <2> QED BY <1>1, <1>2, <1>4, <1>5, <1>6, <1>9, <2>1, <2>2, ZenonT(30)
             DEF Reading
<1> QED BY <1>11, <1>12

\* CACHE_STOP hands over the cache.
LEMMA ReadStop ==
  ASSUME CacheInv, Numbered(stream), Reading(fifo, flast, resp, got, want), join_stop
  PROVE  Reading(fifo, flast, resp, got, want)'
<1>1. /\ fifo' = cap.events /\ flast' = (IF cap.listed THEN cap.last ELSE NoSeq)
      /\ want' = cap.events \o Listed(flast') /\ got' = <<>> /\ resp' = resp
  BY DEF join_stop
<1>2. cap.events \in Seq(Event) /\ cap.last \in [Rid -> 0..MaxStream] BY CacheTypes
<1>3. NoSeq \in [Rid -> 0..MaxStream] BY BoundsNat, SMTT(20) DEF NoSeq
<1>4. flast' \in [Rid -> 0..MaxStream] BY <1>1, <1>2, <1>3
<1>5. Listed(flast') \in Seq(Event) BY <1>4, ListedType, SMTT(20)
<1>6. fifo' \in Seq(Event) /\ fifo' \in Seq(Event \cup {Blank}) BY <1>1, <1>2, EventPairs
<1>7. Full(fifo') = fifo' BY <1>6, FullSame
<1>8. got' \in Seq(Event) /\ got' \o fifo' = fifo' BY <1>1, <1>6
<1>9. want' = fifo' \o Listed(flast') BY <1>1
<1>10. want' \in Seq(Event) BY <1>5, <1>6, <1>9
<1>11. (got' \o Full(fifo')) \o Listed(flast') = want' BY <1>7, <1>8, <1>9,
                                                          SMTT(20)
<1>12. resp' \in Seq(Event \cup {Blank}) BY <1>1 DEF Reading
<1> QED BY <1>4, <1>6, <1>8, <1>10, <1>11, <1>12 DEF Reading

\* Every step keeps what was read, and what is left to read, equal to the cache.
LEMMA ReadStep ==
  ASSUME CacheInv, ReadInv, [Next]_vars
  PROVE  ReadInv'
<1>0. /\ Numbered(stream) /\ Plain /\ Reading(fifo, flast, resp, got, want)
      /\ Ordered(stream)
  BY DEF ReadInv, CacheInv
<1>1. Plain' BY <1>0, PlainStep
<1>2. Numbered(stream')
  <2>1. ASSUME NEW r \in Rid, publish(r) PROVE Numbered(stream')
    BY <1>0, <2>1, NumberedPublish
  <2>2. CASE UNCHANGED stream BY <1>0, <2>2, SMTT(20)
  <2>3. Request => UNCHANGED stream
    BY ZenonT(30)
       DEF Request, req_init, req_start, req_start_refused, req_stop,
       req_stop_refused, req_read, req_refused, req_exit
  <2>4. Serve => UNCHANGED stream
    BY DEF Serve, startup, startup_fail, create, poll, drained, join_stop,
       join_reset, exited
  <2>5. Caching => UNCHANGED stream
    BY DEF Caching, cap_connect, cap_subscribed, cap_fail, cap_start, cap_check,
       cap_timeout, cap_event, Thread
  <2>6. UNCHANGED vars => UNCHANGED stream BY SMTT(20) DEF vars
  <2> QED BY <2>1, <2>2, <2>3, <2>4, <2>5, <2>6, SMTT(20) DEF Next
<1>3. Reading(fifo, flast, resp, got, want)'
  <2>1. CASE req_read BY <1>0, <2>1, ReadRead
  <2>2. CASE join_stop BY <1>0, <2>2, ReadStop
  <2>3. CASE create
    <3>1. /\ fifo' = <<>> /\ flast' = NoSeq /\ got' = <<>> /\ want' = <<>>
          /\ resp' = resp
      BY <2>3 DEF create
    <3>2. resp' \in Seq(Event \cup {Blank}) BY <1>0, <3>1 DEF Reading
    <3> QED BY <3>1, <3>2, ReadNothing
  <2>4. CASE UNCHANGED <<fifo, flast, got, want>> /\ (resp' = resp \/ resp' = <<>>)
    BY <1>0, <2>4, ReadSame, SMTT(20)
  <2>5. Request =>
          req_read \/ (UNCHANGED <<fifo, flast, got, want>> /\ (resp' = resp \/ resp' = <<>>))
    BY DEF Request, req_init, req_start, req_start_refused, req_stop,
       req_stop_refused, req_refused, req_exit
  <2>6. Serve => join_stop \/ create \/ UNCHANGED <<fifo, flast, got, want, resp>>
    BY DEF Serve, startup, startup_fail, poll, drained, join_reset, exited
  <2>7. Caching => UNCHANGED <<fifo, flast, got, want, resp>>
    BY DEF Caching, cap_connect, cap_subscribed, cap_fail, cap_start, cap_check,
       cap_timeout, cap_event, Thread, requestvars
  <2>8. \A r \in Rid : publish(r) => UNCHANGED <<fifo, flast, got, want, resp>>
    BY DEF publish, requestvars
  <2>9. UNCHANGED vars => UNCHANGED <<fifo, flast, got, want, resp>>
    BY DEF vars, requestvars
  <2> QED BY <2>1, <2>2, <2>3, <2>4, <2>5, <2>6, <2>7, <2>8, <2>9, SMTT(20)
             DEF Next
<1> QED BY <1>1, <1>2, <1>3 DEF ReadInv

\* The invariant of the reads.
LEMMA ReadAlways == Spec => []ReadInv
  BY ReadInit, ReadStep, CacheAlways, PTL DEF Spec

\* Type correctness of both threads' state, for any number of publishers and
\* events: the numbers of cached events are of the stream, and no capture
\* thread outlives its capture_service.
THEOREM TypeCorrect == Spec => []TypeOK
<1>1. CacheInv /\ Signals /\ ReadInv => TypeOK
  <2> SUFFICES ASSUME CacheInv, Signals, ReadInv PROVE TypeOK BY SMTT(20)
  <2>1. cap.events \in Seq(Event) BY CacheTypes DEF ReadInv
  <2>2. cap \in CaptureRecords BY <2>1 DEF CacheInv, CapType, CaptureRecords
  <2>3. flast \in [Rid -> Nat]
    <3>1. 0..MaxStream \subseteq Nat BY BoundsNat
    <3> QED BY <3>1 DEF ReadInv, Reading
  <2>4. ~have => thr = "done" BY DEF Signals
  <2> QED BY <2>2, <2>3, <2>4, ZenonT(30)
             DEF TypeOK, ReadInv, Reading, Plain, Numbered
<1> QED BY <1>1, CacheAlways, SignalsAlways, ReadAlways, PTL

\* What the reads after CACHE_STOP have returned, with what is still to be
\* read, is what was cached, every event once and in order, however many
\* reads there are and although a read moves from events it leaves.
THEOREM ReadsComplete == Spec => []ReadsReturnCache
<1>1. ReadInv => ReadsReturnCache BY DEF ReadInv, Reading, ReadsReturnCache
<1> QED BY <1>1, ReadAlways, PTL
=============================================================================
