------------------------------- MODULE Eventd -------------------------------
(***************************************************************************)
(* The event cache of eventd (eventd.cpp): the main thread, which serves   *)
(* the requests of run_eventd_service one at a time, and the thread of     *)
(* capture_service, which it starts, signals through m_ctrl and joins.     *)
(*                                                                         *)
(* zmq_proxy hands every published event, in one order, to the capture     *)
(* socket and to the telemetry client: stream is that order, and a socket  *)
(* is a position in it.  Left out: ECHO and OPTIONS requests, the counters *)
(* thread, events that fail to deserialize, loss inside ZeroMQ.            *)
(***************************************************************************)
EXTENDS Integers, Sequences, FiniteSets

CONSTANTS
  Rids,         \* runtime ids 1..Rids of the publishers, in map order
  CacheMax,     \* m_cache_max
  ReadSetSize,  \* READ_SET_SIZE
  Placeholders, \* MAX_PUBLISHERS_COUNT
  MaxStream     \* bound: events published

ASSUME BoundsNat == /\ {Rids, CacheMax, MaxStream} \subseteq Nat
                    /\ ReadSetSize \in Nat \ {0}
                    /\ Placeholders \in Nat

Rid   == 1..Rids
Blank == <<0, 0>>              \* what std::move leaves of a string
Event == Rid \X (1..MaxStream) \* runtime id and sequence number

VARIABLES
  stream,    \* events published so far
  main,      \* where the main thread is
  have,      \* capture != NULL
  skip,      \* skip_caching
  paused,    \* m_pause_heartbeat
  mark,      \* events published when the CACHE_STOP being served was read
  fifo,      \* capture_fifo_events
  flast,     \* capture_last_events: runtime id -> sequence number, 0 if none
  ctrl,      \* m_ctrl
  thr,       \* where the capture thread is
  init_done, \* the static of do_capture
  cap,       \* the members and locals of capture_service, fields below
  resp,      \* the reply of the last CACHE_READ
  got,       \* history: events the reads since CACHE_STOP returned
  want       \* history: events in the cache that CACHE_STOP took over

requestvars == <<main, have, skip, paused, mark, fifo, flast, resp, got, want>>
vars == <<stream, requestvars, ctrl, thr, init_done, cap>>

NoSeq == [r \in Rid |-> 0]

\* run: m_cap_run; next: position of the next event in the capture socket;
\* events, last, listed, missed: m_events, m_last_events (without its
\* placeholders), m_last_events_init, m_total_missed_cache; held: whether
\* m_last_events holds the placeholders; pre: m_pre_exist_id; state, cnt,
\* over: cap_state, init_cnt, total_overflow.  History: the stock given by
\* CACHE_START is stream[lo..hi], empty when hi < lo.
Capture == [run |-> FALSE, next |-> 1, events |-> <<>>, last |-> NoSeq,
            listed |-> FALSE, missed |-> 0, held |-> FALSE, pre |-> NoSeq,
            state |-> "INIT", cnt |-> 0, over |-> 0, lo |-> 1, hi |-> 0]

Init ==
  /\ stream = <<>>
  /\ main = "startup"
  /\ have = TRUE /\ skip = FALSE /\ paused = TRUE
  /\ mark = 0
  /\ fifo = <<>> /\ flast = NoSeq
  /\ ctrl = "NEED_INIT" /\ thr = "new" /\ init_done = FALSE
  /\ cap = Capture
  /\ resp = <<>> /\ got = <<>> /\ want = <<>>

\* The last sequence number of a runtime id among seq, 0 if it has none.
LastSeq(seq, r) ==
  LET mine == {seq[i][2] : i \in {k \in 1..Len(seq) : seq[k][1] = r}}
  IN  IF mine = {} THEN 0 ELSE CHOOSE s \in mine : \A t \in mine : t <= s

(***************************************************************************)
(* Publishers: event_publish numbers the events of a runtime id.           *)
(***************************************************************************)
Published(r) == LastSeq(stream, r)

publish(r) ==
  /\ Len(stream) < MaxStream
  /\ stream' = Append(stream, <<r, Published(r) + 1>>)
  /\ UNCHANGED <<requestvars, ctrl, thr, init_done, cap>>

(***************************************************************************)
(* The capture thread: do_capture.                                         *)
(***************************************************************************)
Thread(t, c) ==
  /\ thr' = t
  /\ cap' = c
  /\ UNCHANGED <<stream, requestvars, ctrl>>

\* The socket is connected and subscribed; a first capture goes on to read
\* the subscription message of the proxy.
cap_connect ==
  /\ thr = "new" /\ main # "exit"
  /\ Thread(IF init_done THEN "wait" ELSE "subscribe",
            [cap EXCEPT !.run = TRUE, !.next = Len(stream) + 1,
                        !.lo = Len(stream) + 1, !.hi = Len(stream)])
  /\ UNCHANGED init_done

cap_subscribed ==
  /\ thr = "subscribe" /\ main # "exit"
  /\ Thread("wait", cap)
  /\ init_done' = TRUE

\* RET_ON_ERR: no socket, no connection, or something other than the
\* subscription message; every ZeroMQ call fails once zmq_ctx_term runs.
cap_fail ==
  /\ thr \in {"new", "subscribe"} \/ (thr = "recv" /\ main = "exit")
  /\ Thread("done", [cap EXCEPT !.run = FALSE])
  /\ UNCHANGED init_done

\* Mutant of cap_start: the wait is for any signal.
cap_start_any ==
  /\ thr = "wait" /\ ctrl # "NEED_INIT"
  /\ Thread("check", [cap EXCEPT !.cnt = Len(cap.events)])
  /\ UNCHANGED init_done

\* The wait for START_CAPTURE is over.
cap_start ==
  /\ thr = "wait" /\ ctrl = "START"
  /\ Thread("check", [cap EXCEPT !.cnt = Len(cap.events)])
  /\ UNCHANGED init_done

\* Mutant of cap_check: STOP_CAPTURE is not looked for.
cap_check_never_stops ==
  /\ thr = "check"
  /\ Thread("recv", cap)
  /\ UNCHANGED init_done

\* The condition of the read loop.
cap_check ==
  /\ thr = "check"
  /\ IF ctrl = "START" THEN Thread("recv", cap)
                       ELSE Thread("done", [cap EXCEPT !.run = FALSE])
  /\ UNCHANGED init_done

\* zmq_message_read times out.
cap_timeout ==
  /\ thr = "recv" /\ cap.next > Len(stream) /\ main # "exit"
  /\ Thread("check", cap)
  /\ UNCHANGED init_done

\* Mutant of SaveInit: the last event of the stock is taken for a new one.
SaveInit_strict(c, r, s) ==
  LET add  == c.pre[r] = 0 \/ s >= c.pre[r]
      pre  == IF s >= c.pre[r] THEN [c.pre EXCEPT ![r] = 0] ELSE c.pre
      over == pre = NoSeq \/ c.cnt <= 1
  IN  [c EXCEPT !.cnt = @ - 1,
                !.events = IF add THEN Append(@, <<r, s>>) ELSE @,
                !.pre = IF over THEN NoSeq ELSE pre,
                !.state = IF over THEN "ACTIVE" ELSE "INIT"]

\* CAP_STATE_INIT: an event of the stock is not added again.
SaveInit(c, r, s) ==
  LET add  == c.pre[r] = 0 \/ s > c.pre[r]
      pre  == IF s >= c.pre[r] THEN [c.pre EXCEPT ![r] = 0] ELSE c.pre
      over == pre = NoSeq \/ c.cnt <= 1
  IN  [c EXCEPT !.cnt = @ - 1,
                !.events = IF add THEN Append(@, <<r, s>>) ELSE @,
                !.pre = IF over THEN NoSeq ELSE pre,
                !.state = IF over THEN "ACTIVE" ELSE "INIT"]

\* Mutant of SaveActive: m_last_events keeps its placeholders.
SaveActive_no_clear(c, r, s) ==
  LET full == Len(c.events) + 1 >= CacheMax
  IN  [c EXCEPT !.events = Append(@, <<r, s>>),
                !.state = IF full THEN "LAST" ELSE @,
                !.listed = @ \/ full]

\* CAP_STATE_ACTIVE.
SaveActive(c, r, s) ==
  LET full == Len(c.events) + 1 >= CacheMax
  IN  [c EXCEPT !.events = Append(@, <<r, s>>),
                !.state = IF full THEN "LAST" ELSE @,
                !.last = IF full THEN NoSeq ELSE @,
                !.held = @ /\ ~full,
                !.listed = @ \/ full]

\* m_last_events.size()
Size(last, held) == Cardinality({r \in Rid : last[r] # 0})
                    + (IF held THEN Placeholders ELSE 0)

\* CAP_STATE_LAST: the last event of each runtime id.
SaveLast(c, r, s) ==
  LET last == [c.last EXCEPT ![r] = s]
  IN  [c EXCEPT !.state = "LAST", !.last = last, !.over = @ + 1,
                !.missed = IF c.over + 1 > Size(last, c.held)
                           THEN @ + 1 ELSE @]

\* An event is read and saved; in CAP_STATE_ACTIVE push_back may throw
\* bad_alloc, and the event is saved as in CAP_STATE_LAST.
cap_event ==
  /\ thr = "recv" /\ cap.next <= Len(stream)
  /\ LET r == stream[cap.next][1]  s == stream[cap.next][2]
         c == [cap EXCEPT !.next = @ + 1]
     IN  \/ cap.state = "INIT"   /\ Thread("check", SaveInit(c, r, s))
         \/ cap.state = "ACTIVE" /\ Thread("check", SaveActive(c, r, s))
         \/ cap.state \in {"ACTIVE", "LAST"} /\ Thread("check", SaveLast(c, r, s))
  /\ UNCHANGED init_done

(***************************************************************************)
(* The main thread: run_eventd_service, set_control and stop_capture.      *)
(***************************************************************************)
Main(m) == main' = m

\* set_control(INIT_CAPTURE) at startup, followed by START_CAPTURE without
\* a stock.
startup ==
  /\ main = "startup" /\ cap.run
  /\ Main("recv")
  /\ ctrl' = "START"
  /\ cap' = [cap EXCEPT !.held = TRUE]
  /\ UNCHANGED <<stream, have, skip, paused, mark, fifo, flast, resp, got,
                 want, thr, init_done>>

\* It fails: the thread has exited.  (It runs or exits well within the ten
\* seconds for which set_control polls.)
startup_fail ==
  /\ main = "startup" /\ ~cap.run /\ thr = "done"
  /\ Main("recv")
  /\ have' = FALSE /\ skip' = TRUE
  /\ UNCHANGED <<stream, paused, mark, fifo, flast, resp, got, want, ctrl,
                 thr, init_done, cap>>

\* CACHE_INIT: capture.reset() stops and joins what is there.
req_init ==
  /\ main = "recv"
  /\ Main("join_init")
  /\ ctrl' = IF have THEN "STOP" ELSE ctrl
  /\ resp' = <<>>
  /\ UNCHANGED <<stream, have, skip, paused, mark, fifo, flast, got, want,
                 thr, init_done, cap>>

\* A new capture_service, and its thread.
create ==
  /\ main = "join_init" /\ thr = "done"
  /\ Main("poll")
  /\ have' = TRUE
  /\ fifo' = <<>> /\ flast' = NoSeq /\ got' = <<>> /\ want' = <<>>
  /\ ctrl' = "NEED_INIT" /\ thr' = "new" /\ cap' = Capture
  /\ UNCHANGED <<stream, skip, paused, mark, resp, init_done>>

\* set_control(INIT_CAPTURE) succeeds or fails.
poll ==
  /\ main = "poll" /\ (cap.run \/ thr = "done")
  /\ Main("recv")
  /\ ctrl' = IF cap.run THEN "INIT" ELSE ctrl
  /\ UNCHANGED <<stream, have, skip, paused, mark, fifo, flast, resp, got,
                 want, thr, init_done, cap>>

\* init_capture_cache
Stocked(c, lo, hi) ==
  LET stock == SubSeq(stream, lo, hi)
  IN  [c EXCEPT !.held = TRUE, !.lo = lo, !.hi = hi, !.events = stock,
                !.pre = [r \in Rid |-> LastSeq(stock, r)]]

\* Mutant of req_start: the heartbeat goes on.
req_start_keeps_heartbeat ==
  /\ main = "recv" /\ have /\ ctrl = "INIT"
  /\ \E lo \in 1..cap.lo : \E hi \in cap.hi..Len(stream) :
       cap' = Stocked(cap, lo, hi)
  /\ ctrl' = "START"
  /\ resp' = <<>>
  /\ UNCHANGED <<stream, main, have, skip, paused, mark, fifo, flast, got,
                 want, thr, init_done>>

\* CACHE_START.  The client has kept the events it received and did not
\* deliver: from one at or before the first the capture socket holds to any
\* published so far.
req_start ==
  /\ main = "recv" /\ have /\ ctrl = "INIT"
  /\ paused' = TRUE
  /\ \E lo \in 1..cap.lo : \E hi \in cap.hi..Len(stream) :
       cap' = Stocked(cap, lo, hi)
  /\ ctrl' = "START"
  /\ resp' = <<>>
  /\ UNCHANGED <<stream, main, have, skip, mark, fifo, flast, got, want, thr,
                 init_done>>

\* CACHE_START out of order: set_control goes in single steps only.
req_start_refused ==
  /\ main = "recv" /\ have /\ ctrl # "INIT"
  /\ paused' = TRUE
  /\ resp' = <<>>
  /\ UNCHANGED <<stream, main, have, skip, mark, fifo, flast, got, want,
                 ctrl, thr, init_done, cap>>

\* CACHE_STOP: drain, signal and join.
req_stop ==
  /\ main = "recv" /\ have /\ ctrl = "START"
  /\ Main("drain")
  /\ mark' = Len(stream)
  /\ resp' = <<>>
  /\ UNCHANGED <<stream, have, skip, paused, fifo, flast, got, want, ctrl,
                 thr, init_done, cap>>

\* CACHE_STOP out of order: refused by set_control, and capture.reset()
\* signals and joins.
req_stop_refused ==
  /\ main = "recv" /\ have /\ ctrl # "START"
  /\ Main("join_reset")
  /\ ctrl' = "STOP"
  /\ resp' = <<>>
  /\ UNCHANGED <<stream, have, skip, paused, mark, fifo, flast, got, want,
                 thr, init_done, cap>>

\* CACHE_DRAIN_IN_MILLISECS have passed: the thread, unless it has failed,
\* has seen START_CAPTURE (it looks every 10 ms) and read what was published
\* before the request.
drained ==
  /\ main = "drain"
  /\ thr = "done" \/ (thr \in {"check", "recv"} /\ cap.next > mark)
  /\ Main("join_stop")
  /\ ctrl' = "STOP"
  /\ mark' = 0
  /\ UNCHANGED <<stream, have, skip, paused, fifo, flast, resp, got, want,
                 thr, init_done, cap>>

\* The events of a sequence, in order: without the strings moved from and the
\* runtime ids that have none.
Full(seq) ==
  LET upto[i \in 0..Len(seq)] ==
        IF i = 0 THEN <<>>
        ELSE IF seq[i][2] # 0 THEN Append(upto[i - 1], seq[i])
        ELSE upto[i - 1]
  IN  upto[Len(seq)]

\* The entries of a last_events_t, in map order.
Listed(last) == Full([r \in 1..Rids |-> <<r, last[r]>>])

\* Mutant of join_stop: the thread is not waited for.
join_stop_detached ==
  /\ main = "join_stop"
  /\ Main("recv")
  /\ have' = FALSE /\ paused' = FALSE
  /\ fifo' = cap.events
  /\ flast' = IF cap.listed THEN cap.last ELSE NoSeq
  /\ want' = cap.events \o Listed(flast')
  /\ got' = <<>>
  /\ cap' = Capture
  /\ UNCHANGED <<stream, skip, mark, resp, ctrl, thr, init_done>>

\* The thread has been joined: read_cache, capture.reset().
join_stop ==
  /\ main = "join_stop" /\ thr = "done"
  /\ Main("recv")
  /\ have' = FALSE /\ paused' = FALSE
  /\ fifo' = cap.events
  /\ flast' = IF cap.listed THEN cap.last ELSE NoSeq
  /\ want' = cap.events \o Listed(flast')
  /\ got' = <<>>
  /\ cap' = Capture
  /\ UNCHANGED <<stream, skip, mark, resp, ctrl, thr, init_done>>

join_reset ==
  /\ main = "join_reset" /\ thr = "done"
  /\ Main("recv")
  /\ have' = FALSE /\ paused' = FALSE
  /\ cap' = Capture
  /\ UNCHANGED <<stream, skip, mark, fifo, flast, resp, got, want, ctrl, thr,
                 init_done>>

Prefix(seq) == IF Len(seq) < ReadSetSize THEN Len(seq) ELSE ReadSetSize

\* Mutant of Read: one set is returned, and all is erased.
Read_erases_all(seq) == [resp |-> SubSeq(seq, 1, Prefix(seq)), rest |-> <<>>]

\* CACHE_READ of a vector: all of it is moved to the reply, and one set is
\* erased; what stays has been moved from.
Read(seq) ==
  [resp |-> seq,
   rest |-> [i \in 1..(Len(seq) - Prefix(seq)) |-> Blank]]

\* CACHE_READ: the last events follow once the vector is empty.
req_read ==
  /\ main = "recv" /\ ~have /\ ~skip
  /\ LET all == IF fifo = <<>> THEN Listed(flast) ELSE fifo
     IN  /\ resp' = Read(all).resp
         /\ got' = got \o Full(resp')
         /\ fifo' = Read(all).rest
  /\ flast' = IF fifo = <<>> THEN NoSeq ELSE flast
  /\ UNCHANGED <<stream, main, have, skip, paused, mark, want, ctrl, thr,
                 init_done, cap>>

\* Requests that are answered with an error and change nothing: START and
\* STOP without a capture, READ before STOP or with skip_caching.  With a
\* capture or without one, some request is refused.
req_refused ==
  /\ main = "recv"
  /\ resp' = <<>>
  /\ UNCHANGED <<stream, main, have, skip, paused, mark, fifo, flast, got,
                 want, ctrl, thr, init_done, cap>>

\* EXIT: zmq_ctx_term waits for the capture thread to close its socket.
req_exit ==
  /\ main = "recv"
  /\ Main("exit")
  /\ resp' = <<>>
  /\ UNCHANGED <<stream, have, skip, paused, mark, fifo, flast, got, want,
                 ctrl, thr, init_done, cap>>

exited ==
  /\ main = "exit" /\ thr = "done"
  /\ Main("end")
  /\ have' = FALSE
  /\ ctrl' = IF have THEN "STOP" ELSE ctrl
  /\ cap' = Capture
  /\ UNCHANGED <<stream, skip, paused, mark, fifo, flast, resp, got, want,
                 thr, init_done>>

Request == \/ req_init \/ req_start \/ req_start_refused \/ req_stop
           \/ req_stop_refused \/ req_read \/ req_refused \/ req_exit
Serve   == \/ startup \/ startup_fail \/ create \/ poll \/ drained
           \/ join_stop \/ join_reset \/ exited
Caching == \/ cap_connect \/ cap_subscribed \/ cap_fail \/ cap_start
           \/ cap_check \/ cap_timeout \/ cap_event

Next == Request \/ Serve \/ Caching \/ \E r \in Rid : publish(r)

\* Both threads run on: none of their waits is without a timeout, except the
\* join.  Clients and publishers owe nothing.
Spec == Init /\ [][Next]_vars /\ WF_vars(Serve) /\ WF_vars(Caching)

(***************************************************************************)
(* Properties.                                                             *)
(***************************************************************************)
CaptureRecords ==
  [run : BOOLEAN, next : Nat \ {0}, events : Seq(Event), last : [Rid -> Nat],
   listed : BOOLEAN, missed : Nat, held : BOOLEAN, pre : [Rid -> Nat],
   state : {"INIT", "ACTIVE", "LAST"}, cnt : Int, over : Nat,
   lo : Nat \ {0}, hi : Nat]

\* Type correctness; a thread runs only while there is a capture_service
\* whose destructor will join it.
TypeOK ==
  /\ stream \in Seq(Event)
  /\ main \in {"startup", "recv", "join_init", "poll", "drain", "join_stop",
               "join_reset", "exit", "end"}
  /\ {have, skip, paused, init_done} \subseteq BOOLEAN
  /\ mark \in Nat
  /\ {fifo, resp} \subseteq Seq(Event \cup {Blank})
  /\ {got, want} \subseteq Seq(Event)
  /\ flast \in [Rid -> Nat]
  /\ ctrl \in {"NEED_INIT", "INIT", "START", "STOP"}
  /\ thr \in {"new", "subscribe", "wait", "check", "recv", "done"}
  /\ cap \in CaptureRecords
  /\ ~have => thr = "done"

\* m_events, m_last_events and m_pre_exist_id are never handled by both
\* threads: the capture thread is in its read loop only after the main
\* thread has filled them and signalled START_CAPTURE, and gone from it
\* before the main thread takes them over.
OneOwner ==
  thr \in {"check", "recv"} =>
    /\ ctrl \in {"START", "STOP"}
    /\ ctrl = "START" => main \in {"recv", "drain", "exit"}

\* Whatever part of the stock the capture socket holds too, and however the
\* events of the runtime ids alternate, m_events is an unbroken run of the
\* stream that begins with the stock, with no event twice and none left out;
\* after an overflow m_last_events has, of what followed, the last event of
\* each runtime id.
CacheExact ==
  LET end == cap.lo + Len(cap.events) - 1 IN
  /\ end <= Len(stream)
  /\ cap.events = SubSeq(stream, cap.lo, end)
  /\ cap.state # "LAST" => end \in {cap.hi, cap.next - 1}
                           /\ end >= cap.hi /\ end >= cap.next - 1
  /\ cap.state = "LAST" =>
       cap.last = [r \in Rid |-> LastSeq(SubSeq(stream, end + 1, cap.next - 1), r)]

\* The reads that follow CACHE_STOP return what was cached, in order and
\* every event once, the last events of an overflow at the end.
ReadsReturnCache == got \o Full(fifo) \o Listed(flast) = want

\* Every event that an overflow drops is counted: the missed counter is at
\* least the events read in that state less those m_last_events keeps.
MissedCounted ==
  cap.listed => cap.missed >= cap.over - Size(cap.last, FALSE)

\* No heartbeat is published while events are being cached.
PausedWhileCaching == have /\ ctrl = "START" => paused

\* Every request is answered, unless the main thread joins a capture thread
\* that still waits for START_CAPTURE.
AnsweredOrWaiting ==
  main # "recv" ~> \/ main \in {"recv", "end"}
                   \/ thr = "wait" /\ (ctrl = "STOP" \/ main = "exit")

\* eventd.h: "On cache stop, it is signalled to stop reading and exit": the
\* join ends.
StopExits == main \in {"join_stop", "join_reset"} ~> main = "recv"

\* eventd.h: cache read "returns the collected events in chunks".
ReadInChunks == Len(resp) <= ReadSetSize /\ Full(resp) = resp
=============================================================================
