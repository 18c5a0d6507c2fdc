--------------------------- MODULE StatisticsProofs ---------------------------
(***************************************************************************)
(* What holds of the statistics.                                           *)
(*                                                                         *)
(* Of StatsCapture for any torrents, any number of captures that overlap   *)
(* and fail, and any lengths of minutes, hours and days.  The inductive    *)
(* invariant says what a process that is under way has still to do: a      *)
(* change up to its date is on record or in its list.  Rows are told apart *)
(* by the minute their capture was started in.                             *)
(*                                                                         *)
(* Of Highscores for any buckets, peers, digits, sizes of networks and     *)
(* lengths of lists, whatever comes and goes while the worker reads.  The  *)
(* invariant relates the worker's counters, nodes and lists to the peers   *)
(* it has read so far.                                                     *)
(***************************************************************************)
EXTENDS StatsCapture, Highscores, SequenceLemmas, FunctionTheorems, TLAPS


-----------------------------------------------------------------------------
(* Capture: division *)

\* QuotientOf and remainder.
LEMMA Division ==
    ASSUME NEW n \in Nat, NEW m \in Nat \ {0}
    PROVE  /\ n \div m \in 0..n
           /\ n % m \in 0..(m - 1)
           /\ n = m * (n \div m) + (n % m)
<1>1. n \div m \in Int /\ n % m \in 0..(m - 1)
  OBVIOUS
<1>2. n = m * (n \div m) + (n % m)
  OBVIOUS
<1>3. n \div m >= 0
  BY <1>1, <1>2
<1>4. n \div m <= n
  BY <1>1, <1>2, <1>3, SMT
<1>. QED
  BY <1>1, <1>2, <1>3, <1>4

\* The quotient is determined by a remainder that is small enough.
LEMMA QuotientOf ==
    ASSUME NEW m \in Nat \ {0}, NEW q \in Nat, NEW r \in Nat, r < m
    PROVE  (m * q + r) \div m = q
OBVIOUS

\* A date that is a day later belongs to another day.
LEMMA Apart ==
    ASSUME NEW a \in Nat, NEW b \in Nat, NEW m \in Nat \ {0}, a <= b - m
    PROVE  a \div m # b \div m
OBVIOUS

\* A date early in an hour: the minutes before it are those of the hours before it.
LEMMA EarlyInHour ==
    ASSUME NEW a \in Nat, NEW H \in Nat \ {0}, NEW M \in Nat \ {0}, H % M = 0, (a % H) \div M = 0
    PROVE  a \div M = (H \div M) * (a \div H)
<1>. DEFINE k == H \div M
            q == a \div H
            r == a % H
<1>1. k \in Nat /\ H = M * k
  BY Division
<1>2. q \in Nat /\ r \in Nat /\ a = H * q + r
  BY Division
<1>3. r < M
  BY <1>2
<1>. HIDE DEF k, q, r
<1>4. k * q \in Nat /\ H * q = M * (k * q)
  BY <1>1, <1>2
<1>5. a = M * (k * q) + r
  BY <1>2, <1>4
<1>6. a \div M = k * q
  BY <1>2, <1>3, <1>4, <1>5, QuotientOf
<1>. QED
  BY <1>6 DEF k, q

-----------------------------------------------------------------------------
(* Capture: the inductive invariant *)

Running(c) == capture[c].pc # "idle"

\* A process has a date that is past, and the sender's is not before the last one that was stored.
Clocks ==
    /\ \A c \in Captures : Running(c) => capture[c].now \in Day..time
    /\ sender.pc # "idle" =>
         /\ sender.now \in Day..time
         /\ control["last_incremental"] <= sender.now
         /\ sender.last <= control["last_incremental"]

\* What a capture that has read the date of the last one has still to record: a change up to
\* both dates has a row; one up to its own date has one or is in its list.
CapturesComplete ==
    \A c \in Captures : \A t \in Torrents \ late :
        /\ capture[c].pc = "minute_find" /\ torrent[t].updated <= capture[c].last
             /\ torrent[t].updated <= capture[c].now /\ ~torrent[t].zero
             => <<t, torrent[t].version>> \in captured
        /\ capture[c].pc = "minute" /\ torrent[t].updated <= capture[c].now /\ ~torrent[t].zero
             => <<t, torrent[t].version>> \in captured \cup capture[c].todo

\* The same of the sender; what is in its list is a torrent's last change, or was changed later.
SenderComplete ==
    \A t \in Torrents \ late :
        /\ sender.pc = "find" /\ torrent[t].updated <= sender.last => sent[t] = torrent[t].version
        /\ sender.pc = "send" /\ torrent[t].updated <= sender.now
             => /\ sent[t] = torrent[t].version \/ <<t, torrent[t].version>> \in sender.todo
                /\ \A p \in sender.todo : p[1] = t => p[2] = torrent[t].version

FirstMinute(date) == (date % Hour) \div Minute = 0

\* Captures, and the hour rows they leave, are of minutes that differ.
MinutesDiffer ==
    /\ \A c \in Captures : Running(c) => capture[c].now \div Minute <= started
    /\ \A r \in hour : r[2] \div Minute <= started
    /\ \A c, d \in Captures :
         Running(c) /\ Running(d) /\ capture[c].now \div Minute = capture[d].now \div Minute => c = d
    /\ \A c \in Captures : \A r \in hour :
         Running(c) /\ r[2] \div Minute = capture[c].now \div Minute => r[2] = capture[c].now
    /\ \A r, s \in hour : r[2] \div Minute = s[2] \div Minute => r[2] = s[2]
    /\ \A r \in hour : FirstMinute(r[2])
    /\ \A c \in Captures : capture[c].pc = "hour" => FirstMinute(capture[c].now)

\* Without overlap and failure, a capture of a day begins a day after the last row.
DaysApart ==
    ~disturbed =>
        /\ \A c, d \in Captures : Running(c) /\ Running(d) => c = d
        /\ \A r \in day : \/ r[2] <= control["last_capture_day"]
                          \/ \E c \in Captures : capture[c].pc = "day" /\ r[2] = capture[c].now
        /\ \A c \in Captures : capture[c].pc = "day" => control["last_capture_day"] <= capture[c].now - Day

IInv ==
    /\ TypeOK
    /\ Clocks
    /\ CapturesComplete
    /\ SenderComplete
    /\ UpdatesCaptured
    /\ UpdatesSent
    /\ MinutesDiffer
    /\ DaysApart
    /\ DayRowsOnce

-----------------------------------------------------------------------------
(* Capture: types *)

LEMMA NoUpdateType ==
    /\ NoUpdate \in [torrents : SUBSET Torrents, record : Record]
    /\ NoUpdate.record \in Record /\ NoUpdate.record.updated = 0 /\ NoUpdate.record.version = 0
    /\ NoUpdate.record.zero
BY BoundsAssumption, LengthsAssumption DEF NoUpdate, Record

LEMMA IdleType ==
    ASSUME NEW pcs, "idle" \in pcs
    PROVE  Idle \in Process(pcs) /\ Idle.pc = "idle"
BY BoundsAssumption, LengthsAssumption DEF Idle, Process

\* A process that goes on has the type it had.
LEMMA ProcessPc ==
    ASSUME NEW pcs, NEW p \in Process(pcs), NEW pc \in pcs
    PROVE  [p EXCEPT !.pc = pc] \in Process(pcs)
BY DEF Process

LEMMA ProcessLast ==
    ASSUME NEW pcs, NEW p \in Process(pcs), NEW pc \in pcs, NEW last \in -1..MaxTime
    PROVE  [p EXCEPT !.pc = pc, !.last = last] \in Process(pcs)
BY DEF Process

LEMMA ProcessTodo ==
    ASSUME NEW pcs, NEW p \in Process(pcs), NEW pc \in pcs,
           NEW todo \in SUBSET (Torrents \X (0..MaxUpdates))
    PROVE  [p EXCEPT !.pc = pc, !.todo = todo] \in Process(pcs)
BY DEF Process

\* A process that begins.
LEMMA BegunType ==
    ASSUME NEW pcs, "idle" \in pcs, NEW pc \in pcs, NEW now \in 0..MaxTime
    PROVE  [Idle EXCEPT !.pc = pc, !.now = now] \in Process(pcs)
<1>1. ASSUME NEW p \in Process(pcs)
      PROVE  [p EXCEPT !.pc = pc, !.now = now] \in Process(pcs)
  BY DEF Process
<1>. QED
  BY <1>1, IdleType

LEMMA BegunWithLast ==
    ASSUME NEW pcs, "idle" \in pcs, NEW pc \in pcs, NEW now \in 0..MaxTime, NEW last \in -1..MaxTime
    PROVE  [Idle EXCEPT !.pc = pc, !.now = now, !.last = last] \in Process(pcs)
<1>1. ASSUME NEW p \in Process(pcs)
      PROVE  [p EXCEPT !.pc = pc, !.now = now, !.last = last] \in Process(pcs)
  BY DEF Process
<1>. QED
  BY <1>1, IdleType

\* The torrents a query returns, with their versions or, in sums, without.
LEMMA TodoType ==
    ASSUME TypeOK
    PROVE  /\ \A S \in SUBSET Torrents :
                 {<<t, torrent[t].version>> : t \in S} \in SUBSET (Torrents \X (0..MaxUpdates))
           /\ \A coll \in {minute, hour, day}, since \in Int :
                 Aggregate(coll, since) \in SUBSET (Torrents \X (0..MaxUpdates))
<1>1. 0 \in 0..MaxUpdates
  BY BoundsAssumption
<1>2. \A t \in Torrents : torrent[t].version \in 0..MaxUpdates
  BY DEF TypeOK, Record
<1>3. ASSUME NEW coll, coll \subseteq Torrents \X (Day..time), NEW since \in Int
      PROVE  Aggregate(coll, since) \in SUBSET (Torrents \X (0..MaxUpdates))
  BY <1>1, <1>3 DEF Aggregate
<1>. QED
  BY <1>2, <1>3 DEF TypeOK

Stages == {"idle", "minute_last", "minute_find", "minute", "hour_last", "hour", "day_last", "day"}

LEMMA TypeInit == Init => TypeOK
<1>1. 0 \in 0..MaxTime /\ 0 \in 0..MaxUpdates /\ 0 \in 0..MaxRuns /\ Day \in Day..MaxTime /\ Day \in Nat /\ 0 \in 0..Day
  BY BoundsAssumption, LengthsAssumption
<1>2. Idle \in Process(Stages) /\ Idle \in Process({"idle", "find", "send"})
  BY IdleType DEF Stages
<1>. SUFFICES ASSUME Init
              PROVE  TypeOK
  OBVIOUS
<1>3. torrent \in [Torrents -> Record] /\ update \in [torrents : SUBSET Torrents, record : Record]
  BY NoUpdateType DEF Init
<1>4. capture \in [Captures -> Process(Stages)] /\ sender \in Process({"idle", "find", "send"})
  BY <1>2 DEF Init
<1>. QED
  BY <1>1, <1>3, <1>4 DEF Init, TypeOK, Stages

\* Every step keeps the types; a date that is stored is one that is past.
LEMMA TypeStep == IInv /\ [Next]_vars => TypeOK'
<1>. SUFFICES ASSUME TypeOK, Clocks, [Next]_vars
              PROVE  TypeOK'
  BY DEF IInv
<1>. USE DEF TypeOK, history, rows, CaptureOnly, SenderOnly
<1>0. MaxTime \in Nat /\ MaxRuns \in Nat /\ MaxUpdates \in Nat /\ Day \in Nat \ {0} /\ Minute \in Nat \ {0}
  BY BoundsAssumption, LengthsAssumption
<1>1. CASE UNCHANGED vars
  BY <1>1 DEF vars
<1>2. CASE Tick
  BY <1>0, <1>2 DEF Tick
<1>3. ASSUME NEW t \in Torrents, get_now_mongo(t)
      PROVE  TypeOK'
  BY <1>0, <1>3 DEF get_now_mongo, Record
<1>4. ASSUME NEW t \in Torrents, update_stats(t)
      PROVE  TypeOK'
  BY <1>0, <1>4, NoUpdateType DEF update_stats
<1>5. ASSUME NEW c \in Captures, Capture(c)
      PROVE  TypeOK'
  <2>0. /\ capture \in [Captures -> Process(Stages)] /\ capture[c] \in Process(Stages)
        /\ Idle \in Process(Stages)
        /\ \A p \in Process(Stages) : [capture EXCEPT ![c] = p] \in [Captures -> Process(Stages)]
    <3>1. Idle \in Process(Stages)
      BY IdleType DEF Stages
    <3>2. capture \in [Captures -> Process(Stages)]
      BY DEF Stages
    <3>. HIDE DEF TypeOK
    <3>. QED
      BY <3>1, <3>2
  <2>1. CASE init(c)
    <3>1. time \in 0..MaxTime /\ time \div Minute \in 0..MaxTime
      <4>1. time \in Nat /\ time <= MaxTime
        BY <1>0
      <4>2. time \div Minute \in 0..time
        BY <1>0, <4>1, Division
      <4>. QED
        BY <1>0, <4>1, <4>2
    <3>2. [Idle EXCEPT !.pc = "minute_last", !.now = time] \in Process(Stages)
      BY <1>0, <3>1, BegunType DEF Stages
    <3>3. capture' \in [Captures -> Process(Stages)]
      BY <2>0, <2>1, <3>2 DEF init
    <3>. QED
      BY <1>0, <2>1, <3>1, <3>3 DEF init, Stages
  <2>2. CASE fails(c)
    BY <1>0, <2>2, IdleType DEF fails
  <2>3. CASE capture_minute_last(c)
    <3>1. control["last_capture_minute"] \in -1..MaxTime
      BY <1>0 DEF Keys
    <3>2. capture' = [capture EXCEPT ![c] =
              [capture[c] EXCEPT !.pc = "minute_find", !.last = control["last_capture_minute"]]]
      BY <2>0, <2>3 DEF capture_minute_last
    <3>3. capture' \in [Captures -> Process(Stages)]
      <4>1. [capture[c] EXCEPT !.pc = "minute_find", !.last = control["last_capture_minute"]] \in Process(Stages)
        BY <2>0, <3>1, ProcessLast DEF Stages
      <4>. QED
        BY <2>0, <3>2, <4>1
    <3>. QED
      BY <2>3, <3>3 DEF capture_minute_last, Stages
  <2>4. CASE get_updated_torrents(c)
    <3>. DEFINE S == {u \in Updated(capture[c].last) : ~torrent[u].zero}
    <3>1. {<<t, torrent[t].version>> : t \in S} \in SUBSET (Torrents \X (0..MaxUpdates))
      BY TodoType DEF Updated
    <3>2. capture' = [capture EXCEPT ![c] =
              [capture[c] EXCEPT !.pc = "minute", !.todo = {<<t, torrent[t].version>> : t \in S}]]
      BY <2>0, <2>4 DEF get_updated_torrents
    <3>3. capture' \in [Captures -> Process(Stages)]
      <4>. HIDE DEF S
      <4>1. [capture[c] EXCEPT !.pc = "minute", !.todo = {<<t, torrent[t].version>> : t \in S}] \in Process(Stages)
        BY <2>0, <3>1, ProcessTodo DEF Stages
      <4>. QED
        BY <2>0, <3>2, <4>1
    <3>. QED
      BY <2>4, <3>3 DEF get_updated_torrents, Stages
  <2>5. CASE save_minute(c)
    BY <1>0, <2>5 DEF save_minute, Process, Clocks, Running
  <2>6. CASE capture_minute_end(c)
    BY <1>0, <2>6 DEF capture_minute_end, Goto, Process, Clocks, Running, Keys
  <2>7. CASE capture_hour(c)
    <3>. DEFINE A == Aggregate(minute, capture[c].now - Hour)
    <3>1. A \in SUBSET (Torrents \X (0..MaxUpdates))
      <4>1. capture[c].now - Hour \in Int
        BY <2>0, LengthsAssumption DEF Process
      <4>. QED
        BY <4>1, TodoType
    <3>2. [capture EXCEPT ![c].pc = "hour", ![c].todo = A]
            = [capture EXCEPT ![c] = [capture[c] EXCEPT !.pc = "hour", !.todo = A]]
      BY <2>0
    <3>3. capture' \in [Captures -> Process(Stages)]
      <4>. HIDE DEF A
      <4>1. [capture[c] EXCEPT !.pc = "hour", !.todo = A] \in Process(Stages)
        BY <2>0, <3>1, ProcessTodo DEF Stages
      <4>2. [capture[c] EXCEPT !.pc = "day_last"] \in Process(Stages)
        BY <2>0, ProcessPc DEF Stages
      <4>3. \/ capture' = [capture EXCEPT ![c] = [capture[c] EXCEPT !.pc = "hour", !.todo = A]]
            \/ capture' = [capture EXCEPT ![c] = [capture[c] EXCEPT !.pc = "day_last"]]
        BY <2>0, <2>7, <3>2 DEF capture_hour, Goto, A
      <4>. QED
        BY <2>0, <4>1, <4>2, <4>3
    <3>. QED
      BY <2>7, <3>3 DEF capture_hour, Stages
  <2>8. CASE save_hour(c)
    BY <1>0, <2>8 DEF save_hour, Process, Clocks, Running
  <2>9. CASE capture_hour_end(c)
    BY <1>0, <2>9 DEF capture_hour_end, Goto, Process, Clocks, Running, Keys
  <2>10. CASE capture_day(c)
    <3>. DEFINE A == Aggregate(hour, capture[c].now - Day)
    <3>1. A \in SUBSET (Torrents \X (0..MaxUpdates))
      <4>1. capture[c].now - Day \in Int
        BY <2>0, LengthsAssumption DEF Process
      <4>. QED
        BY <4>1, TodoType
    <3>2. [capture EXCEPT ![c].pc = "day", ![c].todo = A]
            = [capture EXCEPT ![c] = [capture[c] EXCEPT !.pc = "day", !.todo = A]]
      BY <2>0
    <3>3. capture' \in [Captures -> Process(Stages)]
      <4>. HIDE DEF A
      <4>1. [capture[c] EXCEPT !.pc = "day", !.todo = A] \in Process(Stages)
        BY <2>0, <3>1, ProcessTodo DEF Stages
      <4>2. Idle \in Process(Stages)
        BY <2>0, ProcessPc DEF Stages
      <4>3. \/ capture' = [capture EXCEPT ![c] = [capture[c] EXCEPT !.pc = "day", !.todo = A]]
            \/ capture' = [capture EXCEPT ![c] = Idle]
        BY <2>0, <2>10, <3>2 DEF capture_day, Goto, A
      <4>. QED
        BY <2>0, <4>1, <4>2, <4>3
    <3>. QED
      BY <2>10, <3>3 DEF capture_day, Stages
  <2>11. CASE save_day(c)
    BY <1>0, <2>11 DEF save_day, Process, Clocks, Running
  <2>12. CASE capture_day_end(c)
    <3>1. capture' \in [Captures -> Process(Stages)]
      BY <2>0, <2>12 DEF capture_day_end
    <3>2. capture[c].now \in 0..time
      BY <1>0, <2>12 DEF capture_day_end, Clocks, Running
    <3>. QED
      BY <2>12, <3>1, <3>2 DEF capture_day_end, Stages, Keys
  <2>. QED
    BY <1>5, <2>1, <2>2, <2>3, <2>4, <2>5, <2>6, <2>7, <2>8, <2>9, <2>10, <2>11, <2>12 DEF Capture
<1>6. CASE Sender
  <2>1. CASE update_start
    <3>1. sender' \in Process({"idle", "find", "send"})
      <4>1. time \in 0..MaxTime /\ \A last \in {-1, control["last_incremental"]} : last \in -1..MaxTime
        BY <1>0 DEF Keys
      <4>. QED
        <5>1. PICK last \in {-1, control["last_incremental"]} :
                sender' = [Idle EXCEPT !.pc = "find", !.now = time, !.last = last]
          BY <2>1 DEF update_start
        <5>. QED
          BY <4>1, <5>1, BegunWithLast
    <3>. QED
      BY <1>0, <2>1, <3>1 DEF update_start
  <2>2. CASE update_find
    <3>. DEFINE S == Updated(sender.last)
    <3>1. sender' \in Process({"idle", "find", "send"})
      <4>1. {<<t, torrent[t].version>> : t \in S} \in SUBSET (Torrents \X (0..MaxUpdates))
        BY TodoType DEF Updated
      <4>2. sender' = [sender EXCEPT !.pc = "send", !.todo = {<<t, torrent[t].version>> : t \in S}]
        BY <2>2 DEF update_find
      <4>. HIDE DEF S
      <4>. QED
        BY <4>1, <4>2, ProcessTodo
    <3>. QED
      BY <2>2, <3>1 DEF update_find
  <2>3. CASE send_stats_update
    BY <1>0, <2>3 DEF send_stats_update, Process
  <2>4. CASE update_fails
    BY <1>0, <2>4, IdleType DEF update_fails
  <2>5. CASE update_end
    <3>1. sender' \in Process({"idle", "find", "send"})
      BY <2>5, IdleType DEF update_end
    <3>2. sender.now \in 0..time
      BY <1>0, <2>5 DEF update_end, Clocks
    <3>. QED
      BY <2>5, <3>1, <3>2 DEF update_end, Keys
  <2>. QED
    BY <1>6, <2>1, <2>2, <2>3, <2>4, <2>5 DEF Sender
<1>. QED
  BY <1>1, <1>2, <1>3, <1>4, <1>5, <1>6 DEF Next, Finished, vars

-----------------------------------------------------------------------------
(* Capture: the other conjuncts *)

\* What an action of one capture makes of the captures' fields.
LEMMA InitFields ==
    ASSUME TypeOK, NEW c \in Captures, init(c)
    PROVE  /\ \A d \in Captures \ {c} : capture'[d] = capture[d]
           /\ capture'[c].pc = "minute_last" /\ capture'[c].now = time
BY DEF TypeOK, init, Idle

LEMMA GetUpdatedFields ==
    ASSUME TypeOK, NEW c \in Captures, get_updated_torrents(c)
    PROVE  /\ \A d \in Captures \ {c} : capture'[d] = capture[d]
           /\ capture'[c].pc = "minute" /\ capture'[c].now = capture[c].now
           /\ capture'[c].todo = {<<t, torrent[t].version>> :
                                    t \in {u \in Updated(capture[c].last) : ~torrent[u].zero}}
BY DEF TypeOK, Process, get_updated_torrents

LEMMA HourFields ==
    ASSUME TypeOK, NEW c \in Captures, capture_hour(c)
    PROVE  /\ \A d \in Captures \ {c} : capture'[d] = capture[d]
           /\ capture'[c].now = capture[c].now
           /\ \/ capture'[c].pc = "hour" /\ should_capture_hour(capture[c].now, control["last_capture_hour"])
              \/ capture'[c].pc = "day_last"
<1>1. CASE should_capture_hour(capture[c].now, control["last_capture_hour"])
  BY <1>1 DEF TypeOK, Process, capture_hour
<1>2. CASE ~should_capture_hour(capture[c].now, control["last_capture_hour"])
  BY <1>2 DEF TypeOK, Process, capture_hour, Goto
<1>. QED
  BY <1>1, <1>2

LEMMA DayFields ==
    ASSUME TypeOK, NEW c \in Captures, capture_day(c)
    PROVE  /\ \A d \in Captures \ {c} : capture'[d] = capture[d]
           /\ \/ /\ capture'[c].pc = "day" /\ capture'[c].now = capture[c].now
                 /\ should_capture_day(capture[c].now, control["last_capture_day"])
              \/ capture'[c].pc = "idle"
<1>1. CASE should_capture_day(capture[c].now, control["last_capture_day"])
  BY <1>1 DEF TypeOK, Process, capture_day
<1>2. CASE ~should_capture_day(capture[c].now, control["last_capture_day"])
  BY <1>2 DEF TypeOK, Process, capture_day, Idle
<1>. QED
  BY <1>1, <1>2

\* A process takes its date when it begins, and the sender's date is stored only when it ends.
LEMMA ClocksStep == IInv /\ [Next]_vars => Clocks'
<1>. SUFFICES ASSUME TypeOK, Clocks, [Next]_vars
              PROVE  Clocks'
  BY TypeStep DEF IInv
<1>. USE DEF Clocks, history, rows, CaptureOnly, SenderOnly
<1>0. Day \in Nat /\ MaxTime \in Nat /\ time \in Nat
  BY BoundsAssumption, LengthsAssumption DEF TypeOK
<1>1. CASE UNCHANGED vars
  BY <1>1, <1>0 DEF vars, Running, TypeOK, Process
<1>2. CASE Tick
  BY <1>2, <1>0 DEF Tick, Running, TypeOK, Process
<1>3. ASSUME NEW t \in Torrents, get_now_mongo(t)
      PROVE  Clocks'
  BY <1>3, <1>0 DEF get_now_mongo, Running, TypeOK, Process
<1>4. ASSUME NEW t \in Torrents, update_stats(t)
      PROVE  Clocks'
  BY <1>4, <1>0 DEF update_stats, Dates, Running, TypeOK, Process
<1>5. ASSUME NEW c \in Captures, Capture(c)
      PROVE  Clocks'
  <2>1. CASE init(c)
    BY <2>1, <1>0 DEF init, Idle, Running, TypeOK, Process
  <2>2. CASE fails(c)
    BY <2>2, <1>0 DEF fails, Idle, Running, TypeOK, Process
  <2>3. CASE capture_minute_last(c)
    BY <2>3, <1>0 DEF capture_minute_last, Running, TypeOK, Process
  <2>4. CASE get_updated_torrents(c)
    BY <2>4, <1>0 DEF get_updated_torrents, Running, TypeOK, Process
  <2>5. CASE save_minute(c)
    BY <2>5, <1>0 DEF save_minute, Running, TypeOK, Process
  <2>6. CASE capture_minute_end(c)
    BY <2>6, <1>0 DEF capture_minute_end, Goto, Running, TypeOK, Process
  <2>7. CASE capture_hour(c)
    BY <2>7, <1>0 DEF capture_hour, Goto, Running, TypeOK, Process
  <2>8. CASE save_hour(c)
    BY <2>8, <1>0 DEF save_hour, Running, TypeOK, Process
  <2>9. CASE capture_hour_end(c)
    BY <2>9, <1>0 DEF capture_hour_end, Goto, Running, TypeOK, Process
  <2>10. CASE capture_day(c)
    BY <2>10, <1>0 DEF capture_day, Idle, Running, TypeOK, Process
  <2>11. CASE save_day(c)
    BY <2>11, <1>0 DEF save_day, Running, TypeOK, Process
  <2>12. CASE capture_day_end(c)
    BY <2>12, <1>0 DEF capture_day_end, Idle, Running, TypeOK, Process
  <2>. QED
    BY <1>5, <2>1, <2>2, <2>3, <2>4, <2>5, <2>6, <2>7, <2>8, <2>9, <2>10, <2>11, <2>12 DEF Capture
<1>6. CASE Sender
  <2>1. CASE update_start
    BY <2>1, <1>0 DEF update_start, Idle, Running, TypeOK, Process, Keys
  <2>2. CASE update_find
    BY <2>2, <1>0 DEF update_find, Running, TypeOK, Process
  <2>3. CASE send_stats_update
    BY <2>3, <1>0 DEF send_stats_update, Running, TypeOK, Process
  <2>4. CASE update_fails
    BY <2>4, <1>0 DEF update_fails, Idle, Running, TypeOK, Process
  <2>5. CASE update_end
    BY <2>5, <1>0 DEF update_end, Idle, Running, TypeOK, Process
  <2>. QED
    BY <1>6, <2>1, <2>2, <2>3, <2>4, <2>5 DEF Sender
<1>. QED
  BY <1>1, <1>2, <1>3, <1>4, <1>5, <1>6 DEF Next, Finished

\* A record that is stored while a capture is under way is late if the capture's date covers it.
LEMMA CapturesCompleteStep == IInv /\ [Next]_vars => CapturesComplete'
<1>. SUFFICES ASSUME TypeOK, TypeOK', UpdatesCaptured, CapturesComplete, [Next]_vars
              PROVE  CapturesComplete'
  BY TypeStep DEF IInv
<1>. USE DEF CapturesComplete, history, rows, CaptureOnly, SenderOnly
<1>1. CASE UNCHANGED vars
  BY <1>1 DEF vars, TypeOK, Process, Record
<1>2. CASE Tick
  BY <1>2 DEF Tick, TypeOK, Process, Record
<1>3. ASSUME NEW t \in Torrents, get_now_mongo(t)
      PROVE  CapturesComplete'
  BY <1>3 DEF get_now_mongo, TypeOK, Process, Record
<1>4. ASSUME NEW t \in Torrents, update_stats(t)
      PROVE  CapturesComplete'
  BY <1>4 DEF update_stats, Dates, TypeOK, Process, Record, Keys
<1>5. ASSUME NEW c \in Captures, Capture(c)
      PROVE  CapturesComplete'
  <2>1. CASE init(c)
    BY <2>1 DEF init, Idle, TypeOK, Process, Record
  <2>2. CASE fails(c)
    BY <2>2 DEF fails, Idle, TypeOK, Process, Record
  <2>3. CASE capture_minute_last(c)
    BY <2>3 DEF capture_minute_last, TypeOK, Process, Record, UpdatesCaptured
  <2>4. CASE get_updated_torrents(c)
    <3>1. /\ \A d \in Captures \ {c} : capture'[d] = capture[d]
          /\ capture'[c].pc = "minute" /\ capture'[c].now = capture[c].now
          /\ capture'[c].todo = {<<t, torrent[t].version>> :
                                   t \in {u \in Updated(capture[c].last) : ~torrent[u].zero}}
      BY <2>4, GetUpdatedFields
    <3>2. torrent' = torrent /\ captured' = captured /\ late' = late /\ capture[c].pc = "minute_find"
      BY <2>4 DEF get_updated_torrents
    <3>3. ASSUME NEW t \in Torrents \ late, torrent[t].updated <= capture[c].now, ~torrent[t].zero
          PROVE  <<t, torrent[t].version>> \in captured \cup capture'[c].todo
      <4>0. torrent[t].updated \in Int /\ capture[c].last \in Int
        BY BoundsAssumption DEF TypeOK, Record, Process
      <4>1. CASE torrent[t].updated <= capture[c].last
        BY <3>2, <3>3, <4>1
      <4>2. CASE torrent[t].updated > capture[c].last
        <5>1. t \in {u \in Updated(capture[c].last) : ~torrent[u].zero}
          BY <3>3, <4>2 DEF Updated
        <5>. QED
          BY <3>1, <5>1
      <4>. QED
        BY <4>0, <4>1, <4>2
    <3>. QED
      BY <3>1, <3>2, <3>3
  <2>5. CASE save_minute(c)
    BY <2>5 DEF save_minute, TypeOK, Process, Record
  <2>6. CASE capture_minute_end(c)
    BY <2>6 DEF capture_minute_end, Goto, TypeOK, Process, Record
  <2>7. CASE capture_hour(c)
    BY <2>7, SMTT(30) DEF capture_hour, Goto, TypeOK, Process, Record
  <2>8. CASE save_hour(c)
    BY <2>8 DEF save_hour, TypeOK, Process, Record
  <2>9. CASE capture_hour_end(c)
    BY <2>9 DEF capture_hour_end, Goto, TypeOK, Process, Record
  <2>10. CASE capture_day(c)
    BY <2>10, SMTT(30) DEF capture_day, Idle, TypeOK, Process, Record
  <2>11. CASE save_day(c)
    BY <2>11 DEF save_day, TypeOK, Process, Record
  <2>12. CASE capture_day_end(c)
    BY <2>12 DEF capture_day_end, Idle, TypeOK, Process, Record
  <2>. QED
    BY <1>5, <2>1, <2>2, <2>3, <2>4, <2>5, <2>6, <2>7, <2>8, <2>9, <2>10, <2>11, <2>12 DEF Capture
<1>6. CASE Sender
  <2>1. CASE update_start
    BY <2>1 DEF update_start, Idle, TypeOK, Process, Record
  <2>2. CASE update_find
    BY <2>2 DEF update_find, TypeOK, Process, Record
  <2>3. CASE send_stats_update
    BY <2>3 DEF send_stats_update, TypeOK, Process, Record
  <2>4. CASE update_fails
    BY <2>4 DEF update_fails, Idle, TypeOK, Process, Record
  <2>5. CASE update_end
    BY <2>5 DEF update_end, Idle, TypeOK, Process, Record
  <2>. QED
    BY <1>6, <2>1, <2>2, <2>3, <2>4, <2>5 DEF Sender
<1>. QED
  BY <1>1, <1>2, <1>3, <1>4, <1>5, <1>6 DEF Next, Finished

\* The same for the sender; what it has in its list was the last change when it was read.
LEMMA SenderCompleteStep == IInv /\ [Next]_vars => SenderComplete'
<1>. SUFFICES ASSUME TypeOK, TypeOK', Clocks, UpdatesSent, SenderComplete, [Next]_vars
              PROVE  SenderComplete'
  BY TypeStep DEF IInv
<1>. USE DEF SenderComplete, history, rows, CaptureOnly, SenderOnly
<1>1. CASE UNCHANGED vars
  BY <1>1 DEF vars, TypeOK, Process, Record
<1>2. CASE Tick
  BY <1>2 DEF Tick, TypeOK, Process, Record
<1>3. ASSUME NEW t \in Torrents, get_now_mongo(t)
      PROVE  SenderComplete'
  BY <1>3 DEF get_now_mongo, TypeOK, Process, Record
<1>4. ASSUME NEW t \in Torrents, update_stats(t)
      PROVE  SenderComplete'
  <2>1. CASE \E d \in Dates \cup {control["last_capture_minute"], control["last_incremental"]} :
              update.record.updated <= d
    <3>1. late' = late \cup {t} /\ sender' = sender /\ sent' = sent /\ torrent' = [torrent EXCEPT ![t] = update.record]
      BY <1>4, <2>1 DEF update_stats
    <3>. QED
      BY <3>1 DEF TypeOK
  <2>2. CASE ~\E d \in Dates \cup {control["last_capture_minute"], control["last_incremental"]} :
              update.record.updated <= d
    <3>1. late' = late \ {t} /\ sender' = sender /\ sent' = sent /\ torrent' = [torrent EXCEPT ![t] = update.record]
      BY <1>4, <2>2 DEF update_stats
    <3>2. sender.pc # "idle" => ~(update.record.updated <= sender.now)
      BY <2>2 DEF Dates
    <3>3. sender.pc # "idle" => ~(update.record.updated <= sender.last)
      <4>1. update.record.updated \in Int /\ sender.last \in Int /\ control["last_incremental"] \in Int
        BY BoundsAssumption, LengthsAssumption DEF TypeOK, Record, Process, Keys
      <4>2. ~(update.record.updated <= control["last_incremental"])
        BY <2>2
      <4>3. sender.pc # "idle" => sender.last <= control["last_incremental"]
        BY DEF Clocks
      <4>. QED
        BY <4>1, <4>2, <4>3
    <3>4. ASSUME NEW u \in Torrents \ late'
          PROVE  /\ sender.pc = "find" /\ torrent'[u].updated <= sender.last => sent[u] = torrent'[u].version
                 /\ sender.pc = "send" /\ torrent'[u].updated <= sender.now
                      => /\ sent[u] = torrent'[u].version \/ <<u, torrent'[u].version>> \in sender.todo
                         /\ \A p \in sender.todo : p[1] = u => p[2] = torrent'[u].version
      <4>1. CASE u = t
        <5>1. torrent'[u] = update.record
          BY <3>1, <4>1 DEF TypeOK
        <5>. QED
          BY <3>2, <3>3, <5>1
      <4>2. CASE u # t
        <5>1. torrent'[u] = torrent[u] /\ u \in Torrents \ late
          BY <3>1, <4>2 DEF TypeOK
        <5>. QED
          BY <5>1
      <4>. QED
        BY <4>1, <4>2
    <3>. QED
      BY <3>1, <3>4
  <2>. QED
    BY <2>1, <2>2
<1>5. ASSUME NEW c \in Captures, Capture(c)
      PROVE  SenderComplete'
  <2>1. CASE init(c)
    BY <2>1 DEF init, Idle, TypeOK, Process, Record
  <2>2. CASE fails(c)
    BY <2>2 DEF fails, Idle, TypeOK, Process, Record
  <2>3. CASE capture_minute_last(c)
    BY <2>3 DEF capture_minute_last, TypeOK, Process, Record
  <2>4. CASE get_updated_torrents(c)
    BY <2>4 DEF get_updated_torrents, TypeOK, Process, Record
  <2>5. CASE save_minute(c)
    BY <2>5 DEF save_minute, TypeOK, Process, Record
  <2>6. CASE capture_minute_end(c)
    BY <2>6 DEF capture_minute_end, Goto, TypeOK, Process, Record
  <2>7. CASE capture_hour(c)
    BY <2>7 DEF capture_hour, Goto, TypeOK, Process, Record
  <2>8. CASE save_hour(c)
    BY <2>8 DEF save_hour, TypeOK, Process, Record
  <2>9. CASE capture_hour_end(c)
    BY <2>9 DEF capture_hour_end, Goto, TypeOK, Process, Record
  <2>10. CASE capture_day(c)
    BY <2>10 DEF capture_day, Idle, TypeOK, Process, Record
  <2>11. CASE save_day(c)
    BY <2>11 DEF save_day, TypeOK, Process, Record
  <2>12. CASE capture_day_end(c)
    BY <2>12 DEF capture_day_end, Idle, TypeOK, Process, Record
  <2>. QED
    BY <1>5, <2>1, <2>2, <2>3, <2>4, <2>5, <2>6, <2>7, <2>8, <2>9, <2>10, <2>11, <2>12 DEF Capture
<1>6. CASE Sender
  <2>1. CASE update_start
    BY <2>1 DEF update_start, Idle, TypeOK, Process, Record, UpdatesSent, Keys
  <2>2. CASE update_find
    <3>1. sender'.pc = "send" /\ sender'.now = sender.now
          /\ sender'.todo = {<<t, torrent[t].version>> : t \in Updated(sender.last)}
      BY <2>2 DEF update_find, TypeOK, Process
    <3>2. torrent' = torrent /\ sent' = sent /\ late' = late /\ sender.pc = "find"
      BY <2>2 DEF update_find
    <3>3. ASSUME NEW t \in Torrents \ late
          PROVE  /\ sent[t] = torrent[t].version \/ <<t, torrent[t].version>> \in sender'.todo
                 /\ \A p \in sender'.todo : p[1] = t => p[2] = torrent[t].version
      <4>0. torrent[t].updated \in Int /\ sender.last \in Int
        BY BoundsAssumption DEF TypeOK, Record, Process
      <4>1. torrent[t].updated <= sender.last => sent[t] = torrent[t].version
        BY <3>2
      <4>2. torrent[t].updated > sender.last => <<t, torrent[t].version>> \in sender'.todo
        BY <3>1 DEF Updated
      <4>3. \A p \in sender'.todo : p[1] = t => p[2] = torrent[t].version
        BY <3>1
      <4>. QED
        BY <4>0, <4>1, <4>2, <4>3
    <3>. QED
      BY <3>1, <3>2, <3>3
  <2>3. CASE send_stats_update
    BY <2>3 DEF send_stats_update, TypeOK, Process, Record
  <2>4. CASE update_fails
    BY <2>4 DEF update_fails, Idle, TypeOK, Process, Record
  <2>5. CASE update_end
    BY <2>5 DEF update_end, Idle, TypeOK, Process, Record
  <2>. QED
    BY <1>6, <2>1, <2>2, <2>3, <2>4, <2>5 DEF Sender
<1>. QED
  BY <1>1, <1>2, <1>3, <1>4, <1>5, <1>6 DEF Next, Finished

\* The date moves on only when the list of the capture is empty.
LEMMA UpdatesCapturedStep == IInv /\ [Next]_vars => UpdatesCaptured'
<1>. SUFFICES ASSUME TypeOK, TypeOK', CapturesComplete, UpdatesCaptured, [Next]_vars
              PROVE  UpdatesCaptured'
  BY TypeStep DEF IInv
<1>. USE DEF UpdatesCaptured, history, rows, CaptureOnly, SenderOnly
<1>1. CASE UNCHANGED vars
  BY <1>1 DEF vars, TypeOK, Keys
<1>2. CASE Tick
  BY <1>2 DEF Tick, TypeOK, Keys
<1>3. ASSUME NEW t \in Torrents, get_now_mongo(t)
      PROVE  UpdatesCaptured'
  BY <1>3 DEF get_now_mongo, TypeOK, Keys
<1>4. ASSUME NEW t \in Torrents, update_stats(t)
      PROVE  UpdatesCaptured'
  BY <1>4 DEF update_stats, Dates, TypeOK, Keys, Record
<1>5. ASSUME NEW c \in Captures, Capture(c)
      PROVE  UpdatesCaptured'
  <2>1. CASE init(c)
    BY <2>1 DEF init, Idle, TypeOK, Keys
  <2>2. CASE fails(c)
    BY <2>2 DEF fails, Idle, TypeOK, Keys
  <2>3. CASE capture_minute_last(c)
    BY <2>3 DEF capture_minute_last, TypeOK, Keys
  <2>4. CASE get_updated_torrents(c)
    BY <2>4 DEF get_updated_torrents, TypeOK, Keys
  <2>5. CASE save_minute(c)
    BY <2>5 DEF save_minute, TypeOK, Keys
  <2>6. CASE capture_minute_end(c)
    BY <2>6 DEF capture_minute_end, Goto, TypeOK, Keys, CapturesComplete, Process, Record
  <2>7. CASE capture_hour(c)
    BY <2>7 DEF capture_hour, Goto, TypeOK, Keys
  <2>8. CASE save_hour(c)
    BY <2>8 DEF save_hour, TypeOK, Keys
  <2>9. CASE capture_hour_end(c)
    BY <2>9 DEF capture_hour_end, Goto, TypeOK, Keys
  <2>10. CASE capture_day(c)
    BY <2>10 DEF capture_day, Idle, TypeOK, Keys
  <2>11. CASE save_day(c)
    BY <2>11 DEF save_day, TypeOK, Keys
  <2>12. CASE capture_day_end(c)
    BY <2>12 DEF capture_day_end, Idle, TypeOK, Keys
  <2>. QED
    BY <1>5, <2>1, <2>2, <2>3, <2>4, <2>5, <2>6, <2>7, <2>8, <2>9, <2>10, <2>11, <2>12 DEF Capture
<1>6. CASE Sender
  <2>1. CASE update_start
    BY <2>1 DEF update_start, Idle, TypeOK, Keys
  <2>2. CASE update_find
    BY <2>2 DEF update_find, TypeOK, Keys
  <2>3. CASE send_stats_update
    BY <2>3 DEF send_stats_update, TypeOK, Keys
  <2>4. CASE update_fails
    BY <2>4 DEF update_fails, Idle, TypeOK, Keys
  <2>5. CASE update_end
    BY <2>5 DEF update_end, Idle, TypeOK, Keys
  <2>. QED
    BY <1>6, <2>1, <2>2, <2>3, <2>4, <2>5 DEF Sender
<1>. QED
  BY <1>1, <1>2, <1>3, <1>4, <1>5, <1>6 DEF Next, Finished

\* A message carries the last change of a torrent whose date the sender's covers.
LEMMA UpdatesSentStep == IInv /\ [Next]_vars => UpdatesSent'
<1>. SUFFICES ASSUME TypeOK, TypeOK', Clocks, SenderComplete, UpdatesSent, [Next]_vars
              PROVE  UpdatesSent'
  BY TypeStep DEF IInv
<1>. USE DEF UpdatesSent, history, rows, CaptureOnly, SenderOnly
<1>1. CASE UNCHANGED vars
  BY <1>1 DEF vars, TypeOK, Keys
<1>2. CASE Tick
  BY <1>2 DEF Tick, TypeOK, Keys
<1>3. ASSUME NEW t \in Torrents, get_now_mongo(t)
      PROVE  UpdatesSent'
  BY <1>3 DEF get_now_mongo, TypeOK, Keys
<1>4. ASSUME NEW t \in Torrents, update_stats(t)
      PROVE  UpdatesSent'
  BY <1>4 DEF update_stats, Dates, TypeOK, Keys, Record
<1>5. ASSUME NEW c \in Captures, Capture(c)
      PROVE  UpdatesSent'
  <2>1. CASE init(c)
    BY <2>1 DEF init, Idle, TypeOK, Keys
  <2>2. CASE fails(c)
    BY <2>2 DEF fails, Idle, TypeOK, Keys
  <2>3. CASE capture_minute_last(c)
    BY <2>3 DEF capture_minute_last, TypeOK, Keys
  <2>4. CASE get_updated_torrents(c)
    BY <2>4 DEF get_updated_torrents, TypeOK, Keys
  <2>5. CASE save_minute(c)
    BY <2>5 DEF save_minute, TypeOK, Keys
  <2>6. CASE capture_minute_end(c)
    BY <2>6 DEF capture_minute_end, Goto, TypeOK, Keys
  <2>7. CASE capture_hour(c)
    BY <2>7 DEF capture_hour, Goto, TypeOK, Keys
  <2>8. CASE save_hour(c)
    BY <2>8 DEF save_hour, TypeOK, Keys
  <2>9. CASE capture_hour_end(c)
    BY <2>9 DEF capture_hour_end, Goto, TypeOK, Keys
  <2>10. CASE capture_day(c)
    BY <2>10 DEF capture_day, Idle, TypeOK, Keys
  <2>11. CASE save_day(c)
    BY <2>11 DEF save_day, TypeOK, Keys
  <2>12. CASE capture_day_end(c)
    BY <2>12 DEF capture_day_end, Idle, TypeOK, Keys
  <2>. QED
    BY <1>5, <2>1, <2>2, <2>3, <2>4, <2>5, <2>6, <2>7, <2>8, <2>9, <2>10, <2>11, <2>12 DEF Capture
<1>6. CASE Sender
  <2>1. CASE update_start
    BY <2>1 DEF update_start, Idle, TypeOK, Keys
  <2>2. CASE update_find
    BY <2>2 DEF update_find, TypeOK, Keys
  <2>3. CASE send_stats_update
    <3>1. PICK p \in sender.todo : sent' = [sent EXCEPT ![p[1]] = p[2]]
      BY <2>3 DEF send_stats_update
    <3>2. torrent' = torrent /\ late' = late /\ control' = control /\ sender.pc = "send"
      BY <2>3 DEF send_stats_update
    <3>3. ASSUME NEW t \in Torrents \ late, torrent[t].updated <= control["last_incremental"]
          PROVE  sent'[t] = torrent[t].version
      <4>1. torrent[t].updated \in Int /\ sender.now \in Int /\ control["last_incremental"] \in Int
        BY BoundsAssumption, LengthsAssumption DEF TypeOK, Record, Process, Keys
      <4>2. torrent[t].updated <= sender.now
        BY <3>2, <3>3, <4>1 DEF Clocks
      <4>3. p[1] = t => p[2] = torrent[t].version
        BY <3>2, <4>2 DEF SenderComplete
      <4>. QED
        BY <3>1, <3>3, <4>3 DEF TypeOK
    <3>. QED
      BY <3>2, <3>3
  <2>4. CASE update_fails
    BY <2>4 DEF update_fails, Idle, TypeOK, Keys
  <2>5. CASE update_end
    BY <2>5 DEF update_end, Idle, TypeOK, Keys, SenderComplete, Process, Record
  <2>. QED
    BY <1>6, <2>1, <2>2, <2>3, <2>4, <2>5 DEF Sender
<1>. QED
  BY <1>1, <1>2, <1>3, <1>4, <1>5, <1>6 DEF Next, Finished

\* A capture begins in a minute after all those before it.
LEMMA MinutesDifferStep == IInv /\ [Next]_vars => MinutesDiffer'
<1>. SUFFICES ASSUME TypeOK, TypeOK', Clocks, MinutesDiffer, [Next]_vars
              PROVE  MinutesDiffer'
  BY TypeStep DEF IInv
<1>. USE DEF MinutesDiffer, history, rows, CaptureOnly, SenderOnly
<1>0. Day \in Nat /\ MaxTime \in Nat /\ time \in Nat
  BY BoundsAssumption, LengthsAssumption DEF TypeOK
<1>1. CASE UNCHANGED vars
  BY <1>1, <1>0 DEF vars, Running, FirstMinute, TypeOK, Process
<1>2. CASE Tick
  BY <1>2, <1>0 DEF Tick, Running, FirstMinute, TypeOK, Process
<1>3. ASSUME NEW t \in Torrents, get_now_mongo(t)
      PROVE  MinutesDiffer'
  BY <1>3, <1>0 DEF get_now_mongo, Running, FirstMinute, TypeOK, Process
<1>4. ASSUME NEW t \in Torrents, update_stats(t)
      PROVE  MinutesDiffer'
  BY <1>4, <1>0 DEF update_stats, Dates, Running, FirstMinute, TypeOK, Process
<1>5. ASSUME NEW c \in Captures, Capture(c)
      PROVE  MinutesDiffer'
  <2>1. CASE init(c)
    <3>1. /\ \A d \in Captures \ {c} : capture'[d] = capture[d]
          /\ capture'[c].pc = "minute_last" /\ capture'[c].now = time
      BY <2>1, InitFields
    <3>2. started' = time \div Minute /\ time \div Minute > started /\ hour' = hour
      BY <2>1 DEF init
    <3>3. started \in Int /\ time \div Minute \in Int
      BY <1>0, LengthsAssumption DEF TypeOK
    <3>4. \A d \in Captures : Running(d) => capture[d].now \div Minute < time \div Minute
      <4>. SUFFICES ASSUME NEW d \in Captures, Running(d)
                    PROVE  capture[d].now \div Minute < time \div Minute
        OBVIOUS
      <4>1. capture[d].now \in Nat
        BY <1>0 DEF Clocks
      <4>2. capture[d].now \div Minute \in Int
        BY <4>1, LengthsAssumption
      <4>. QED
        BY <3>2, <3>3, <4>2
    <3>5. \A r \in hour : r[2] \div Minute < time \div Minute
      <4>. SUFFICES ASSUME NEW r \in hour
                    PROVE  r[2] \div Minute < time \div Minute
        OBVIOUS
      <4>1. r[2] \in Nat
        BY <1>0 DEF TypeOK
      <4>2. r[2] \div Minute \in Int
        BY <4>1, LengthsAssumption
      <4>. QED
        BY <3>2, <3>3, <4>2
    <3>. DEFINE quotient(a) == a \div Minute
    <3>6. /\ \A d \in Captures : Running(d) => quotient(capture[d].now) \in Int
          /\ \A r \in hour : quotient(r[2]) \in Int
          /\ quotient(time) \in Int
      <4>1. \A a \in Nat : quotient(a) \in Int
        BY LengthsAssumption
      <4>2. /\ \A d \in Captures : Running(d) => capture[d].now \in Nat
            /\ \A r \in hour : r[2] \in Nat
        BY <1>0 DEF Clocks, TypeOK
      <4>. HIDE DEF quotient
      <4>. QED
        BY <1>0, <4>1, <4>2
    <3>7. \A d \in Captures : quotient(capture'[d].now) = IF d = c THEN quotient(time) ELSE quotient(capture[d].now)
      BY <3>1
    <3>8. /\ \A d \in Captures : Running(d) => quotient(capture[d].now) < quotient(time)
          /\ \A r \in hour : quotient(r[2]) < quotient(time)
          /\ started' = quotient(time)
          /\ \A d, e \in Captures : Running(d) /\ Running(e) /\ quotient(capture[d].now) = quotient(capture[e].now) => d = e
          /\ \A d \in Captures : \A r \in hour :
               Running(d) /\ quotient(r[2]) = quotient(capture[d].now) => r[2] = capture[d].now
      BY <3>2, <3>4, <3>5
    <3>9. \A d \in Captures : Running(d)' <=> (d = c \/ Running(d))
      BY <2>1, <3>1 DEF Running
    <3>10. \A d \in Captures : capture'[d].now = IF d = c THEN time ELSE capture[d].now
      BY <3>1
    <3>11. \A d \in Captures : capture'[d].pc = "hour" => d # c /\ capture[d].pc = "hour"
      BY <3>1
    <3>12. /\ \A d \in Captures : Running(d)' => quotient(capture'[d].now) <= started'
           /\ \A r \in hour' : quotient(r[2]) <= started'
      <4>. HIDE DEF quotient, MinutesDiffer
      <4>. QED
        BY <3>2, <3>6, <3>7, <3>8, <3>9
    <3>13. \A d, e \in Captures :
             Running(d)' /\ Running(e)' /\ quotient(capture'[d].now) = quotient(capture'[e].now) => d = e
      <4>. HIDE DEF quotient, MinutesDiffer
      <4>. QED
        BY <3>6, <3>7, <3>8, <3>9
    <3>14. \A d \in Captures : \A r \in hour' :
             Running(d)' /\ quotient(r[2]) = quotient(capture'[d].now) => r[2] = capture'[d].now
      <4>. HIDE DEF quotient, MinutesDiffer
      <4>. QED
        BY <3>2, <3>6, <3>7, <3>8, <3>9, <3>10
    <3>15. /\ \A r, s \in hour' : quotient(r[2]) = quotient(s[2]) => r[2] = s[2]
           /\ \A r \in hour' : FirstMinute(r[2])
           /\ \A d \in Captures : capture'[d].pc = "hour" => FirstMinute(capture'[d].now)
      BY <3>2, <3>10, <3>11
    <3>. QED
      BY <3>12, <3>13, <3>14, <3>15 DEF FirstMinute
  <2>2. CASE fails(c)
    BY <2>2, <1>0 DEF fails, Idle, Running, FirstMinute, TypeOK, Process
  <2>3. CASE capture_minute_last(c)
    BY <2>3, <1>0 DEF capture_minute_last, Running, FirstMinute, TypeOK, Process
  <2>4. CASE get_updated_torrents(c)
    <3>1. /\ \A d \in Captures : capture'[d].now = capture[d].now \/ capture'[d].pc = "idle"
          /\ \A d \in Captures : Running(d)' => Running(d)
          /\ \A d \in Captures : capture'[d].pc = "hour" => capture[d].pc = "hour"
      <4>1. /\ \A d \in Captures \ {c} : capture'[d] = capture[d]
            /\ capture'[c].pc = "minute" /\ capture'[c].now = capture[c].now
        BY <2>4, GetUpdatedFields, Zenon
      <4>2. capture[c].pc = "minute_find"
        BY <2>4 DEF get_updated_torrents
      <4>. QED
        BY <4>1, <4>2 DEF Running
    <3>2. hour' = hour /\ started' = started
      BY <2>4 DEF get_updated_torrents
    <3>. QED
      BY <3>1, <3>2 DEF Running, FirstMinute
  <2>5. CASE save_minute(c)
    BY <2>5, <1>0 DEF save_minute, Running, FirstMinute, TypeOK, Process
  <2>6. CASE capture_minute_end(c)
    BY <2>6, <1>0 DEF capture_minute_end, Goto, Running, FirstMinute, TypeOK, Process
  <2>7. CASE capture_hour(c)
    <3>1. /\ \A d \in Captures : capture'[d].now = capture[d].now \/ capture'[d].pc = "idle"
          /\ \A d \in Captures : Running(d)' => Running(d)
          /\ \A d \in Captures : capture'[d].pc = "hour" => capture[d].pc = "hour"
             \/ FirstMinute(capture'[d].now)
      BY <2>7, HourFields DEF capture_hour, Running, should_capture_hour, FirstMinute
    <3>2. hour' = hour /\ started' = started
      BY <2>7 DEF capture_hour
    <3>. QED
      BY <3>1, <3>2 DEF Running, FirstMinute
  <2>8. CASE save_hour(c)
    BY <2>8, <1>0 DEF save_hour, Running, FirstMinute, TypeOK, Process
  <2>9. CASE capture_hour_end(c)
    BY <2>9, <1>0 DEF capture_hour_end, Goto, Running, FirstMinute, TypeOK, Process
  <2>10. CASE capture_day(c)
    <3>1. /\ \A d \in Captures : capture'[d].now = capture[d].now \/ capture'[d].pc = "idle"
          /\ \A d \in Captures : Running(d)' => Running(d)
          /\ \A d \in Captures : capture'[d].pc = "hour" => capture[d].pc = "hour"
      BY <2>10, DayFields DEF capture_day, Running
    <3>2. hour' = hour /\ started' = started
      BY <2>10 DEF capture_day
    <3>. QED
      BY <3>1, <3>2 DEF Running, FirstMinute
  <2>11. CASE save_day(c)
    BY <2>11, <1>0 DEF save_day, Running, FirstMinute, TypeOK, Process
  <2>12. CASE capture_day_end(c)
    BY <2>12, <1>0 DEF capture_day_end, Idle, Running, FirstMinute, TypeOK, Process
  <2>. QED
    BY <1>5, <2>1, <2>2, <2>3, <2>4, <2>5, <2>6, <2>7, <2>8, <2>9, <2>10, <2>11, <2>12 DEF Capture
<1>6. CASE Sender
  <2>1. CASE update_start
    BY <2>1, <1>0 DEF update_start, Idle, Running, FirstMinute, TypeOK, Process
  <2>2. CASE update_find
    BY <2>2, <1>0, ZenonT(30) DEF update_find, Running, FirstMinute, TypeOK, Process
  <2>3. CASE send_stats_update
    BY <2>3, <1>0 DEF send_stats_update, Running, FirstMinute, TypeOK, Process
  <2>4. CASE update_fails
    BY <2>4, <1>0 DEF update_fails, Idle, Running, FirstMinute, TypeOK, Process
  <2>5. CASE update_end
    BY <2>5, <1>0 DEF update_end, Idle, Running, FirstMinute, TypeOK, Process
  <2>. QED
    BY <1>6, <2>1, <2>2, <2>3, <2>4, <2>5 DEF Sender
<1>. QED
  BY <1>1, <1>2, <1>3, <1>4, <1>5, <1>6 DEF Next, Finished

\* A day is captured a day after the last, if every capture ends before the next begins.
LEMMA DaysApartStep == IInv /\ [Next]_vars => DaysApart'
<1>. SUFFICES ASSUME TypeOK, TypeOK', Clocks, DaysApart, [Next]_vars
              PROVE  DaysApart'
  BY TypeStep DEF IInv
<1>. USE DEF DaysApart, history, rows, CaptureOnly, SenderOnly
<1>0. Day \in Nat /\ MaxTime \in Nat /\ time \in Nat
  BY BoundsAssumption, LengthsAssumption DEF TypeOK
<1>1. CASE UNCHANGED vars
  BY <1>1, <1>0 DEF vars, Running, TypeOK, Process, Keys
<1>2. CASE Tick
  BY <1>2, <1>0 DEF Tick, Running, TypeOK, Process, Keys
<1>3. ASSUME NEW t \in Torrents, get_now_mongo(t)
      PROVE  DaysApart'
  BY <1>3, <1>0 DEF get_now_mongo, Running, TypeOK, Process, Keys
<1>4. ASSUME NEW t \in Torrents, update_stats(t)
      PROVE  DaysApart'
  BY <1>4, <1>0 DEF update_stats, Dates, Running, TypeOK, Process, Keys
<1>5. ASSUME NEW c \in Captures, Capture(c)
      PROVE  DaysApart'
  <2>1. CASE init(c)
    <3>1. /\ \A d \in Captures \ {c} : capture'[d] = capture[d]
          /\ capture'[c].pc = "minute_last"
      BY <2>1, InitFields
    <3>2. control' = control /\ day' = day /\ (~disturbed' => ~disturbed /\ Others(c) = {})
      BY <2>1 DEF init
    <3>3. Others(c) = {} => \A d \in Captures : d # c => ~Running(d)
      BY DEF Others, Running
    <3>4. \A d \in Captures : d # c => (Running(d)' <=> Running(d))
      BY <3>1 DEF Running
    <3>5. capture[c].pc # "day"
      BY <2>1 DEF init
    <3>. QED
      BY <3>1, <3>2, <3>3, <3>4, <3>5
  <2>2. CASE fails(c)
    BY <2>2, <1>0 DEF fails, Idle, Running, TypeOK, Process, Keys
  <2>3. CASE capture_minute_last(c)
    BY <2>3, <1>0 DEF capture_minute_last, Running, TypeOK, Process, Keys
  <2>4. CASE get_updated_torrents(c)
    <3>1. /\ \A d \in Captures \ {c} : capture'[d] = capture[d]
          /\ capture'[c].pc = "minute" /\ capture'[c].now = capture[c].now
      BY <2>4, GetUpdatedFields
    <3>2. control' = control /\ day' = day /\ disturbed' = disturbed /\ capture[c].pc = "minute_find"
      BY <2>4 DEF get_updated_torrents
    <3>3. \A d \in Captures : Running(d)' => Running(d)
      BY <3>1, <3>2 DEF Running
    <3>4. \A d \in Captures : (capture'[d].pc = "day" <=> capture[d].pc = "day") /\ capture'[d].now = capture[d].now
      BY <3>1, <3>2
    <3>. QED
      BY <3>2, <3>3, <3>4
  <2>5. CASE save_minute(c)
    BY <2>5, <1>0 DEF save_minute, Running, TypeOK, Process, Keys
  <2>6. CASE capture_minute_end(c)
    BY <2>6, <1>0 DEF capture_minute_end, Goto, Running, TypeOK, Process, Keys
  <2>7. CASE capture_hour(c)
    BY <2>7, <1>0, SMTT(30) DEF capture_hour, Goto, Running, TypeOK, Process, Keys
  <2>8. CASE save_hour(c)
    BY <2>8, <1>0 DEF save_hour, Running, TypeOK, Process, Keys
  <2>9. CASE capture_hour_end(c)
    BY <2>9, <1>0 DEF capture_hour_end, Goto, Running, TypeOK, Process, Keys
  <2>10. CASE capture_day(c)
    <3>1. /\ \A d \in Captures \ {c} : capture'[d] = capture[d]
          /\ \/ /\ capture'[c].pc = "day" /\ capture'[c].now = capture[c].now
                /\ should_capture_day(capture[c].now, control["last_capture_day"])
             \/ capture'[c].pc = "idle"
      BY <2>10, DayFields
    <3>2. control' = control /\ day' = day /\ disturbed' = disturbed /\ capture[c].pc = "day_last"
      BY <2>10 DEF capture_day
    <3>3. \A d \in Captures : Running(d)' => Running(d)
      BY <3>1, <3>2 DEF Running
    <3>4. /\ \A d \in Captures : capture[d].pc = "day" => capture'[d].pc = "day" /\ capture'[d].now = capture[d].now
          /\ \A d \in Captures : capture'[d].pc = "day" =>
               /\ capture'[d].now = capture[d].now
               /\ capture[d].pc = "day" \/ control["last_capture_day"] <= capture[d].now - Day
      BY <3>1, <3>2 DEF should_capture_day
    <3>. QED
      BY <3>2, <3>3, <3>4
  <2>11. CASE save_day(c)
    BY <2>11, <1>0 DEF save_day, Running, TypeOK, Process, Keys
  <2>12. CASE capture_day_end(c)
    BY <2>12, <1>0 DEF capture_day_end, Idle, Running, TypeOK, Process, Keys
  <2>. QED
    BY <1>5, <2>1, <2>2, <2>3, <2>4, <2>5, <2>6, <2>7, <2>8, <2>9, <2>10, <2>11, <2>12 DEF Capture
<1>6. CASE Sender
  <2>1. CASE update_start
    BY <2>1, <1>0 DEF update_start, Idle, Running, TypeOK, Process, Keys
  <2>2. CASE update_find
    BY <2>2, <1>0, ZenonT(30) DEF update_find, Running, TypeOK, Process, Keys
  <2>3. CASE send_stats_update
    BY <2>3, <1>0 DEF send_stats_update, Running, TypeOK, Process, Keys
  <2>4. CASE update_fails
    BY <2>4, <1>0 DEF update_fails, Idle, Running, TypeOK, Process, Keys
  <2>5. CASE update_end
    BY <2>5, <1>0 DEF update_end, Idle, Running, TypeOK, Process, Keys
  <2>. QED
    BY <1>6, <2>1, <2>2, <2>3, <2>4, <2>5 DEF Sender
<1>. QED
  BY <1>1, <1>2, <1>3, <1>4, <1>5, <1>6 DEF Next, Finished

\* A new row is of another day than the rows there are.
LEMMA DayRowsOnceStep == IInv /\ [Next]_vars => DayRowsOnce'
<1>. SUFFICES ASSUME TypeOK, TypeOK', Clocks, DaysApart, DayRowsOnce, [Next]_vars
              PROVE  DayRowsOnce'
  BY TypeStep DEF IInv
<1>. USE DEF DayRowsOnce, history, rows, CaptureOnly, SenderOnly
<1>0. Day \in Nat /\ MaxTime \in Nat /\ time \in Nat
  BY BoundsAssumption, LengthsAssumption DEF TypeOK
<1>1. CASE UNCHANGED vars
  BY <1>1, <1>0 DEF vars, TypeOK
<1>2. CASE Tick
  BY <1>2, <1>0 DEF Tick, TypeOK
<1>3. ASSUME NEW t \in Torrents, get_now_mongo(t)
      PROVE  DayRowsOnce'
  BY <1>3, <1>0 DEF get_now_mongo, TypeOK
<1>4. ASSUME NEW t \in Torrents, update_stats(t)
      PROVE  DayRowsOnce'
  BY <1>4, <1>0 DEF update_stats, Dates, TypeOK
<1>5. ASSUME NEW c \in Captures, Capture(c)
      PROVE  DayRowsOnce'
  <2>1. CASE init(c)
    BY <2>1, <1>0 DEF init, Idle, TypeOK
  <2>2. CASE fails(c)
    BY <2>2, <1>0 DEF fails, Idle, TypeOK
  <2>3. CASE capture_minute_last(c)
    BY <2>3, <1>0 DEF capture_minute_last, TypeOK
  <2>4. CASE get_updated_torrents(c)
    BY <2>4, <1>0 DEF get_updated_torrents, TypeOK
  <2>5. CASE save_minute(c)
    BY <2>5, <1>0 DEF save_minute, TypeOK
  <2>6. CASE capture_minute_end(c)
    BY <2>6, <1>0 DEF capture_minute_end, Goto, TypeOK
  <2>7. CASE capture_hour(c)
    BY <2>7, <1>0 DEF capture_hour, Goto, TypeOK
  <2>8. CASE save_hour(c)
    BY <2>8, <1>0 DEF save_hour, TypeOK
  <2>9. CASE capture_hour_end(c)
    BY <2>9, <1>0 DEF capture_hour_end, Goto, TypeOK
  <2>10. CASE capture_day(c)
    BY <2>10, <1>0 DEF capture_day, Idle, TypeOK
  <2>11. CASE save_day(c)
    <3>1. PICK p \in capture[c].todo : day' = day \cup {<<p[1], capture[c].now>>}
      BY <2>11 DEF save_day
    <3>2. disturbed' = disturbed /\ capture[c].pc = "day" /\ Running(c)
      BY <2>11 DEF save_day, Running
    <3>. SUFFICES ASSUME ~disturbed
                  PROVE  \A r, s \in day' : r[1] = s[1] /\ r[2] \div Day = s[2] \div Day => r = s
      BY <3>2
    <3>3. /\ capture[c].now \in Nat /\ control["last_capture_day"] \in Nat
          /\ control["last_capture_day"] <= capture[c].now - Day
      BY <1>0, <3>2 DEF Clocks, DaysApart, TypeOK, Keys
    <3>4. ASSUME NEW r \in day
          PROVE  r[2] = capture[c].now \/ r[2] \div Day # capture[c].now \div Day
      <4>1. r[2] \in Nat
        BY <1>0 DEF TypeOK
      <4>2. CASE r[2] <= control["last_capture_day"]
        <5>1. r[2] <= capture[c].now - Day
          BY <1>0, <3>3, <4>1, <4>2
        <5>. QED
          BY <3>3, <4>1, <5>1, Apart, LengthsAssumption
      <4>3. CASE \E d \in Captures : capture[d].pc = "day" /\ r[2] = capture[d].now
        BY <3>2, <4>3 DEF DaysApart, Running
      <4>. QED
        BY <4>2, <4>3 DEF DaysApart
    <3>5. \A r \in day : r = <<r[1], r[2]>>
      BY DEF TypeOK
    <3>. QED
      BY <3>1, <3>4, <3>5
  <2>12. CASE capture_day_end(c)
    BY <2>12, <1>0 DEF capture_day_end, Idle, TypeOK
  <2>. QED
    BY <1>5, <2>1, <2>2, <2>3, <2>4, <2>5, <2>6, <2>7, <2>8, <2>9, <2>10, <2>11, <2>12 DEF Capture
<1>6. CASE Sender
  <2>1. CASE update_start
    BY <2>1, <1>0 DEF update_start, Idle, TypeOK
  <2>2. CASE update_find
    BY <2>2, <1>0 DEF update_find, TypeOK
  <2>3. CASE send_stats_update
    BY <2>3, <1>0 DEF send_stats_update, TypeOK
  <2>4. CASE update_fails
    BY <2>4, <1>0 DEF update_fails, Idle, TypeOK
  <2>5. CASE update_end
    BY <2>5, <1>0 DEF update_end, Idle, TypeOK
  <2>. QED
    BY <1>6, <2>1, <2>2, <2>3, <2>4, <2>5 DEF Sender
<1>. QED
  BY <1>1, <1>2, <1>3, <1>4, <1>5, <1>6 DEF Next, Finished

-----------------------------------------------------------------------------
(* Capture: the invariant and the theorems *)

LEMMA InvInit == Init => IInv
<1>. SUFFICES ASSUME Init
              PROVE  IInv
  OBVIOUS
<1>1. TypeOK
  BY TypeInit
<1>2. \A c \in Captures : capture[c].pc = "idle"
  BY DEF Init, Idle
<1>3. sender.pc = "idle"
  BY DEF Init, Idle
<1>4. Clocks /\ MinutesDiffer
  BY <1>2, <1>3 DEF Init, Clocks, MinutesDiffer, Running
<1>5. CapturesComplete /\ SenderComplete
  BY <1>2, <1>3 DEF CapturesComplete, SenderComplete
<1>6. UpdatesCaptured /\ UpdatesSent
  BY NoUpdateType DEF Init, UpdatesCaptured, UpdatesSent
<1>7. DaysApart /\ DayRowsOnce
  BY <1>2 DEF Init, DaysApart, DayRowsOnce, Running
<1>. QED
  BY <1>1, <1>4, <1>5, <1>6, <1>7 DEF IInv

\* The inductive invariant holds, for any torrents, captures and lengths of time.
THEOREM Invariance == Spec => []IInv
<1>1. Init => IInv
  BY InvInit
<1>2. IInv /\ [Next]_vars => IInv'
  BY TypeStep, ClocksStep, CapturesCompleteStep, SenderCompleteStep, UpdatesCapturedStep, UpdatesSentStep,
     MinutesDifferStep, DaysApartStep, DayRowsOnceStep DEF IInv
<1>. QED
  BY <1>1, <1>2, PTL DEF Spec

\* No change passes a capture or a sending unseen, whichever of them overlap or break off: what
\* a record said before the stored date has its row, and has been sent.
THEOREM NoUpdateLost == Spec => []UpdatesExact
<1>1. IInv => UpdatesExact
  BY DEF IInv, UpdatesExact
<1>. QED
  BY <1>1, Invariance, PTL

\* Two hour rows of one hour were taken in its first minute, so by the one capture of that minute.
LEMMA HoursOnce == TypeOK /\ MinutesDiffer => HourRowsOnce
<1>. SUFFICES ASSUME TypeOK, MinutesDiffer,
                     NEW r \in hour, NEW s \in hour, r[1] = s[1], r[2] \div Hour = s[2] \div Hour
              PROVE  r = s
  BY DEF HourRowsOnce
<1>1. r[2] \in Nat /\ s[2] \in Nat /\ r = <<r[1], r[2]>> /\ s = <<s[1], s[2]>>
  BY LengthsAssumption DEF TypeOK
<1>2. (r[2] % Hour) \div Minute = 0 /\ (s[2] % Hour) \div Minute = 0
  BY DEF MinutesDiffer, FirstMinute
<1>3. /\ r[2] \div Minute = (Hour \div Minute) * (r[2] \div Hour)
      /\ s[2] \div Minute = (Hour \div Minute) * (s[2] \div Hour)
  BY <1>1, <1>2, EarlyInHour, LengthsAssumption
<1>4. r[2] \div Minute = s[2] \div Minute
  BY <1>3
<1>. QED
  BY <1>1, <1>4 DEF MinutesDiffer

\* The charts show an hour once, whatever the captures do, and a day once if none broke off or
\* overlapped with another.
THEOREM RowsTakenOnce == Spec => []RowsOnce
<1>1. IInv => RowsOnce
  BY HoursOnce DEF IInv, RowsOnce
<1>. QED
  BY <1>1, Invariance, PTL

-----------------------------------------------------------------------------
(* Statistics: digits, networks and their order *)

\* A network is a sequence of as many digits as it says.
LEMMA PathFacts ==
    ASSUME NEW n \in Nat, NEW p \in Paths(n)
    PROVE  /\ p \in Seq(Digits) /\ Len(p) = n /\ DOMAIN p = 1..n
           /\ \A i \in 1..n : p[i] \in Digits /\ p[i] \in Nat
<1>1. NODE_COUNT \in Nat \ {0}
  BY TreeAssumption
<1>2. \A d \in Digits : d \in Nat
  BY <1>1 DEF Digits
<1>3. p \in [1..n -> Digits]
  BY DEF Paths
<1> QED
  BY <1>2, <1>3

\* And any such sequence is one.
LEMMA PathOfLength ==
    ASSUME NEW s \in Seq(Digits)
    PROVE  s \in Paths(Len(s))
BY DEF Paths

\* Two networks differ first somewhere, or are the same.
LEMMA BeforeTotal ==
    ASSUME NEW n \in Nat, NEW x \in Paths(n), NEW y \in Paths(n), x # y
    PROVE  Before(x, y) \/ Before(y, x)
<1> DEFINE D == {i \in 1..n : x[i] # y[i]}
<1>1. D # {}
  <2>1. x = [i \in 1..n |-> x[i]] /\ y = [i \in 1..n |-> y[i]]
    BY DEF Paths
  <2> QED
    BY <2>1
<1>2. D \in SUBSET Nat
  OBVIOUS
<1>3. PICK i \in D : \A j \in D : i <= j
  <2> HIDE DEF D
  <2> QED
    BY <1>1, <1>2, MinProperties
<1>4. i \in 1..n /\ x[i] # y[i] /\ \A j \in 1..(i - 1) : x[j] = y[j]
  BY <1>3
<1>5. x[i] \in Nat /\ y[i] \in Nat
  BY <1>4, PathFacts
<1>6. x[i] < y[i] \/ y[i] < x[i]
  BY <1>4, <1>5
<1>7. Len(x) = n /\ Len(y) = n
  BY PathFacts
<1> QED
  BY <1>4, <1>6, <1>7 DEF Before

\* The order is one.
LEMMA BeforeOrder ==
    ASSUME NEW n \in Nat, NEW x \in Paths(n), NEW y \in Paths(n), NEW z \in Paths(n)
    PROVE  /\ ~Before(x, x)
           /\ Before(x, y) /\ Before(y, z) => Before(x, z)
<1>1. Len(x) = n /\ Len(y) = n /\ \A i \in 1..n : x[i] \in Nat /\ y[i] \in Nat /\ z[i] \in Nat
  BY PathFacts
<1>2. ~Before(x, x)
  BY <1>1 DEF Before
<1>3. ASSUME Before(x, y), Before(y, z) PROVE Before(x, z)
  <2>1. PICK i \in 1..n : x[i] < y[i] /\ \A j \in 1..(i - 1) : x[j] = y[j]
    BY <1>1, <1>3 DEF Before
  <2>2. PICK k \in 1..n : y[k] < z[k] /\ \A j \in 1..(k - 1) : y[j] = z[j]
    BY <1>1, <1>3 DEF Before
  <2>3. CASE i < k
    <3>1. x[i] < z[i] /\ \A j \in 1..(i - 1) : x[j] = z[j]
      BY <2>1, <2>2, <2>3, <1>1
    <3> QED
      BY <3>1, <1>1 DEF Before
  <2>4. CASE i >= k
    <3>1. x[k] < z[k]
      <4>1. CASE i = k
        BY <4>1, <2>1, <2>2, <1>1
      <4>2. CASE i # k
        <5>1. k \in 1..(i - 1)
          BY <4>2, <2>4
        <5> QED
          BY <5>1, <2>1, <2>2, <1>1
      <4> QED
        BY <4>1, <4>2
    <3>2. \A j \in 1..(k - 1) : x[j] = z[j]
      BY <2>1, <2>2, <2>4
    <3> QED
      BY <3>1, <3>2, <1>1 DEF Before
  <2> QED
    BY <2>3, <2>4
<1> QED
  BY <1>2, <1>3

\* There are finitely many.
LEMMA PathsFinite ==
    ASSUME NEW n \in Nat
    PROVE  IsFiniteSet(Paths(n))
<1> DEFINE F == {k \in Nat : IsFiniteSet(Paths(k))}
<1>1. 0 \in F
  <2>1. Paths(0) \subseteq {<<>>}
    BY DEF Paths
  <2>2. IsFiniteSet({<<>>})
    BY FS_Singleton
  <2> QED
    BY <2>1, <2>2, FS_Subset
<1>2. ASSUME NEW k \in Nat, k \in F PROVE k + 1 \in F
  <2> DEFINE S == Paths(k) \X Digits
             T == Paths(k + 1)
             f == [s \in S |-> [i \in 1..(k + 1) |-> IF i = k + 1 THEN s[2] ELSE s[1][i]]]
  <2>1. IsFiniteSet(S)
    <3>1. IsFiniteSet(Digits)
      BY TreeAssumption, FS_Interval DEF Digits
    <3> QED
      BY <1>2, <3>1, FS_Product
  <2>2. f \in [S -> T]
    <3>1. ASSUME NEW s \in S PROVE f[s] \in T
      <4>1. s[1] \in [1..k -> Digits] /\ s[2] \in Digits
        BY DEF Paths
      <4> QED
        BY <4>1 DEF Paths
    <3> QED
      BY <3>1
  <2>3. ASSUME NEW t \in T PROVE \E s \in S : f[s] = t
    <3> DEFINE s == <<[i \in 1..k |-> t[i]], t[k + 1]>>
    <3>1. t \in [1..(k + 1) -> Digits]
      BY DEF Paths
    <3>2. s \in S
      BY <3>1 DEF Paths
    <3>3. f[s] = [i \in 1..(k + 1) |-> t[i]]
      BY <3>2
    <3>4. t = [i \in 1..(k + 1) |-> t[i]]
      BY <3>1
    <3> QED
      BY <3>2, <3>3, <3>4
  <2>4. f \in Surjection(S, T)
    <3> HIDE DEF f, S, T
    <3> QED
      BY <2>2, <2>3 DEF Surjection
  <2>5. IsFiniteSet(T)
    <3> HIDE DEF f, S, T
    <3> QED
      BY <2>1, <2>4, FS_Surjection
  <2> QED
    BY <2>5
<1> HIDE DEF F
<1>3. n \in F
  BY <1>1, <1>2, NumbersInduction
<1> QED
  BY <1>3 DEF F

\* A set of networks is put in order: each has one place.
LEMMA SortedFacts ==
    ASSUME NEW n \in Nat, NEW S \in SUBSET Paths(n)
    PROVE  /\ Cardinality(S) \in Nat
           /\ Sorted(S) \in [1..Cardinality(S) -> S]
           /\ \A i, j \in 1..Cardinality(S) : Sorted(S)[i] = Sorted(S)[j] => i = j
           /\ \A x \in S : \E i \in 1..Cardinality(S) : Sorted(S)[i] = x
<1> DEFINE N == Cardinality(S)
           Down(x) == {y \in S : Before(y, x)}
           r == [x \in S |-> Cardinality(Down(x))]
<1>1. IsFiniteSet(S) /\ N \in Nat
  BY PathsFinite, FS_Subset, FS_CardinalityType
<1>2. ASSUME NEW A \in SUBSET S, NEW B \in SUBSET S, A \subseteq B, A # B
      PROVE  Cardinality(A) \in Nat /\ Cardinality(B) \in Nat /\ Cardinality(A) < Cardinality(B)
  <2>1. IsFiniteSet(A) /\ IsFiniteSet(B)
    BY <1>1, FS_Subset
  <2>2. Cardinality(A) <= Cardinality(B) /\ (Cardinality(B) = Cardinality(A) => B = A)
    BY <1>2, <2>1, FS_Subset
  <2>3. Cardinality(A) \in Nat /\ Cardinality(B) \in Nat
    BY <2>1, FS_CardinalityType
  <2> QED
    BY <1>2, <2>2, <2>3
<1>3. ASSUME NEW x \in S PROVE r[x] \in 0..(N - 1)
  <2>1. Down(x) \in SUBSET S /\ x \notin Down(x)
    BY BeforeOrder
  <2> HIDE DEF Down
  <2>2. Cardinality(Down(x)) \in Nat /\ Cardinality(Down(x)) < N
    BY <1>2, <2>1
  <2> QED
    BY <2>2, <1>1
<1>4. ASSUME NEW x \in S, NEW y \in S, x # y PROVE r[x] # r[y]
  <2>1. ASSUME NEW u \in S, NEW v \in S, Before(u, v)
        PROVE  r[u] \in Nat /\ r[v] \in Nat /\ r[u] < r[v]
    <3>1. Down(u) \in SUBSET S /\ Down(v) \in SUBSET S
      OBVIOUS
    <3>2. Down(u) \subseteq Down(v)
      BY <2>1, BeforeOrder
    <3>3. u \in Down(v) /\ u \notin Down(u)
      BY <2>1, BeforeOrder
    <3> HIDE DEF Down
    <3> QED
      BY <3>1, <3>2, <3>3, <1>2
  <2> HIDE DEF r, Down
  <2>2. CASE Before(x, y)
    BY <2>1, <2>2
  <2>3. CASE Before(y, x)
    BY <2>1, <2>3
  <2> QED
    BY <1>4, <2>2, <2>3, BeforeTotal
<1>5. r \in [S -> 0..(N - 1)]
  BY <1>3
<1> HIDE DEF r
<1>6. r \in Injection(S, 0..(N - 1))
  BY <1>4, <1>5 DEF Injection, IsInjective
<1>7. r \in Surjection(S, 0..(N - 1))
  <2>1. IsFiniteSet(0..(N - 1)) /\ Cardinality(0..(N - 1)) = N
    BY <1>1, FS_Interval
  <2> HIDE DEF N
  <2> QED
    BY <1>6, <2>1, FS_Injection DEF N
<1>8. ASSUME NEW i \in 1..N PROVE Sorted(S)[i] \in S /\ r[Sorted(S)[i]] = i - 1
  <2>1. i - 1 \in 0..(N - 1)
    BY <1>1
  <2>2. \E x \in S : r[x] = i - 1
    BY <1>7, <2>1 DEF Surjection
  <2>3. \E x \in S : Cardinality({y \in S : Before(y, x)}) = i - 1
    BY <2>2 DEF r
  <2>4. Sorted(S)[i] \in S /\ Cardinality({y \in S : Before(y, Sorted(S)[i])}) = i - 1
    BY <2>3 DEF Sorted
  <2> QED
    BY <2>4 DEF r
<1>9. Sorted(S) \in [1..N -> S]
  <2>1. Sorted(S) = [i \in 1..N |-> Sorted(S)[i]]
    BY DEF Sorted
  <2> QED
    BY <1>8, <2>1
<1>10. ASSUME NEW i \in 1..N, NEW j \in 1..N, Sorted(S)[i] = Sorted(S)[j] PROVE i = j
  <2>1. i - 1 = j - 1
    BY <1>8, <1>10
  <2> QED
    BY <2>1, <1>1
<1>11. ASSUME NEW x \in S PROVE \E i \in 1..N : Sorted(S)[i] = x
  <2>1. r[x] \in 0..(N - 1)
    BY <1>5
  <2>2. r[x] + 1 \in 1..N /\ (r[x] + 1) - 1 = r[x]
    BY <2>1, <1>1
  <2>3. Sorted(S)[r[x] + 1] \in S /\ r[Sorted(S)[r[x] + 1]] = r[x]
    BY <1>8, <2>2
  <2>4. Sorted(S)[r[x] + 1] = x
    BY <1>4, <2>3
  <2> QED
    BY <2>2, <2>4
<1> QED
  BY <1>1, <1>9, <1>10, <1>11

\* The first digits of a network, and of an address.
LEMMA SubPathFacts ==
    ASSUME NEW k \in Nat, NEW q \in Seq(Digits), Len(q) >= k
    PROVE  SubSeq(q, 1, k) \in Paths(k) /\ \A i \in 1..k : SubSeq(q, 1, k)[i] = q[i]
<1>1. Len(q) \in Nat /\ \A i \in 1..k : q[i] \in Digits
  OBVIOUS
<1>2. /\ SubSeq(q, 1, k) \in Seq(Digits)
      /\ Len(SubSeq(q, 1, k)) = IF 1 <= k THEN k - 1 + 1 ELSE 0
      /\ \A i \in 1..(k - 1 + 1) : SubSeq(q, 1, k)[i] = q[1 + i - 1]
  BY <1>1, SubSeqProperties
<1>3. Len(SubSeq(q, 1, k)) = k
  BY <1>2
<1>4. SubSeq(q, 1, k) \in Paths(k)
  BY <1>2, <1>3, PathOfLength
<1>5. \A i \in 1..k : 1 + i - 1 = i
  OBVIOUS
<1> QED
  BY <1>2, <1>4, <1>5

\* A network is a prefix by its digits.
LEMMA PrefixFacts ==
    ASSUME NEW m \in Nat, NEW n \in Nat, m <= n, NEW p \in Paths(m), NEW q \in Seq(Digits), Len(q) >= n
    PROVE  /\ SubSeq(q, 1, n) \in Paths(n)
           /\ \A i \in 1..n : SubSeq(q, 1, n)[i] = q[i]
           /\ IsPrefix(p, q) <=> \A i \in 1..m : p[i] = q[i]
           /\ IsPrefix(p, q) <=> SubSeq(q, 1, m) = p
           /\ IsPrefix(p, q) <=> IsPrefix(p, SubSeq(q, 1, n))
<1>1. Len(q) \in Nat /\ \A i \in 1..Len(q) : q[i] \in Digits
  OBVIOUS
<1>2. ASSUME NEW k \in 0..n
      PROVE  SubSeq(q, 1, k) \in Paths(k) /\ \A i \in 1..k : SubSeq(q, 1, k)[i] = q[i]
  <2>1. k \in Nat /\ Len(q) >= k
    BY <1>1
  <2> QED
    BY <2>1, SubPathFacts
<1>3. p \in Seq(Digits) /\ Len(p) = m
  BY PathFacts
<1>4. SubSeq(p, 1, Len(p)) = p
  BY <1>3, SubSeqFull
<1>5. ASSUME NEW s \in Seq(Digits), Len(s) >= m, SubSeq(s, 1, m) \in Paths(m),
             \A i \in 1..m : SubSeq(s, 1, m)[i] = s[i]
      PROVE  /\ IsPrefix(p, s) <=> SubSeq(s, 1, m) = p
             /\ IsPrefix(p, s) <=> \A i \in 1..m : p[i] = s[i]
  <2>1. IsPrefix(p, s) <=> SubSeq(s, 1, m) = p
    BY <1>3, <1>4, <1>5 DEF IsPrefix
  <2>2. SubSeq(s, 1, m) = p <=> \A i \in 1..m : p[i] = s[i]
    <3>1. p \in [1..m -> Digits] /\ SubSeq(s, 1, m) \in [1..m -> Digits]
      BY <1>5 DEF Paths
    <3> QED
      BY <3>1, <1>5
  <2> QED
    BY <2>1, <2>2
<1> DEFINE t == SubSeq(q, 1, n)
<1>6. t \in Paths(n) /\ \A i \in 1..n : t[i] = q[i]
  BY <1>2
<1>7. t \in Seq(Digits) /\ Len(t) = n
  <2> HIDE DEF t
  <2> QED
    BY <1>6, PathFacts
<1>8. SubSeq(t, 1, m) \in Paths(m) /\ \A i \in 1..m : SubSeq(t, 1, m)[i] = t[i]
  <2> HIDE DEF t
  <2> QED
    BY <1>7, SubPathFacts
<1>9. SubSeq(q, 1, m) \in Paths(m) /\ \A i \in 1..m : SubSeq(q, 1, m)[i] = q[i]
  BY <1>2
<1>10. /\ IsPrefix(p, q) <=> SubSeq(q, 1, m) = p
       /\ IsPrefix(p, q) <=> \A i \in 1..m : p[i] = q[i]
  BY <1>5, <1>9
<1>11. IsPrefix(p, t) <=> \A i \in 1..m : p[i] = t[i]
  <2> HIDE DEF t
  <2> QED
    BY <1>5, <1>7, <1>8
<1>12. \A i \in 1..m : t[i] = q[i]
  BY <1>6
<1> HIDE DEF t
<1>13. IsPrefix(p, q) <=> IsPrefix(p, t)
  BY <1>10, <1>11, <1>12
<1> QED
  BY <1>6, <1>10, <1>13 DEF t

\* A shift divides by a number.
LEMMA WidthFacts == 2 ^ WIDTH \in Nat
<1>1. WIDTH \in Nat
  BY TreeAssumption
<1>2. IsFiniteSet(1..WIDTH) /\ Cardinality(1..WIDTH) = WIDTH
  BY <1>1, FS_Interval
<1>3. IsFiniteSet(SUBSET (1..WIDTH)) /\ Cardinality(SUBSET (1..WIDTH)) = 2 ^ WIDTH
  BY <1>2, FS_SUBSET
<1>4. Cardinality(SUBSET (1..WIDTH)) \in Nat
  BY <1>3, FS_CardinalityType
<1> QED
  BY <1>3, <1>4

\* All values of one shift.
LEMMA ShiftedAway ==
    ASSUME NEW a \in Nat, NEW d, d \in Int, a < d
    PROVE  a \div d = 0
OBVIOUS

-----------------------------------------------------------------------------
(* Statistics: sums *)

\* The sum of a function over a set.
SumOver(f, S) == MapThenSumSet(LAMBDA x : f[x], S)

\* What adds up so.
AddsUp(f, S, g) ==
    /\ g \in [SUBSET S -> Nat] /\ g[{}] = 0
    /\ \A s \in SUBSET S : \A x \in s : g[s] = f[x] + g[s \ {x}]

\* That is the sum.
LEMMA SumFacts ==
    ASSUME NEW S, IsFiniteSet(S), NEW f, NEW g, AddsUp(f, S, g)
    PROVE  SumOver(f, S) = g[S]
<1> DEFINE Body(it) == [s \in SUBSET S |-> IF s = {} THEN 0
                                           ELSE LET x == CHOOSE x \in s : TRUE
                                                IN  f[x] + it[s \ {x}]]
           iter == CHOOSE it : it = Body(it)
           Same == {k \in Nat : \A s \in SUBSET S : Cardinality(s) = k => iter[s] = g[s]}
<1> USE DEF AddsUp
<1>1. g = Body(g)
  <2>1. ASSUME NEW s \in SUBSET S
        PROVE  g[s] = IF s = {} THEN 0 ELSE LET x == CHOOSE x \in s : TRUE IN f[x] + g[s \ {x}]
    <3>1. CASE s = {}
      BY <3>1
    <3>2. CASE s # {}
      <4>1. (CHOOSE x \in s : TRUE) \in s
        BY <3>2
      <4> QED
        BY <3>2, <4>1
    <3> QED
      BY <3>1, <3>2
  <2>2. g = [s \in SUBSET S |-> g[s]]
    OBVIOUS
  <2>3. [s \in SUBSET S |-> g[s]] = Body(g)
    BY <2>1
  <2> HIDE DEF Body
  <2> QED
    BY <2>2, <2>3
<1>2. iter = Body(iter)
  <2> HIDE DEF Body
  <2> QED
    BY <1>1
<1>3. ASSUME NEW s \in SUBSET S, s # {}
      PROVE  \E x \in s : iter[s] = f[x] + iter[s \ {x}]
  <2> DEFINE x == CHOOSE x \in s : TRUE
  <2>1. x \in s
    BY <1>3
  <2>2. Body(iter)[s] = f[x] + iter[s \ {x}]
    BY <1>3
  <2> HIDE DEF Body, iter
  <2>3. iter[s] = f[x] + iter[s \ {x}]
    BY <1>2, <2>2
  <2> QED
    BY <2>1, <2>3
<1>4. iter[{}] = 0
  <2>1. Body(iter)[{}] = 0
    OBVIOUS
  <2> HIDE DEF Body, iter
  <2> QED
    BY <1>2, <2>1
<1> HIDE DEF iter
<1>5. 0 \in Same
  <2>1. ASSUME NEW s \in SUBSET S, Cardinality(s) = 0 PROVE iter[s] = g[s]
    <3>1. s = {}
      BY <2>1, FS_Subset, FS_EmptySet
    <3> QED
      BY <3>1, <1>4
  <2> QED
    BY <2>1
<1>6. ASSUME NEW k \in Nat, k \in Same PROVE k + 1 \in Same
  <2>1. ASSUME NEW s \in SUBSET S, Cardinality(s) = k + 1 PROVE iter[s] = g[s]
    <3>1. IsFiniteSet(s)
      BY FS_Subset
    <3>2. s # {}
      <4>1. k + 1 # 0
        OBVIOUS
      <4> QED
        BY <2>1, <4>1, FS_EmptySet
    <3>3. PICK x \in s : iter[s] = f[x] + iter[s \ {x}]
      BY <1>3, <3>2
    <3>4. Cardinality(s \ {x}) = k
      <4>1. x \in s
        BY <3>3
      <4>2. Cardinality(s \ {x}) = Cardinality(s) - 1
        BY <3>1, <4>1, FS_RemoveElement
      <4> QED
        BY <2>1, <4>2
    <3>5. s \ {x} \in SUBSET S /\ iter[s \ {x}] = g[s \ {x}]
      BY <1>6, <3>4
    <3>6. g[s] = f[x] + g[s \ {x}]
      OBVIOUS
    <3> QED
      BY <3>3, <3>5, <3>6
  <2> QED
    BY <2>1
<1> HIDE DEF Same
<1>7. Cardinality(S) \in Nat
  BY FS_CardinalityType
<1>8. Cardinality(S) \in Same
  BY <1>5, <1>6, <1>7, NumbersInduction
<1>9. iter[S] = g[S]
  BY <1>8 DEF Same
<1> QED
  BY <1>9 DEF iter, SumOver, MapThenSumSet, MapThenFoldSet

\* The first numbers of an interval are as many as they are.
LEMMA FirstOnes ==
    ASSUME NEW a \in Nat, NEW b \in Nat, a <= b + 1, NEW A \in SUBSET (a..b),
           \A i \in A : \A k \in a..i : k \in A
    PROVE  /\ Cardinality(A) \in 0..(b - a + 1)
           /\ \A i \in a..b : i \in A <=> i < a + Cardinality(A)
<1> DEFINE B == {i \in a..(b + 1) : i \notin A}
<1>1. B # {} /\ B \in SUBSET Nat
  OBVIOUS
<1>2. PICK l \in B : \A y \in B : l <= y
  <2> HIDE DEF B
  <2> QED
    BY <1>1, MinProperties
<1>3. l \in a..(b + 1) /\ l \notin A /\ \A i \in a..(b + 1) : i < l => i \in A
  BY <1>2
<1>4. A = a..(l - 1)
  <2>1. ASSUME NEW i \in A PROVE i < l
    <3>1. i \in a..b /\ l \in Nat
      BY <1>3
    <3>2. i >= l => l \in a..i
      BY <1>3, <3>1
    <3> QED
      BY <1>3, <3>1, <3>2
  <2>2. \A i \in a..(l - 1) : i \in A
    BY <1>3
  <2>3. \A i \in A : i \in a..(l - 1)
    BY <1>3, <2>1
  <2> QED
    BY <2>2, <2>3
<1>5. Cardinality(A) = l - a
  <2>1. a \in Int /\ l - 1 \in Int
    BY <1>3
  <2>2. Cardinality(a..(l - 1)) = IF a > l - 1 THEN 0 ELSE l - 1 - a + 1
    BY <2>1, FS_Interval
  <2> QED
    BY <1>3, <1>4, <2>2
<1> QED
  BY <1>3, <1>4, <1>5

-----------------------------------------------------------------------------
(* Statistics: lists of the highest values *)

\* A list of places, in one order or the other.
ListsOf(T) == [1..amount -> [val : Nat, torrent : T]]
Ascending(list) == \A i, j \in 1..amount : i <= j => list[i].val <= list[j].val
Descending(list) == \A i, j \in 1..amount : i <= j => list[i].val >= list[j].val

\* It has the highest of the values, and at worst the least of those.
Used(list) == {i \in 1..amount : list[i].val > 0}
BestOf(list, worst, value) ==
    /\ \A i, j \in Used(list) : list[i].torrent = list[j].torrent => i = j
    /\ \A i \in Used(list) : list[i].torrent \in DOMAIN value /\ list[i].val = value[list[i].torrent]
    /\ \A x \in DOMAIN value : value[x] > list[worst].val => \E i \in Used(list) : list[i].torrent = x

\* An empty list is the best of nothing.
LEMMA EmptyFacts ==
    ASSUME NEW T, <<>> \in T, NEW value, DOMAIN value = {}, NEW worst
    PROVE  Empty \in ListsOf(T) /\ Ascending(Empty) /\ Descending(Empty) /\ BestOf(Empty, worst, value)
<1>1. \A i \in 1..amount : Empty[i] = [val |-> 0, torrent |-> <<>>]
  BY DEF Empty
<1>2. Empty \in ListsOf(T)
  BY DEF Empty, ListsOf
<1>3. Used(Empty) = {}
  BY <1>1 DEF Used
<1>4. Ascending(Empty) /\ Descending(Empty)
  BY <1>1 DEF Ascending, Descending
<1> QED
  BY <1>2, <1>3, <1>4 DEF BestOf

\* A network that has a place: it takes that of the lowest, and those below it move.
LEMMA EnterFacts ==
    ASSUME NEW T, NEW list \in ListsOf(T), Ascending(list),
           NEW net \in T, NEW score \in Nat, score > list[1].val,
           NEW value, BestOf(list, 1, value), net \notin DOMAIN value,
           NEW after, DOMAIN after = DOMAIN value \cup {net}, after[net] = score,
           \A x \in DOMAIN value : after[x] = value[x] /\ value[x] \in Nat
    PROVE  /\ Enter(list, score, net) \in ListsOf(T)
           /\ Ascending(Enter(list, score, net))
           /\ BestOf(Enter(list, score, net), 1, after)
<1> DEFINE A == {i \in 2..amount : score > list[i].val}
           j == Place(list, score)
           new == Enter(list, score, net)
<1>1. amount \in Nat \ {0} /\ \A i \in 1..amount : list[i] \in [val : Nat, torrent : T]
  BY ListAssumption DEF ListsOf
<1>2. \A i, k \in 1..amount : i <= k => list[i].val <= list[k].val
  BY DEF Ascending
<1>3. j \in 0..(amount - 1) /\ \A i \in 2..amount : score > list[i].val <=> i < 2 + j
  <2>1. \A i \in A : \A k \in 2..i : k \in A
    BY <1>1, <1>2
  <2>2. A \in SUBSET (2..amount)
    OBVIOUS
  <2>3. j = Cardinality(A)
    BY DEF Place
  <2> HIDE DEF A, j
  <2>4. 2 \in Nat /\ amount \in Nat /\ 2 <= amount + 1
    BY <1>1
  <2>5. Cardinality(A) \in 0..(amount - 2 + 1) /\ \A i \in 2..amount : i \in A <=> i < 2 + Cardinality(A)
    BY <2>1, <2>2, <2>4, FirstOnes
  <2> QED
    BY <2>3, <2>5, <1>1 DEF A
<1>4. /\ new = [i \in 1..amount |-> IF i <= j THEN list[i + 1]
                                    ELSE IF i = j + 1 THEN [val |-> score, torrent |-> net] ELSE list[i]]
  BY DEF Enter
<1> HIDE DEF j, new
<1>5. /\ \A i \in 1..amount : i <= j => i + 1 \in 2..amount /\ new[i] = list[i + 1]
      /\ j + 1 \in 1..amount /\ new[j + 1] = [val |-> score, torrent |-> net]
      /\ \A i \in 1..amount : i > j + 1 => i \in 2..amount /\ new[i] = list[i]
  BY <1>1, <1>3, <1>4
<1>6. new \in ListsOf(T)
  <2>1. \A i \in 1..amount : new[i] \in [val : Nat, torrent : T]
    BY <1>1, <1>3, <1>5
  <2>2. new = [i \in 1..amount |-> new[i]]
    BY <1>4
  <2> QED
    BY <2>1, <2>2 DEF ListsOf
<1>7. \A i \in 1..amount : new[i].val \in Nat /\ (i <= j => new[i].val < score) /\ (i > j + 1 => new[i].val >= score)
  BY <1>1, <1>3, <1>5
<1>8. Ascending(new)
  <2>1. ASSUME NEW i \in 1..amount, NEW k \in 1..amount, i <= k PROVE new[i].val <= new[k].val
    <3>1. CASE i <= j /\ k <= j
      BY <2>1, <3>1, <1>2, <1>5
    <3>2. CASE i > j + 1 /\ k > j + 1
      BY <2>1, <3>2, <1>2, <1>5
    <3>3. CASE i <= j + 1 /\ k >= j + 1
      BY <3>3, <1>3, <1>5, <1>7
    <3> QED
      BY <2>1, <3>1, <3>2, <3>3, <1>3
  <2> QED
    BY <2>1 DEF Ascending
<1>9. list[1].val <= new[1].val
  <2>1. CASE j = 0
    BY <2>1, <1>1, <1>5
  <2>2. CASE j # 0
    BY <2>2, <1>1, <1>2, <1>3, <1>5
  <2> QED
    BY <2>1, <2>2
<1> DEFINE Source(i) == IF i <= j THEN i + 1 ELSE i
<1>10. ASSUME NEW i \in Used(new), i # j + 1
       PROVE  Source(i) \in Used(list) /\ new[i] = list[Source(i)]
  BY <1>1, <1>3, <1>5, <1>10 DEF Used
<1>11. \A i \in Used(list) : list[i].torrent \in DOMAIN value /\ list[i].val = value[list[i].torrent]
  BY DEF BestOf
<1>12. \A i, k \in Used(new) : new[i].torrent = new[k].torrent => i = k
  <2>1. ASSUME NEW i \in Used(new), NEW k \in Used(new), new[i].torrent = new[k].torrent PROVE i = k
    <3>1. i \in 1..amount /\ k \in 1..amount
      BY DEF Used
    <3>2. CASE i # j + 1 /\ k # j + 1
      <4>1. Source(i) = Source(k)
        BY <1>10, <2>1, <3>2 DEF BestOf
      <4> QED
        BY <4>1, <3>1, <3>2, <1>3
    <3>3. CASE i = j + 1 /\ k # j + 1
      BY <1>5, <1>10, <1>11, <2>1, <3>1, <3>3
    <3>4. CASE i # j + 1 /\ k = j + 1
      BY <1>5, <1>10, <1>11, <2>1, <3>1, <3>4
    <3> QED
      BY <3>2, <3>3, <3>4
  <2> QED
    BY <2>1
<1>13. \A i \in Used(new) : new[i].torrent \in DOMAIN after /\ new[i].val = after[new[i].torrent]
  <2>1. ASSUME NEW i \in Used(new) PROVE new[i].torrent \in DOMAIN after /\ new[i].val = after[new[i].torrent]
    <3>1. CASE i = j + 1
      BY <3>1, <1>5
    <3>2. CASE i # j + 1
      BY <3>2, <1>10, <1>11
    <3> QED
      BY <3>1, <3>2
  <2> QED
    BY <2>1
<1>14. \A x \in DOMAIN after : after[x] > new[1].val => \E i \in Used(new) : new[i].torrent = x
  <2>1. ASSUME NEW x \in DOMAIN after, after[x] > new[1].val PROVE \E i \in Used(new) : new[i].torrent = x
    <3>1. CASE x = net
      <4>1. new[j + 1].val > 0
        BY <1>1, <1>5
      <4> QED
        BY <3>1, <4>1, <1>5 DEF Used
    <3>2. CASE x # net
      <4>1. x \in DOMAIN value /\ value[x] \in Nat /\ value[x] > new[1].val
        BY <2>1, <3>2
      <4>2. value[x] > list[1].val
        BY <4>1, <1>1, <1>7, <1>9
      <4>3. PICK i \in Used(list) : list[i].torrent = x
        BY <4>1, <4>2 DEF BestOf
      <4>4. i \in 1..amount /\ list[i].val = value[x] /\ i # 1 /\ list[i].val > 0
        BY <4>2, <4>3, <1>11 DEF Used
      <4> DEFINE d == IF i <= j + 1 THEN i - 1 ELSE i
      <4>5. d \in 1..amount /\ new[d] = list[i]
        BY <4>4, <1>1, <1>3, <1>5
      <4> QED
        BY <4>3, <4>4, <4>5 DEF Used
    <3> QED
      BY <3>1, <3>2
  <2> QED
    BY <2>1
<1> QED
  BY <1>6, <1>8, <1>12, <1>13, <1>14 DEF new, BestOf

\* A torrent that is compared with those listed: it takes its place, if there is one.
LEMMA ListedFacts ==
    ASSUME NEW T, NEW list \in ListsOf(T), Descending(list),
           NEW entry \in T, NEW val \in Nat,
           NEW value, BestOf(list, amount, value), entry \notin DOMAIN value,
           NEW after, DOMAIN after = DOMAIN value \cup {entry}, after[entry] = val,
           \A x \in DOMAIN value : after[x] = value[x] /\ value[x] \in Nat
    PROVE  /\ Listed(list, val, entry) \in ListsOf(T)
           /\ Descending(Listed(list, val, entry))
           /\ BestOf(Listed(list, val, entry), amount, after)
<1> DEFINE A == {i \in 1..amount : val <= list[i].val}
           idx == RankOf(list, val)
           new == Listed(list, val, entry)
<1>1. amount \in Nat \ {0} /\ \A i \in 1..amount : list[i] \in [val : Nat, torrent : T]
  BY ListAssumption DEF ListsOf
<1>2. \A i, k \in 1..amount : i <= k => list[i].val >= list[k].val
  BY DEF Descending
<1>3. idx \in 1..(amount + 1) /\ \A i \in 1..amount : val <= list[i].val <=> i < idx
  <2>1. \A i \in A : \A k \in 1..i : k \in A
    BY <1>1, <1>2
  <2>2. A \in SUBSET (1..amount)
    OBVIOUS
  <2>3. idx = 1 + Cardinality(A)
    BY DEF RankOf
  <2> HIDE DEF A, idx
  <2>4. 1 \in Nat /\ amount \in Nat /\ 1 <= amount + 1
    BY <1>1
  <2>5. Cardinality(A) \in 0..(amount - 1 + 1) /\ \A i \in 1..amount : i \in A <=> i < 1 + Cardinality(A)
    BY <2>1, <2>2, <2>4, FirstOnes
  <2> QED
    BY <2>3, <2>5, <1>1 DEF A
<1>4. new = [i \in 1..amount |-> IF i < idx THEN list[i]
                                 ELSE IF i = idx THEN [val |-> val, torrent |-> entry] ELSE list[i - 1]]
  BY DEF Listed
<1> HIDE DEF idx, new
<1>5. /\ \A i \in 1..amount : i < idx => new[i] = list[i]
      /\ idx <= amount => new[idx] = [val |-> val, torrent |-> entry]
      /\ \A i \in 1..amount : i > idx => i - 1 \in 1..amount /\ new[i] = list[i - 1]
  BY <1>1, <1>3, <1>4
<1>6. \A i \in 1..amount : new[i] \in [val : Nat, torrent : T]
  <2>1. ASSUME NEW i \in 1..amount PROVE new[i] \in [val : Nat, torrent : T]
    <3>1. CASE i < idx
      BY <3>1, <1>1, <1>5
    <3>2. CASE i = idx
      BY <3>2, <1>1, <1>3, <1>5
    <3>3. CASE i > idx
      BY <3>3, <1>1, <1>5
    <3> QED
      BY <3>1, <3>2, <3>3, <1>3
  <2> QED
    BY <2>1
<1>7. new \in ListsOf(T)
  <2>1. new = [i \in 1..amount |-> new[i]]
    BY <1>4
  <2> QED
    BY <2>1, <1>6 DEF ListsOf
<1>8. \A i \in 1..amount : new[i].val \in Nat /\ (i < idx => new[i].val >= val) /\ (i > idx => new[i].val < val)
  <2>1. ASSUME NEW i \in 1..amount, i > idx PROVE new[i].val < val
    BY <2>1, <1>1, <1>3, <1>5
  <2> QED
    BY <2>1, <1>1, <1>3, <1>5, <1>6
<1>9. Descending(new)
  <2>1. ASSUME NEW i \in 1..amount, NEW k \in 1..amount, i <= k PROVE new[i].val >= new[k].val
    <3>1. CASE i < idx /\ k < idx
      BY <2>1, <3>1, <1>2, <1>5
    <3>2. CASE i > idx /\ k > idx
      BY <2>1, <3>2, <1>2, <1>5
    <3>3. CASE i <= idx /\ k >= idx
      BY <3>3, <1>3, <1>5, <1>8
    <3> QED
      BY <2>1, <3>1, <3>2, <3>3, <1>3
  <2> QED
    BY <2>1 DEF Descending
<1>10. list[amount].val <= new[amount].val
  <2>1. CASE amount < idx
    BY <2>1, <1>1, <1>5
  <2>2. CASE amount = idx
    BY <2>2, <1>1, <1>3, <1>5
  <2>3. CASE amount > idx
    BY <2>3, <1>1, <1>2, <1>5
  <2> QED
    BY <2>1, <2>2, <2>3, <1>1, <1>3
<1> DEFINE Source(i) == IF i < idx THEN i ELSE i - 1
<1>11. ASSUME NEW i \in Used(new), i # idx
       PROVE  Source(i) \in Used(list) /\ new[i] = list[Source(i)]
  BY <1>1, <1>3, <1>5, <1>11 DEF Used
<1>12. \A i \in Used(list) : list[i].torrent \in DOMAIN value /\ list[i].val = value[list[i].torrent]
  BY DEF BestOf
<1>13. \A i, k \in Used(new) : new[i].torrent = new[k].torrent => i = k
  <2>1. ASSUME NEW i \in Used(new), NEW k \in Used(new), new[i].torrent = new[k].torrent PROVE i = k
    <3>1. i \in 1..amount /\ k \in 1..amount
      BY DEF Used
    <3>2. CASE i # idx /\ k # idx
      <4>1. Source(i) = Source(k)
        BY <1>11, <2>1, <3>2 DEF BestOf
      <4> QED
        BY <4>1, <3>1, <3>2, <1>3
    <3>3. CASE i = idx /\ k # idx
      BY <1>5, <1>11, <1>12, <2>1, <3>1, <3>3
    <3>4. CASE i # idx /\ k = idx
      BY <1>5, <1>11, <1>12, <2>1, <3>1, <3>4
    <3> QED
      BY <3>2, <3>3, <3>4
  <2> QED
    BY <2>1
<1>14. \A i \in Used(new) : new[i].torrent \in DOMAIN after /\ new[i].val = after[new[i].torrent]
  <2>1. ASSUME NEW i \in Used(new) PROVE new[i].torrent \in DOMAIN after /\ new[i].val = after[new[i].torrent]
    <3>1. CASE i = idx
      BY <3>1, <1>5 DEF Used
    <3>2. CASE i # idx
      BY <3>2, <1>11, <1>12
    <3> QED
      BY <3>1, <3>2
  <2> QED
    BY <2>1
<1>15. \A x \in DOMAIN after : after[x] > new[amount].val => \E i \in Used(new) : new[i].torrent = x
  <2>1. ASSUME NEW x \in DOMAIN after, after[x] > new[amount].val PROVE \E i \in Used(new) : new[i].torrent = x
    <3>1. CASE x = entry
      <4>1. idx <= amount
        <5>1. CASE idx = amount + 1
          BY <5>1, <2>1, <3>1, <1>1, <1>8
        <5> QED
          BY <5>1, <1>1, <1>3
      <4>2. new[idx].val > 0 /\ new[idx].torrent = x
        BY <4>1, <2>1, <3>1, <1>1, <1>5, <1>8
      <4> QED
        BY <4>1, <4>2, <1>3 DEF Used
    <3>2. CASE x # entry
      <4>1. x \in DOMAIN value /\ value[x] \in Nat /\ value[x] > new[amount].val
        BY <2>1, <3>2
      <4>2. value[x] > list[amount].val
        BY <4>1, <1>1, <1>8, <1>10
      <4>3. PICK i \in Used(list) : list[i].torrent = x
        BY <4>1, <4>2 DEF BestOf
      <4>4. i \in 1..amount /\ list[i].val = value[x] /\ i # amount /\ list[i].val > 0
        BY <4>2, <4>3, <1>12 DEF Used
      <4> DEFINE d == IF i < idx THEN i ELSE i + 1
      <4>5. d \in 1..amount /\ new[d] = list[i]
        BY <4>4, <1>1, <1>3, <1>5
      <4> QED
        BY <4>3, <4>4, <4>5 DEF Used
    <3> QED
      BY <3>1, <3>2
  <2> QED
    BY <2>1
<1> QED
  BY <1>7, <1>9, <1>13, <1>14, <1>15 DEF new, BestOf

-----------------------------------------------------------------------------
(* Statistics: the invariant *)

\* The torrents of the buckets that were read.
ReadTorrents == UNION {Range(Buckets[b]) : b \in 1..(bucket - 1)}

\* What is counted of them: the peers seen under a network, and the members of a list.
SeenUnder(net) == {m \in seen : IsPrefix(net, m.ip)}
SeenOf(l, x) == {m \in seen : <<m.t>> = x /\ (l = "seeds" => m.ip \in Seeders)}
Values(l) == [x \in {<<t>> : t \in ReadTorrents} |-> Cardinality(SeenOf(l, x))]
Names == {<<>>} \cup {<<t>> : t \in Torrents_of}

SeenOK == seen \subseteq [t : ReadTorrents, ip : Addresses_of]

\* The counters are those of the peers that were read, and stand in nodes.
CountersOK ==
    /\ task = "slash24s" =>
         /\ \A ip \in Paths(MAXDEPTH) :
              counters[ip] = Cardinality({m \in seen : SubSeq(m.ip, 1, MAXDEPTH) = ip})
         /\ \A m \in seen : NodesTo(m.ip) \subseteq node
    /\ task # "slash24s" => node = {} /\ \A ip \in Paths(MAXDEPTH) : counters[ip] = 0

\* The lists are right for the torrents that were read.
ListsOK ==
    /\ DOMAIN top = Lists
    /\ task = "top" =>
         \A l \in Lists : top[l] \in ListsOf(Names) /\ Descending(top[l]) /\ BestOf(top[l], amount, Values(l))

\* A task is made once.
TaskOnce ==
    /\ task # "none" => reply.kind = "none"
    /\ task = "none" /\ reply.kind = "none" =>
         bucket = 1 /\ seen = {} /\ top = [l \in Lists |-> Empty]

StatsIInv ==
    /\ StatsTypeOK /\ SeenOK /\ CountersOK /\ ListsOK /\ TaskOnce
    /\ NetworksExact /\ TopExact

-----------------------------------------------------------------------------
(* Statistics: what was read *)

\* There are finitely many torrents, and so of what can be read.
LEMMA TorrentsFinite == IsFiniteSet(Torrents_of)
<1> DEFINE R == {Range(Buckets[b]) : b \in DOMAIN Buckets}
           N == Len(Buckets)
<1>1. N \in Nat /\ DOMAIN Buckets = 1..N
  BY ListAssumption
<1>2. IsFiniteSet(R)
  <2> DEFINE f == [b \in 1..N |-> Range(Buckets[b])]
  <2>1. f \in [1..N -> R] /\ \A r \in R : \E b \in 1..N : f[b] = r
    BY <1>1
  <2> HIDE DEF f, R
  <2>2. f \in Surjection(1..N, R)
    BY <2>1 DEF Surjection
  <2>3. IsFiniteSet(1..N)
    BY <1>1, FS_Interval
  <2> QED
    BY <2>2, <2>3, FS_Surjection
<1>3. ASSUME NEW b \in DOMAIN Buckets PROVE IsFiniteSet(Range(Buckets[b]))
  <2> DEFINE s == Buckets[b]
  <2>1. s \in Seq(Torrents_of)
    BY ListAssumption
  <2>2. Len(s) \in Nat /\ DOMAIN s = 1..Len(s)
    BY <2>1
  <2> HIDE DEF s
  <2>3. [i \in 1..Len(s) |-> s[i]] \in Surjection(1..Len(s), Range(s))
    BY <2>2 DEF Surjection, Range
  <2>4. IsFiniteSet(1..Len(s))
    BY <2>2, FS_Interval
  <2>5. IsFiniteSet(Range(s))
    BY <2>3, <2>4, FS_Surjection
  <2> QED
    BY <2>5 DEF s
<1>4. \A r \in R : IsFiniteSet(r)
  BY <1>3
<1> HIDE DEF R
<1>5. IsFiniteSet(UNION R)
  BY <1>2, <1>4, FS_UNION
<1> QED
  BY <1>5 DEF R, Torrents_of

\* So are the sets of peers read, and no larger than if every address were in every torrent.
LEMMA ReadBounded ==
    ASSUME NEW I, I \subseteq Addresses_of, NEW S, S \subseteq [t : Torrents_of, ip : I]
    PROVE  /\ IsFiniteSet(S) /\ Cardinality(S) \in Nat
           /\ Cardinality(Torrents_of \X I) \in Nat /\ Cardinality(S) <= Cardinality(Torrents_of \X I)
<1> DEFINE P == Torrents_of \X I
           f == [m \in S |-> <<m.t, m.ip>>]
<1>1. IsFiniteSet(P)
  <2>1. IsFiniteSet(I)
    BY TreeAssumption, FS_Subset
  <2> QED
    BY <2>1, TorrentsFinite, FS_Product
<1>2. f \in [S -> P]
  OBVIOUS
<1>3. ASSUME NEW m \in S, NEW n \in S, f[m] = f[n] PROVE m = n
  <2>1. m.t = n.t /\ m.ip = n.ip
    BY <1>3
  <2>2. m \in [t : Torrents_of, ip : I] /\ n \in [t : Torrents_of, ip : I]
    OBVIOUS
  <2> QED
    BY <2>1, <2>2
<1>4. f \in Injection(S, P)
  <2> HIDE DEF f, P
  <2> QED
    BY <1>2, <1>3 DEF Injection, IsInjective
<1>5. IsFiniteSet(S) /\ Cardinality(S) <= Cardinality(P)
  <2> HIDE DEF f, P
  <2> QED
    BY <1>1, <1>4, FS_Injection
<1>6. Cardinality(S) \in Nat /\ Cardinality(P) \in Nat
  BY <1>1, <1>5, FS_CardinalityType
<1> QED
  BY <1>5, <1>6

\* So they can be counted.
LEMMA ReadFinite ==
    ASSUME NEW S, S \subseteq [t : Torrents_of, ip : Addresses_of]
    PROVE  IsFiniteSet(S) /\ Cardinality(S) \in Nat
BY ReadBounded

\* What is read of a bucket comes to what was read of the ones before.
LEMMA MetFacts ==
    ASSUME StatsTypeOK, SeenOK, bucket <= Len(Buckets)
    PROVE  /\ bucket \in DOMAIN Buckets
           /\ Met(bucket) \subseteq [t : Ts(bucket), ip : Addresses_of]
           /\ Ts(bucket) \subseteq Torrents_of /\ ReadTorrents \subseteq Torrents_of
           /\ ReadTorrents \cap Ts(bucket) = {}
           /\ \A t \in Ts(bucket) : {m \in Met(bucket) : m.t = t} = {[t |-> t, ip |-> ip] : ip \in peers[t]}
<1>1. bucket \in DOMAIN Buckets /\ DOMAIN Buckets = 1..Len(Buckets)
  BY ListAssumption DEF StatsTypeOK
<1>2. Ts(bucket) \subseteq Torrents_of /\ ReadTorrents \subseteq Torrents_of
  <2>1. \A b \in 1..(bucket - 1) : b \in DOMAIN Buckets
    BY <1>1
  <2> QED
    BY <1>1, <2>1 DEF Ts, ReadTorrents, Torrents_of
<1>3. \A t \in Ts(bucket) : peers[t] \subseteq Addresses_of
  BY <1>2 DEF StatsTypeOK
<1>4. Met(bucket) \subseteq [t : Ts(bucket), ip : Addresses_of]
  BY <1>3 DEF Met
<1>5. ReadTorrents \cap Ts(bucket) = {}
  <2>1. ASSUME NEW t \in ReadTorrents, t \in Ts(bucket) PROVE FALSE
    <3>1. PICK b \in 1..(bucket - 1) : t \in Range(Buckets[b])
      BY <2>1 DEF ReadTorrents
    <3>2. b \in DOMAIN Buckets /\ b # bucket
      BY <1>1
    <3>3. PICK i \in DOMAIN Buckets[b] : t = Buckets[b][i]
      BY <3>1 DEF Range
    <3>4. PICK j \in DOMAIN Buckets[bucket] : t = Buckets[bucket][j]
      BY <2>1 DEF Range, Ts
    <3> QED
      BY <1>1, <3>2, <3>3, <3>4, ListAssumption
  <2> QED
    BY <2>1
<1>6. ASSUME NEW t \in Ts(bucket)
      PROVE  {m \in Met(bucket) : m.t = t} = {[t |-> t, ip |-> ip] : ip \in peers[t]}
  BY DEF Met
<1> QED
  BY <1>1, <1>2, <1>4, <1>5, <1>6

\* The sizes of two sets that have nothing in common add up.
LEMMA Together ==
    ASSUME NEW A, NEW B, IsFiniteSet(A), IsFiniteSet(B), A \cap B = {}
    PROVE  Cardinality(A \cup B) = Cardinality(A) + Cardinality(B)
<1>1. Cardinality(A) \in Nat /\ Cardinality(B) \in Nat /\ Cardinality(A \cap B) = 0
  BY FS_CardinalityType, FS_EmptySet
<1>2. Cardinality(A \cup B) = Cardinality(A) + Cardinality(B) - Cardinality(A \cap B)
  BY FS_Union
<1> QED
  BY <1>1, <1>2

\* A network has as many peers as its counters say, added up.
LEMMA BelowFacts ==
    ASSUME StatsTypeOK, SeenOK, CountersOK, task = "slash24s", ReadTorrents \subseteq Torrents_of,
           NEW limit \in 1..MAXDEPTH, NEW net \in Paths(limit)
    PROVE  Below(net) = Cardinality(SeenUnder(net)) /\ Below(net) \in Nat
<1> DEFINE C(ip) == SubSeq(ip, 1, MAXDEPTH)
           S == {ip \in DOMAIN counters : IsPrefix(net, ip)}
           Under(s) == {m \in seen : C(m.ip) \in s}
           g == [s \in SUBSET S |-> Cardinality(Under(s))]
<1>1. MAXDEPTH \in Nat /\ limit \in Nat /\ limit <= MAXDEPTH
  BY TreeAssumption
<1>2. seen \subseteq [t : Torrents_of, ip : Addresses_of]
  BY DEF SeenOK
<1>3. ASSUME NEW m \in seen
      PROVE  C(m.ip) \in Paths(MAXDEPTH) /\ (IsPrefix(net, m.ip) <=> IsPrefix(net, C(m.ip)))
  <2>1. m.ip \in Seq(Digits) /\ Len(m.ip) >= MAXDEPTH
    BY <1>2, TreeAssumption
  <2> QED
    BY <1>1, <2>1, PrefixFacts
<1>4. S \subseteq Paths(MAXDEPTH) /\ IsFiniteSet(S)
  <2>1. S \subseteq Paths(MAXDEPTH)
    BY DEF StatsTypeOK
  <2> HIDE DEF S
  <2> QED
    BY <1>1, <2>1, PathsFinite, FS_Subset
<1>5. ASSUME NEW A \in SUBSET seen PROVE IsFiniteSet(A) /\ Cardinality(A) \in Nat
  BY <1>2, ReadFinite
<1>6. \A s : Under(s) \in SUBSET seen
  OBVIOUS
<1>7. g \in [SUBSET S -> Nat]
  <2>1. \A s \in SUBSET S : Cardinality(Under(s)) \in Nat
    <3> HIDE DEF Under
    <3> QED
      BY <1>5, <1>6
  <2> QED
    BY <2>1
<1>8. g[{}] = 0
  <2>1. Under({}) = {} /\ g[{}] = Cardinality(Under({}))
    OBVIOUS
  <2> QED
    BY <2>1, FS_EmptySet
<1>9. ASSUME NEW s \in SUBSET S, NEW x \in s PROVE g[s] = counters[x] + g[s \ {x}]
  <2> DEFINE A == {m \in seen : C(m.ip) = x}
             B == Under(s \ {x})
  <2>1. Under(s) = A \cup B /\ A \cap B = {} /\ A \in SUBSET seen /\ B \in SUBSET seen
    OBVIOUS
  <2>2. x \in Paths(MAXDEPTH)
    BY <1>4
  <2>3. counters[x] = Cardinality(A)
    BY <2>2 DEF CountersOK
  <2>4. g[s] = Cardinality(Under(s)) /\ g[s \ {x}] = Cardinality(B)
    OBVIOUS
  <2> HIDE DEF A, B, Under, g
  <2>5. Cardinality(A \cup B) = Cardinality(A) + Cardinality(B)
    BY <2>1, <1>5, Together
  <2> QED
    BY <2>1, <2>3, <2>4, <2>5
<1>10. SumOver(counters, S) = g[S]
  <2> HIDE DEF S, g
  <2>1. AddsUp(counters, S, g)
    BY <1>7, <1>8, <1>9 DEF AddsUp
  <2> QED
    BY <1>4, <2>1, SumFacts
<1>11. Below(net) = g[S]
  <2> HIDE DEF g
  <2> QED
    BY <1>10 DEF Below, SumOver, MapThenSumSet, MapThenFoldSet
<1>12. Under(S) = SeenUnder(net)
  <2>1. ASSUME NEW m \in seen PROVE C(m.ip) \in S <=> IsPrefix(net, m.ip)
    BY <1>3 DEF StatsTypeOK
  <2> QED
    BY <2>1 DEF SeenUnder
<1>13. g[S] = Cardinality(Under(S))
  OBVIOUS
<1>14. g[S] \in Nat
  BY <1>5, <1>6, <1>13
<1> QED
  BY <1>11, <1>12, <1>13, <1>14

\* Networks that are not in the tree have no peers.
LEMMA VisitedFacts ==
    ASSUME StatsTypeOK, SeenOK, CountersOK, task = "slash24s", ReadTorrents \subseteq Torrents_of,
           NEW limit \in 1..MAXDEPTH, NEW net \in Paths(limit), SeenUnder(net) # {}
    PROVE  SubSeq(net, 1, limit - 1) \in node
<1>1. MAXDEPTH \in Nat /\ limit \in Nat /\ limit <= MAXDEPTH /\ limit - 1 \in 0..(MAXDEPTH - 1) /\ limit - 1 <= limit
  BY TreeAssumption
<1>2. PICK m \in seen : IsPrefix(net, m.ip)
  BY DEF SeenUnder
<1>3. m.ip \in Seq(Digits) /\ Len(m.ip) >= MAXDEPTH /\ Len(m.ip) >= limit
  <2>1. m.ip \in Seq(Digits) /\ Len(m.ip) >= MAXDEPTH
    BY TreeAssumption DEF SeenOK
  <2> QED
    BY <2>1, <1>1
<1>4. SubSeq(m.ip, 1, limit - 1) \in node
  BY <1>1 DEF CountersOK, NodesTo
<1>5. \A i \in 1..limit : net[i] = m.ip[i]
  BY <1>1, <1>2, <1>3, PrefixFacts
<1>6. net \in Seq(Digits) /\ Len(net) = limit
  BY <1>1, PathFacts
<1> DEFINE k == limit - 1
           p == SubSeq(m.ip, 1, k)
           q == SubSeq(net, 1, k)
<1>7. k \in Nat /\ k <= limit
  BY <1>1
<1>8. p \in Paths(k) /\ \A i \in 1..k : p[i] = m.ip[i]
  <2>1. Len(m.ip) >= k
    BY <1>1, <1>3
  <2> HIDE DEF k
  <2> QED
    BY <2>1, <1>3, <1>7, SubPathFacts
<1>9. q \in Paths(k) /\ \A i \in 1..k : q[i] = net[i]
  <2>1. Len(net) >= k
    BY <1>6, <1>7
  <2> HIDE DEF k
  <2> QED
    BY <2>1, <1>6, <1>7, SubPathFacts
<1>10. \A i \in 1..k : p[i] = q[i]
  BY <1>5, <1>7, <1>8, <1>9
<1>11. p = q
  <2> HIDE DEF p, q, k
  <2>1. p \in [1..k -> Digits] /\ q \in [1..k -> Digits]
    BY <1>8, <1>9 DEF Paths
  <2>2. p = [i \in 1..k |-> p[i]] /\ q = [i \in 1..k |-> q[i]]
    BY <2>1
  <2>3. [i \in 1..k |-> p[i]] = [i \in 1..k |-> q[i]]
    BY <1>10
  <2> QED
    BY <2>2, <2>3
<1> QED
  BY <1>4, <1>11

\* The list of the busiest networks is that of all visited.
LEMMA NetworksListed ==
    ASSUME NEW limit \in Nat,
           \A net \in Paths(limit) : Below(net) \in Nat
    PROVE  LET list == stats_get_highscore_networks(limit)
               S == {net \in Paths(limit) : SubSeq(net, 1, limit - 1) \in node}
           IN  /\ list \in ListsOf({<<>>} \cup Paths(limit)) /\ Ascending(list)
               /\ BestOf(list, 1, [net \in S |-> Below(net)])
<1> DEFINE S == {net \in Paths(limit) : SubSeq(net, 1, limit - 1) \in node}
           T == ListsOf({<<>>} \cup Paths(limit))
           v == Visited(limit)
           n == Cardinality(S)
           Seen(k) == {v[i] : i \in 1..k}
           Score(k) == [net \in Seen(k) |-> Below(net)]
<1>1. /\ n \in Nat /\ v \in [1..n -> S]
      /\ \A i, j \in 1..n : v[i] = v[j] => i = j
      /\ \A x \in S : \E i \in 1..n : v[i] = x
  <2>1. S \in SUBSET Paths(limit) /\ v = Sorted(S)
    BY DEF Visited
  <2> HIDE DEF S, v
  <2> QED
    BY <2>1, SortedFacts
<1>2. Len(v) = n
  <2> HIDE DEF v, n
  <2> QED
    BY <1>1
<1>3. \A i \in 1..n : v[i] \in Paths(limit) /\ v[i] \in {<<>>} \cup Paths(limit) /\ Below(v[i]) \in Nat
  <2>1. \A i \in 1..n : v[i] \in S
    BY <1>1
  <2> QED
    BY <2>1
<1> HIDE DEF S, v, n
<1>4. ASSUME NEW k \in 1..n, NEW scores \in T, Ascending(scores), BestOf(scores, 1, Score(k - 1))
      PROVE  /\ Compared(scores, v[k]) \in T /\ Ascending(Compared(scores, v[k]))
             /\ BestOf(Compared(scores, v[k]), 1, Score(k))
  <2>1. Seen(k) = Seen(k - 1) \cup {v[k]}
    <3>1. \A i \in 1..k : i = k \/ i \in 1..(k - 1)
      OBVIOUS
    <3>2. \A i \in 1..(k - 1) : i \in 1..k
      OBVIOUS
    <3>3. k \in 1..k
      OBVIOUS
    <3> QED
      BY <3>1, <3>2, <3>3
  <2>2. v[k] \notin Seen(k - 1)
    <3>1. ASSUME NEW i \in 1..(k - 1), v[i] = v[k] PROVE FALSE
      <4>1. i \in 1..n /\ i # k
        BY <1>1
      <4> QED
        BY <4>1, <3>1, <1>1
    <3> QED
      BY <3>1
  <2>3. \A x \in Seen(k - 1) : Below(x) \in Nat
    <3>1. \A i \in 1..(k - 1) : i \in 1..n
      BY <1>1
    <3> QED
      BY <3>1, <1>3
  <2>4. /\ DOMAIN Score(k) = DOMAIN Score(k - 1) \cup {v[k]} /\ Score(k)[v[k]] = Below(v[k])
        /\ DOMAIN Score(k - 1) = Seen(k - 1)
        /\ \A x \in DOMAIN Score(k - 1) : Score(k)[x] = Score(k - 1)[x] /\ Score(k - 1)[x] \in Nat
        /\ \A x \in DOMAIN Score(k - 1) : Score(k - 1)[x] = Below(x)
        /\ \A x \in DOMAIN Score(k) : Score(k)[x] = Below(x)
    BY <2>1, <2>3
  <2> HIDE DEF Score, Seen
  <2>5. CASE Below(v[k]) <= scores[1].val
    <3>1. Compared(scores, v[k]) = scores
      BY <2>5 DEF Compared
    <3>2. scores[1].val \in Nat
      BY ListAssumption DEF ListsOf
    <3>3. \A x \in DOMAIN Score(k) : Score(k)[x] > scores[1].val => x \in DOMAIN Score(k - 1)
      <4>1. \A x \in DOMAIN Score(k) : x = v[k] \/ x \in DOMAIN Score(k - 1)
        BY <2>4
      <4>2. ~(Score(k)[v[k]] > scores[1].val)
        BY <2>4, <2>5, <3>2, <1>3
      <4> QED
        BY <4>1, <4>2
    <3>4. BestOf(scores, 1, Score(k))
      <4>1. \A i \in Used(scores) : scores[i].torrent \in DOMAIN Score(k) /\ scores[i].val = Score(k)[scores[i].torrent]
        BY <1>4, <2>4 DEF BestOf
      <4>2. \A x \in DOMAIN Score(k) : Score(k)[x] > scores[1].val => \E i \in Used(scores) : scores[i].torrent = x
        BY <1>4, <2>4, <3>3 DEF BestOf
      <4> QED
        BY <4>1, <4>2, <1>4 DEF BestOf
    <3> QED
      BY <1>4, <3>1, <3>4
  <2>6. CASE ~(Below(v[k]) <= scores[1].val)
    <3>1. Compared(scores, v[k]) = Enter(scores, Below(v[k]), v[k])
      BY <2>6 DEF Compared
    <3>2. Below(v[k]) > scores[1].val
      <4>1. scores[1].val \in Nat
        BY ListAssumption DEF ListsOf
      <4> QED
        BY <4>1, <2>6, <1>3
    <3>3. v[k] \notin DOMAIN Score(k - 1)
      BY <2>2, <2>4
    <3>4. /\ Enter(scores, Below(v[k]), v[k]) \in T /\ Ascending(Enter(scores, Below(v[k]), v[k]))
          /\ BestOf(Enter(scores, Below(v[k]), v[k]), 1, Score(k))
      <4> DEFINE U == {<<>>} \cup Paths(limit)
                 net == v[k]
                 score == Below(net)
                 old == Score(k - 1)
                 new == Score(k)
      <4>1. scores \in ListsOf(U) /\ net \in U /\ score \in Nat /\ score > scores[1].val
        BY <1>3, <1>4, <3>2
      <4>2. /\ DOMAIN new = DOMAIN old \cup {net} /\ new[net] = score /\ net \notin DOMAIN old
            /\ \A x \in DOMAIN old : new[x] = old[x] /\ old[x] \in Nat
        BY <2>4, <3>3
      <4>3. BestOf(scores, 1, old)
        BY <1>4
      <4> HIDE DEF U, net, score, old, new
      <4>4. Enter(scores, score, net) \in ListsOf(U) /\ Ascending(Enter(scores, score, net))
              /\ BestOf(Enter(scores, score, net), 1, new)
        BY <1>4, <4>1, <4>2, <4>3, EnterFacts
      <4> QED
        BY <4>4 DEF U, net, score, new
    <3> QED
      BY <3>1, <3>4
  <2> QED
    BY <2>5, <2>6
<1>5. ASSUME NEW f, f[0] = Empty, \A i \in 1..n : f[i] = Compared(f[i - 1], v[i])
      PROVE  \A k \in 0..n : f[k] \in T /\ Ascending(f[k]) /\ BestOf(f[k], 1, Score(k))
  <2> DEFINE Good == {k \in Nat : k <= n => f[k] \in T /\ Ascending(f[k]) /\ BestOf(f[k], 1, Score(k))}
  <2>1. 0 \in Good
    <3>1. DOMAIN Score(0) = {}
      OBVIOUS
    <3> HIDE DEF Score
    <3> QED
      BY <3>1, <1>5, EmptyFacts
  <2>2. ASSUME NEW k \in Nat, k \in Good PROVE k + 1 \in Good
    <3> HIDE DEF T, Score
    <3>1. SUFFICES ASSUME k + 1 <= n
                   PROVE  f[k + 1] \in T /\ Ascending(f[k + 1]) /\ BestOf(f[k + 1], 1, Score(k + 1))
      OBVIOUS
    <3>2. k + 1 \in 1..n /\ (k + 1) - 1 = k /\ k <= n
      BY <1>1, <3>1
    <3>3. f[k + 1] = Compared(f[k], v[k + 1])
      BY <1>5, <3>2
    <3>4. f[k] \in T /\ Ascending(f[k]) /\ BestOf(f[k], 1, Score((k + 1) - 1))
      BY <2>2, <3>2
    <3> QED
      BY <1>4, <3>2, <3>3, <3>4
  <2> HIDE DEF Good
  <2>3. \A k \in Nat : k \in Good
    BY <2>1, <2>2, NumbersInduction
  <2> HIDE DEF T, Score
  <2>4. ASSUME NEW k \in 0..n PROVE f[k] \in T /\ Ascending(f[k]) /\ BestOf(f[k], 1, Score(k))
    <3>1. k \in Nat /\ k <= n /\ k \in Good
      BY <2>3, <1>1
    <3> QED
      BY <3>1 DEF Good
  <2> QED
    BY <2>4
<1> DEFINE Body(f) == [i \in 0..n |-> IF i = 0 THEN Empty ELSE Compared(f[i - 1], v[i])]
           after == CHOOSE f : f = Body(f)
<1>6. \E f : f = Body(f)
  <2> DEFINE Runs(f, k) == f[0] = Empty /\ \A i \in 1..k : f[i] = Compared(f[i - 1], v[i])
             Good == {k \in Nat : \E f : Runs(f, k)}
  <2>1. 0 \in Good
    <3>1. Runs([i \in {0} |-> Empty], 0)
      OBVIOUS
    <3> QED
      BY <3>1
  <2>2. ASSUME NEW k \in Nat, k \in Good PROVE k + 1 \in Good
    <3>1. PICK f : Runs(f, k)
      BY <2>2
    <3> DEFINE h == [i \in 0..(k + 1) |-> IF i = k + 1 THEN Compared(f[k], v[k + 1]) ELSE f[i]]
    <3>2. h[0] = Empty
      BY <3>1
    <3>3. ASSUME NEW i \in 1..(k + 1) PROVE h[i] = Compared(h[i - 1], v[i])
      <4>1. CASE i = k + 1
        BY <4>1
      <4>2. CASE i # k + 1
        <5>1. i \in 1..k /\ i - 1 \in 0..k /\ i - 1 # k + 1
          BY <4>2
        <5> QED
          BY <3>1, <4>2, <5>1
      <4> QED
        BY <4>1, <4>2
    <3>4. Runs(h, k + 1)
      BY <3>2, <3>3
    <3> HIDE DEF Runs, h
    <3> QED
      BY <3>4
  <2> HIDE DEF Good
  <2>3. n \in Good
    BY <2>1, <2>2, <1>1, NumbersInduction
  <2>4. PICK f : Runs(f, n)
    BY <2>3 DEF Good
  <2> DEFINE h == [i \in 0..n |-> f[i]]
  <2>5. \A i \in 0..n : h[i] = IF i = 0 THEN Empty ELSE Compared(h[i - 1], v[i])
    <3>1. \A i \in 1..n : i - 1 \in 0..n /\ i # 0 /\ i \in 0..n
      BY <1>1
    <3>2. \A i \in 1..n : h[i] = f[i] /\ h[i - 1] = f[i - 1]
      BY <3>1
    <3>3. \A i \in 0..n : i = 0 \/ i \in 1..n
      BY <1>1
    <3>4. h[0] = Empty
      BY <2>4, <1>1
    <3> HIDE DEF h
    <3> QED
      BY <2>4, <3>1, <3>2, <3>3, <3>4
  <2>6. h = Body(h)
    <3>1. h = [i \in 0..n |-> h[i]]
      OBVIOUS
    <3>2. [i \in 0..n |-> h[i]] = Body(h)
      BY <2>5
    <3> HIDE DEF h, Body
    <3> QED
      BY <3>1, <3>2
  <2> HIDE DEF h, Body
  <2> QED
    BY <2>6
<1>7. after = Body(after)
  <2> HIDE DEF Body
  <2> QED
    BY <1>6
<1>8. after[0] = Empty /\ \A i \in 1..n : after[i] = Compared(after[i - 1], v[i])
  <2> HIDE DEF after
  <2>1. \A i \in 0..n : after[i] = IF i = 0 THEN Empty ELSE Compared(after[i - 1], v[i])
    BY <1>7
  <2>2. 0 \in 0..n /\ \A i \in 1..n : i \in 0..n /\ i # 0
    BY <1>1
  <2> QED
    BY <2>1, <2>2
<1>9. stats_get_highscore_networks(limit) = after[n]
  BY <1>2 DEF stats_get_highscore_networks, v
<1> HIDE DEF after
<1>10. after[n] \in T /\ Ascending(after[n]) /\ BestOf(after[n], 1, Score(n))
  <2> HIDE DEF T, Score
  <2>1. n \in 0..n
    BY <1>1
  <2> QED
    BY <1>5, <1>8, <2>1
<1>11. Seen(n) = S
  <2>1. \A i \in 1..n : v[i] \in S
    BY <1>1
  <2> QED
    BY <1>1, <2>1
<1>12. Score(n) = [net \in S |-> Below(net)]
  BY <1>11
<1> QED
  BY <1>9, <1>10, <1>12 DEF S

\* The list of torrents is that of all compared with it.
LEMMA CompareFacts ==
    ASSUME NEW l \in Lists, NEW ts \in Seq(Torrents_of),
           \A i, j \in 1..Len(ts) : ts[i] = ts[j] => i = j,
           NEW value, \A x \in DOMAIN value : value[x] \in Nat,
           top[l] \in ListsOf(Names), Descending(top[l]), BestOf(top[l], amount, value),
           \A i \in 1..Len(ts) : <<ts[i]>> \notin DOMAIN value /\ ValueIn(l, ts[i]) \in Nat,
           NEW after, DOMAIN after = DOMAIN value \cup {<<ts[i]>> : i \in 1..Len(ts)},
           \A x \in DOMAIN value : after[x] = value[x],
           \A i \in 1..Len(ts) : after[<<ts[i]>>] = ValueIn(l, ts[i])
    PROVE  /\ Compare(l, ts) \in ListsOf(Names) /\ Descending(Compare(l, ts))
           /\ BestOf(Compare(l, ts), amount, after)
<1> DEFINE n == Len(ts)
           T == ListsOf(Names)
           Next1(list, k) == Listed(list, ValueIn(l, ts[k]), <<ts[k]>>)
           Seen(k) == {<<ts[i]>> : i \in 1..k}
           Score(k) == [x \in DOMAIN value \cup Seen(k) |-> after[x]]
<1>1. n \in Nat /\ \A i \in 1..n : ts[i] \in Torrents_of
  OBVIOUS
<1>2. \A i \in 1..n : <<ts[i]>> \in Names
  BY <1>1 DEF Names
<1> HIDE DEF n, T
<1>3. ASSUME NEW k \in 1..n, NEW list \in T, Descending(list), BestOf(list, amount, Score(k - 1))
      PROVE  Next1(list, k) \in T /\ Descending(Next1(list, k)) /\ BestOf(Next1(list, k), amount, Score(k))
  <2> DEFINE entry == <<ts[k]>>
             val == ValueIn(l, ts[k])
             old == Score(k - 1)
             new == Score(k)
  <2>1. Seen(k) = Seen(k - 1) \cup {entry}
    <3>1. \A i \in 1..k : i = k \/ i \in 1..(k - 1)
      OBVIOUS
    <3>2. \A i \in 1..(k - 1) : i \in 1..k
      OBVIOUS
    <3>3. k \in 1..k
      OBVIOUS
    <3> QED
      BY <3>1, <3>2, <3>3
  <2>2. entry \notin Seen(k - 1)
    <3>1. ASSUME NEW i \in 1..(k - 1), <<ts[i]>> = <<ts[k]>> PROVE FALSE
      <4>1. i \in 1..n /\ i # k /\ k \in 1..n
        BY <1>1
      <4>2. ts[i] = ts[k]
        BY <3>1
      <4> QED
        BY <4>1, <4>2 DEF n
    <3> QED
      BY <3>1
  <2>3. \A i \in 1..n : <<ts[i]>> \notin DOMAIN value /\ ValueIn(l, ts[i]) \in Nat /\ after[<<ts[i]>>] = ValueIn(l, ts[i])
    BY DEF n
  <2>4. \A x \in Seen(k - 1) : after[x] \in Nat
    <3>1. \A i \in 1..(k - 1) : i \in 1..n
      BY <1>1
    <3> QED
      BY <3>1, <2>3
  <2>5. /\ DOMAIN new = DOMAIN old \cup {entry} /\ new[entry] = val /\ entry \notin DOMAIN old
        /\ \A x \in DOMAIN old : new[x] = old[x] /\ old[x] \in Nat
    BY <2>1, <2>2, <2>3, <2>4
  <2>6. entry \in Names /\ val \in Nat
    BY <1>2, <2>3
  <2>7. list \in ListsOf(Names) /\ BestOf(list, amount, old)
    BY <1>3 DEF T
  <2> HIDE DEF entry, val, old, new
  <2>8. /\ Listed(list, val, entry) \in ListsOf(Names) /\ Descending(Listed(list, val, entry))
        /\ BestOf(Listed(list, val, entry), amount, new)
    BY <1>3, <2>5, <2>6, <2>7, ListedFacts
  <2> QED
    BY <2>8 DEF entry, val, new, T
<1> HIDE DEF Next1
<1>4. ASSUME NEW f, f[0] = top[l], \A i \in 1..n : f[i] = Next1(f[i - 1], i)
      PROVE  f[n] \in T /\ Descending(f[n]) /\ BestOf(f[n], amount, Score(n))
  <2> DEFINE Good == {k \in Nat : k <= n => f[k] \in T /\ Descending(f[k]) /\ BestOf(f[k], amount, Score(k))}
  <2>1. 0 \in Good
    <3>1. DOMAIN Score(0) = DOMAIN value /\ \A x \in DOMAIN value : Score(0)[x] = value[x]
      <4>1. Seen(0) = {}
        OBVIOUS
      <4>2. Score(0) = [x \in DOMAIN value |-> after[x]]
        BY <4>1
      <4> HIDE DEF Score
      <4> QED
        BY <4>2
    <3> HIDE DEF Score
    <3>2. BestOf(top[l], amount, Score(0))
      BY <3>1 DEF BestOf
    <3> QED
      BY <3>2, <1>4 DEF T
  <2>2. ASSUME NEW k \in Nat, k \in Good PROVE k + 1 \in Good
    <3> HIDE DEF Score
    <3>1. SUFFICES ASSUME k + 1 <= n
                   PROVE  f[k + 1] \in T /\ Descending(f[k + 1]) /\ BestOf(f[k + 1], amount, Score(k + 1))
      OBVIOUS
    <3>2. k + 1 \in 1..n /\ (k + 1) - 1 = k /\ k <= n
      BY <1>1, <3>1
    <3>3. f[k + 1] = Next1(f[k], k + 1)
      BY <1>4, <3>2
    <3>4. f[k] \in T /\ Descending(f[k]) /\ BestOf(f[k], amount, Score((k + 1) - 1))
      BY <2>2, <3>2
    <3> QED
      BY <1>3, <3>2, <3>3, <3>4
  <2> HIDE DEF Good
  <2>3. n \in Good
    BY <2>1, <2>2, <1>1, NumbersInduction
  <2> HIDE DEF Score
  <2> QED
    BY <2>3, <1>1 DEF Good
<1> DEFINE Body(f) == [i \in 0..n |-> IF i = 0 THEN top[l] ELSE Next1(f[i - 1], i)]
           last == CHOOSE f : f = Body(f)
<1>5. \E f : f = Body(f)
  <2> DEFINE Runs(f, k) == f[0] = top[l] /\ \A i \in 1..k : f[i] = Next1(f[i - 1], i)
             Good == {k \in Nat : \E f : Runs(f, k)}
  <2>1. 0 \in Good
    <3>1. Runs([i \in {0} |-> top[l]], 0)
      OBVIOUS
    <3> QED
      BY <3>1
  <2>2. ASSUME NEW k \in Nat, k \in Good PROVE k + 1 \in Good
    <3>1. PICK f : Runs(f, k)
      BY <2>2
    <3> DEFINE h == [i \in 0..(k + 1) |-> IF i = k + 1 THEN Next1(f[k], k + 1) ELSE f[i]]
    <3>2. h[0] = top[l]
      BY <3>1
    <3>3. ASSUME NEW i \in 1..(k + 1) PROVE h[i] = Next1(h[i - 1], i)
      <4>1. CASE i = k + 1
        BY <4>1
      <4>2. CASE i # k + 1
        <5>1. i \in 1..k /\ i - 1 \in 0..k /\ i - 1 # k + 1
          BY <4>2
        <5> QED
          BY <3>1, <4>2, <5>1
      <4> QED
        BY <4>1, <4>2
    <3>4. Runs(h, k + 1)
      BY <3>2, <3>3
    <3> HIDE DEF Runs, h
    <3> QED
      BY <3>4
  <2> HIDE DEF Good
  <2>3. n \in Good
    BY <2>1, <2>2, <1>1, NumbersInduction
  <2>4. PICK f : Runs(f, n)
    BY <2>3 DEF Good
  <2> DEFINE h == [i \in 0..n |-> f[i]]
  <2>5. \A i \in 0..n : h[i] = IF i = 0 THEN top[l] ELSE Next1(h[i - 1], i)
    <3>1. \A i \in 1..n : i - 1 \in 0..n /\ i # 0 /\ i \in 0..n
      BY <1>1
    <3>2. \A i \in 1..n : h[i] = f[i] /\ h[i - 1] = f[i - 1]
      BY <3>1
    <3>3. \A i \in 0..n : i = 0 \/ i \in 1..n
      BY <1>1
    <3>4. h[0] = top[l]
      BY <2>4, <1>1
    <3> HIDE DEF h
    <3> QED
      BY <2>4, <3>1, <3>2, <3>3, <3>4
  <2>6. h = Body(h)
    <3>1. h = [i \in 0..n |-> h[i]]
      OBVIOUS
    <3>2. [i \in 0..n |-> h[i]] = Body(h)
      BY <2>5
    <3> HIDE DEF h, Body
    <3> QED
      BY <3>1, <3>2
  <2> HIDE DEF h, Body
  <2> QED
    BY <2>6
<1>6. last = Body(last)
  <2> HIDE DEF Body
  <2> QED
    BY <1>5
<1>7. last[0] = top[l] /\ \A i \in 1..n : last[i] = Next1(last[i - 1], i)
  <2> HIDE DEF last
  <2>1. \A i \in 0..n : last[i] = IF i = 0 THEN top[l] ELSE Next1(last[i - 1], i)
    BY <1>6
  <2>2. 0 \in 0..n /\ \A i \in 1..n : i \in 0..n /\ i # 0
    BY <1>1
  <2> QED
    BY <2>1, <2>2
<1>8. Compare(l, ts) = last[n]
  BY DEF Compare, n, Next1
<1> HIDE DEF last
<1>9. last[n] \in T /\ Descending(last[n]) /\ BestOf(last[n], amount, Score(n))
  <2> HIDE DEF Score
  <2> QED
    BY <1>4, <1>7
<1>10. DOMAIN Score(n) = DOMAIN after /\ \A x \in DOMAIN after : Score(n)[x] = after[x]
  BY DEF n
<1>11. BestOf(last[n], amount, after)
  <2> HIDE DEF Score
  <2> QED
    BY <1>9, <1>10 DEF BestOf
<1> QED
  BY <1>8, <1>9, <1>11 DEF T

-----------------------------------------------------------------------------
(* Statistics: the steps *)

\* At the end of a count no node is left.
LEMMA Freed ==
    ASSUME StatsIInv, task = "slash24s", ReadTorrents \subseteq Torrents_of, Free(counters)
    PROVE  /\ counters' \in [Paths(MAXDEPTH) -> Nat] /\ node' = {}
           /\ \A ip \in Paths(MAXDEPTH) : counters'[ip] = 0
<1>1. counters \in [Paths(MAXDEPTH) -> Nat]
  BY DEF StatsIInv, StatsTypeOK
<1>2. ASSUME NEW ip \in Paths(MAXDEPTH) PROVE Shifted(counters, WIDTH)[ip] = 0
  <2> DEFINE A == {m \in seen : SubSeq(m.ip, 1, MAXDEPTH) = ip}
  <2>1. counters[ip] = Cardinality(A)
    BY DEF StatsIInv, CountersOK
  <2> DEFINE I == {i \in Addresses_of : SubSeq(i, 1, MAXDEPTH) = ip}
  <2>2. I \subseteq Addresses_of /\ A \subseteq [t : Torrents_of, ip : I]
    BY DEF StatsIInv, SeenOK
  <2>3. Cardinality(Torrents_of \X I) < 2 ^ WIDTH
    BY TreeAssumption
  <2> HIDE DEF A, I
  <2>4. counters[ip] \in Nat /\ counters[ip] < 2 ^ WIDTH
    <3>1. /\ Cardinality(A) \in Nat /\ Cardinality(Torrents_of \X I) \in Nat
          /\ Cardinality(A) <= Cardinality(Torrents_of \X I)
      BY <2>2, ReadBounded
    <3> QED
      BY <2>1, <2>3, <3>1, WidthFacts
  <2>5. counters[ip] \div 2 ^ WIDTH = 0
    <3>1. PICK d \in Nat : d = 2 ^ WIDTH
      BY WidthFacts
    <3>2. counters[ip] \div d = 0
      BY <2>4, <3>1, ShiftedAway
    <3> QED
      BY <3>1, <3>2
  <2> QED
    BY <1>1, <2>5 DEF Shifted
<1>3. DOMAIN Shifted(counters, WIDTH) = Paths(MAXDEPTH)
  BY <1>1 DEF Shifted
<1>4. counters' = Shifted(counters, WIDTH) /\ node' = Kept(Shifted(counters, WIDTH))
  BY DEF Free
<1>5. Kept(Shifted(counters, WIDTH)) = {}
  BY <1>2, <1>3 DEF Kept
<1>6. Shifted(counters, WIDTH) = [ip \in Paths(MAXDEPTH) |-> Shifted(counters, WIDTH)[ip]]
  BY <1>1 DEF Shifted
<1> QED
  BY <1>2, <1>4, <1>5, <1>6

\* Only torrents are read.
LEMMA ReadInNames ==
    ASSUME StatsTypeOK
    PROVE  ReadTorrents \subseteq Torrents_of
<1>1. \A b \in 1..(bucket - 1) : b \in DOMAIN Buckets
  BY ListAssumption DEF StatsTypeOK
<1> QED
  BY <1>1 DEF ReadTorrents, Torrents_of

\* Reading a bucket adds its torrents.
LEMMA ReadNext ==
    ASSUME StatsTypeOK, bucket <= Len(Buckets), bucket' = bucket + 1
    PROVE  ReadTorrents' = ReadTorrents \cup Ts(bucket) /\ bucket' \in 1..(Len(Buckets) + 1)
<1>1. bucket \in Nat /\ bucket >= 1 /\ Len(Buckets) \in Nat
  BY ListAssumption DEF StatsTypeOK
<1>2. \A b : b \in 1..(bucket' - 1) <=> b \in 1..(bucket - 1) \/ b = bucket
  BY <1>1
<1> QED
  BY <1>1, <1>2 DEF ReadTorrents, Ts

\* What does not touch the worker's state keeps the rest of the invariant.
LEMMA StatsQuiet ==
    ASSUME StatsIInv, peers' \in [Torrents_of -> SUBSET Addresses_of],
           UNCHANGED <<task, bucket, node, counters, top, seen, reply>>
    PROVE  StatsIInv'
<1>1. StatsTypeOK' /\ SeenOK' /\ CountersOK' /\ TaskOnce'
  BY DEF StatsIInv, StatsTypeOK, SeenOK, CountersOK, TaskOnce, ReadTorrents
<1>2. ListsOK'
  BY DEF StatsIInv, ListsOK, Values, SeenOf, ReadTorrents
<1>3. NetworksExact'
  <2>1. NetworksExact /\ seen' = seen /\ reply' = reply
    BY DEF StatsIInv
  <2>2. \A net : {m \in seen' : IsPrefix(net, m.ip)} = {m \in seen : IsPrefix(net, m.ip)}
    BY <2>1
  <2> DEFINE Peers(net) == Cardinality({m \in seen' : IsPrefix(net, m.ip)})
             small == reply.small
             large == reply.large
  <2>3. reply.kind = "slash24s" => Exact(small, amount, Paths(MAXDEPTH), Peers)
    BY <2>1, <2>2 DEF NetworksExact, Exact
  <2>4. reply.kind = "slash24s" => Exact(large, amount, Paths(LIMIT), Peers)
    BY <2>1, <2>2 DEF NetworksExact, Exact
  <2>5. reply'.kind = reply.kind /\ reply'.small = small /\ reply'.large = large
    BY <2>1
  <2> HIDE DEF small, large, Peers
  <2>6. reply'.kind = "slash24s" => Exact(reply'.small, amount, Paths(MAXDEPTH), Peers)
    BY <2>3, <2>5 DEF Exact
  <2>7. reply'.kind = "slash24s" => Exact(reply'.large, amount, Paths(LIMIT), Peers)
    BY <2>4, <2>5 DEF Exact
  <2> QED
    BY <2>6, <2>7 DEF NetworksExact, Exact, Peers
<1>4. TopExact'
  <2>1. TopExact /\ seen' = seen /\ reply' = reply
    BY DEF StatsIInv
  <2>2. /\ \A t : {m \in seen' : <<m.t>> = t} = {m \in seen : <<m.t>> = t}
        /\ \A t : {m \in seen' : <<m.t>> = t /\ m.ip \in Seeders} = {m \in seen : <<m.t>> = t /\ m.ip \in Seeders}
    BY <2>1
  <2> DEFINE names == {<<t>> : t \in Torrents_of}
             All(t) == Cardinality({m \in seen : <<m.t>> = t})
             Seeds(t) == Cardinality({m \in seen : <<m.t>> = t /\ m.ip \in Seeders})
             Later(t) == Cardinality({m \in seen' : <<m.t>> = t})
             LaterSeeds(t) == Cardinality({m \in seen' : <<m.t>> = t /\ m.ip \in Seeders})
             before == reply.lists
  <2>3. \A t : All(t) = Later(t) /\ Seeds(t) = LaterSeeds(t)
    BY <2>2
  <2>4. reply.kind = "top" => Exact(before["peers"], 1, names, All) /\ Exact(before["seeds"], 1, names, Seeds)
    BY <2>1 DEF TopExact, Exact
  <2> HIDE DEF names, All, Seeds, Later, LaterSeeds, before
  <2>5. reply.kind = "top" => Exact(before["peers"], 1, names, Later)
    BY <2>3, <2>4 DEF Exact
  <2>6. reply.kind = "top" => Exact(before["seeds"], 1, names, LaterSeeds)
    BY <2>3, <2>4 DEF Exact
  <2>7. reply'.kind = reply.kind /\ reply'.lists = before
    BY <2>1 DEF before
  <2> QED
    BY <2>5, <2>6, <2>7 DEF TopExact, Exact, names, Later, LaterSeeds
<1> QED
  BY <1>1, <1>2, <1>3, <1>4 DEF StatsIInv

\* An announce or a stop changes what is to be read, not what has been.
LEMMA ChangeStep ==
    ASSUME StatsIInv, NEW t \in Torrents_of, NEW ip \in Addresses_of, Change(t, ip)
    PROVE  StatsIInv'
<1>1. peers \in [Torrents_of -> SUBSET Addresses_of]
  BY DEF StatsIInv, StatsTypeOK
<1>2. peers' \in [Torrents_of -> SUBSET Addresses_of]
  BY <1>1 DEF Change
<1>3. UNCHANGED <<task, bucket, node, counters, top, seen, reply>>
  BY DEF Change
<1> QED
  BY <1>2, <1>3, StatsQuiet

\* No answer that is not there is wrong.
LEMMA NoReply ==
    ASSUME reply.kind \notin {"slash24s", "top"}
    PROVE  NetworksExact /\ TopExact
BY DEF NetworksExact, TopExact

\* The start: nothing is read, and nothing counted.
LEMMA StatsInitially ==
    ASSUME StatsInit
    PROVE  StatsIInv
<1>1. /\ task = "none" /\ bucket = 1 /\ node = {} /\ seen = {} /\ reply = [kind |-> "none"]
      /\ counters = [ip \in Paths(MAXDEPTH) |-> 0] /\ top = [l \in Lists |-> Empty]
      /\ peers \in [Torrents_of -> SUBSET Addresses_of]
  BY DEF StatsInit, StatsIdle
<1>2. 1 \in 1..(Len(Buckets) + 1)
  BY ListAssumption
<1>3. counters \in [Paths(MAXDEPTH) -> Nat]
  BY <1>1
<1>4. StatsTypeOK
  BY <1>1, <1>2, <1>3 DEF StatsTypeOK
<1>5. SeenOK
  BY <1>1 DEF SeenOK
<1>6. CountersOK
  BY <1>1 DEF CountersOK
<1>7. ListsOK
  BY <1>1 DEF ListsOK
<1>8. TaskOnce
  BY <1>1 DEF TaskOnce
<1>9. NetworksExact /\ TopExact
  <2>1. reply.kind = "none"
    BY <1>1
  <2> QED
    BY <2>1, NoReply
<1> QED
  BY <1>4, <1>5, <1>6, <1>7, <1>8, <1>9 DEF StatsIInv

\* A task begins with nothing read: its counters are zero and its lists empty.
LEMMA MakeStep ==
    ASSUME StatsIInv, NEW kind \in {"slash24s", "top"}, stats_make(kind)
    PROVE  StatsIInv'
<1>1. /\ task = "none" /\ reply.kind = "none" /\ task' = kind
      /\ UNCHANGED <<peers, bucket, node, counters, top, seen, reply>>
  BY DEF stats_make
<1>2. bucket = 1 /\ seen = {} /\ top = [l \in Lists |-> Empty]
  BY <1>1 DEF StatsIInv, TaskOnce
<1>3. node = {} /\ \A ip \in Paths(MAXDEPTH) : counters[ip] = 0
  BY <1>1 DEF StatsIInv, CountersOK
<1>4. StatsTypeOK'
  BY <1>1 DEF StatsIInv, StatsTypeOK
<1>5. SeenOK' /\ TaskOnce'
  BY <1>1, <1>2 DEF SeenOK, TaskOnce
<1>6. CountersOK'
  <2>1. \A ip \in Paths(MAXDEPTH) : counters'[ip] = 0
    BY <1>1, <1>3
  <2>2. \A ip : {m \in seen' : SubSeq(m.ip, 1, MAXDEPTH) = ip} = {}
    BY <1>1, <1>2
  <2>3. Cardinality({}) = 0
    BY FS_EmptySet
  <2>4. node' = {} /\ seen' = {}
    BY <1>1, <1>2, <1>3
  <2> QED
    BY <2>1, <2>2, <2>3, <2>4 DEF CountersOK
<1>7. ListsOK'
  <2>1. top' = [l \in Lists |-> Empty]
    BY <1>1, <1>2
  <2>2. ReadTorrents' = {}
    BY <1>1, <1>2 DEF ReadTorrents
  <2>3. \A l : DOMAIN Values(l)' = {}
    BY <2>2 DEF Values
  <2>4. <<>> \in Names
    BY DEF Names
  <2>5. ASSUME NEW l \in Lists
        PROVE  top'[l] \in ListsOf(Names) /\ Descending(top'[l]) /\ BestOf(top'[l], amount, Values(l)')
    <3> DEFINE value == Values(l)'
    <3>1. DOMAIN value = {}
      BY <2>3
    <3> HIDE DEF value
    <3>2. Empty \in ListsOf(Names) /\ Descending(Empty) /\ BestOf(Empty, amount, value)
      BY <2>4, <3>1, EmptyFacts
    <3> QED
      BY <2>1, <3>2 DEF value
  <2> QED
    BY <2>1, <2>5 DEF ListsOK, ListsOf, Names, Descending, BestOf, Used
<1>8. NetworksExact' /\ TopExact'
  BY <1>1 DEF NetworksExact, TopExact
<1> QED
  BY <1>4, <1>5, <1>6, <1>7, <1>8 DEF StatsIInv

\* Counting a bucket: every counter grows by the peers met under it.
LEMMA CountedTogether ==
    ASSUME StatsTypeOK, SeenOK, CountersOK, slash24s_bucket
    PROVE  \A ip \in Paths(MAXDEPTH) :
              /\ counters'[ip] \in Nat
              /\ counters'[ip] = Cardinality({m \in seen \cup Met(bucket) : SubSeq(m.ip, 1, MAXDEPTH) = ip})
<1>1. task = "slash24s" /\ bucket <= Len(Buckets) /\ counters' = Increased(Met(bucket))
  BY DEF slash24s_bucket
<1>2. /\ Met(bucket) \subseteq [t : Ts(bucket), ip : Addresses_of]
      /\ Ts(bucket) \subseteq Torrents_of /\ ReadTorrents \subseteq Torrents_of
      /\ ReadTorrents \cap Ts(bucket) = {}
  BY <1>1, MetFacts
<1>3. seen \cap Met(bucket) = {}
  BY <1>2 DEF SeenOK
<1>4. /\ seen \subseteq [t : Torrents_of, ip : Addresses_of]
      /\ Met(bucket) \subseteq [t : Torrents_of, ip : Addresses_of]
  BY <1>2 DEF SeenOK
<1> SUFFICES ASSUME NEW ip \in Paths(MAXDEPTH)
             PROVE  /\ counters'[ip] \in Nat
                    /\ counters'[ip] = Cardinality({m \in seen \cup Met(bucket) : SubSeq(m.ip, 1, MAXDEPTH) = ip})
  OBVIOUS
<1> DEFINE A == {m \in seen : SubSeq(m.ip, 1, MAXDEPTH) = ip}
           B == {m \in Met(bucket) : SubSeq(m.ip, 1, MAXDEPTH) = ip}
<1>5. counters'[ip] = Cardinality(A) + Cardinality(B)
  <2>1. counters[ip] = Cardinality(A)
    BY <1>1 DEF CountersOK
  <2> QED
    BY <1>1, <2>1 DEF Increased
<1>6. /\ A \subseteq [t : Torrents_of, ip : Addresses_of] /\ B \subseteq [t : Torrents_of, ip : Addresses_of]
      /\ A \cap B = {}
  BY <1>3, <1>4
<1>7. {m \in seen \cup Met(bucket) : SubSeq(m.ip, 1, MAXDEPTH) = ip} = A \cup B
  OBVIOUS
<1> HIDE DEF A, B
<1>8. IsFiniteSet(A) /\ IsFiniteSet(B) /\ Cardinality(A) \in Nat /\ Cardinality(B) \in Nat
  BY <1>6, ReadFinite
<1>9. Cardinality(A \cup B) = Cardinality(A) + Cardinality(B)
  BY <1>6, <1>8, Together
<1> DEFINE C == {m \in seen \cup Met(bucket) : SubSeq(m.ip, 1, MAXDEPTH) = ip}
<1>10. C = A \cup B
  BY <1>7
<1> HIDE DEF C
<1>11. counters'[ip] \in Nat /\ counters'[ip] = Cardinality(C)
  BY <1>5, <1>8, <1>9, <1>10
<1> QED
  BY <1>11 DEF C

\* The nodes above an address are above its counter.
LEMMA NodesAbove ==
    ASSUME NEW ip \in Addresses_of, NEW p \in NodesTo(ip)
    PROVE  \E path \in Paths(MAXDEPTH) : IsPrefix(p, path) /\ p # path
<1>1. MAXDEPTH \in Nat \ {0} /\ ip \in Seq(Digits) /\ Len(ip) >= MAXDEPTH
  BY TreeAssumption
<1>2. PICK n \in 0..(MAXDEPTH - 1) : p = SubSeq(ip, 1, n)
  BY DEF NodesTo
<1>3. n \in Nat /\ n <= MAXDEPTH /\ n # MAXDEPTH /\ Len(ip) >= n
  BY <1>1, <1>2
<1>4. p \in Paths(n)
  BY <1>1, <1>2, <1>3, SubPathFacts
<1> DEFINE path == SubSeq(ip, 1, MAXDEPTH)
<1>5. path \in Paths(MAXDEPTH)
  BY <1>1, SubPathFacts
<1>6. IsPrefix(p, path)
  <2>1. IsPrefix(p, ip)
    BY <1>1, <1>2, <1>3, <1>4, PrefixFacts
  <2> QED
    BY <1>1, <1>3, <1>4, <2>1, PrefixFacts
<1>7. p # path
  <2> HIDE DEF path
  <2>1. Len(p) = n /\ Len(path) = MAXDEPTH
    BY <1>1, <1>3, <1>4, <1>5, PathFacts
  <2> QED
    BY <1>3, <2>1
<1> HIDE DEF path
<1> QED
  BY <1>5, <1>6, <1>7

\* A bucket is counted: counters and nodes are those of what has been read.
LEMMA CountStep ==
    ASSUME StatsIInv, slash24s_bucket
    PROVE  StatsIInv'
<1>1. /\ task = "slash24s" /\ bucket <= Len(Buckets)
      /\ node' = node \cup UNION {NodesTo(m.ip) : m \in Met(bucket)}
      /\ seen' = seen \cup Met(bucket) /\ bucket' = bucket + 1
      /\ counters' = Increased(Met(bucket))
      /\ UNCHANGED <<peers, task, top, reply>>
  BY DEF slash24s_bucket
<1>2. StatsTypeOK /\ SeenOK /\ CountersOK /\ ListsOK /\ TaskOnce
  BY DEF StatsIInv
<1>3. /\ Met(bucket) \subseteq [t : Ts(bucket), ip : Addresses_of]
      /\ ReadTorrents' = ReadTorrents \cup Ts(bucket) /\ bucket' \in 1..(Len(Buckets) + 1)
  BY <1>1, <1>2, MetFacts, ReadNext
<1>4. \A ip \in Paths(MAXDEPTH) :
         /\ counters'[ip] \in Nat
         /\ counters'[ip] = Cardinality({m \in seen \cup Met(bucket) : SubSeq(m.ip, 1, MAXDEPTH) = ip})
  BY <1>2, CountedTogether
<1>5. StatsTypeOK'
  <2>1. counters' \in [Paths(MAXDEPTH) -> Nat]
    <3>1. counters' = [ip \in Paths(MAXDEPTH) |-> counters'[ip]]
      BY <1>1 DEF Increased
    <3> QED
      BY <3>1, <1>4
  <2>2. \A p \in node' : \E ip \in Paths(MAXDEPTH) : IsPrefix(p, ip) /\ p # ip
    <3>1. \A m \in Met(bucket) : m.ip \in Addresses_of
      BY <1>3
    <3> QED
      BY <1>1, <1>2, <3>1, NodesAbove DEF StatsTypeOK
  <2> QED
    BY <1>1, <1>2, <1>3, <2>1, <2>2 DEF StatsTypeOK
<1>6. SeenOK'
  BY <1>1, <1>2, <1>3 DEF SeenOK
<1>7. CountersOK'
  <2>1. \A m \in seen' : NodesTo(m.ip) \subseteq node'
    BY <1>1, <1>2 DEF CountersOK
  <2> QED
    BY <1>1, <1>4, <2>1 DEF CountersOK
<1>8. ListsOK' /\ TaskOnce'
  BY <1>1, <1>2 DEF ListsOK, TaskOnce
<1>9. NetworksExact' /\ TopExact'
  <2>1. reply'.kind = "none"
    BY <1>1, <1>2 DEF TaskOnce
  <2> QED
    BY <2>1 DEF NetworksExact, TopExact
<1> QED
  BY <1>5, <1>6, <1>7, <1>8, <1>9 DEF StatsIInv

\* A count that ends, whichever way: the tree is freed.
LEMMA EndsCount ==
    ASSUME StatsIInv, task = "slash24s", Free(counters), task' = "none", reply'.kind # "none",
           UNCHANGED <<peers, bucket, top, seen>>
    PROVE  StatsTypeOK' /\ SeenOK' /\ CountersOK' /\ ListsOK' /\ TaskOnce'
<1>1. StatsTypeOK /\ SeenOK /\ ListsOK
  BY DEF StatsIInv
<1>2. /\ counters' \in [Paths(MAXDEPTH) -> Nat] /\ node' = {}
      /\ \A ip \in Paths(MAXDEPTH) : counters'[ip] = 0
  BY <1>1, ReadInNames, Freed
<1>3. StatsTypeOK'
  BY <1>1, <1>2 DEF StatsTypeOK
<1>4. SeenOK' /\ ListsOK'
  BY <1>1 DEF SeenOK, ListsOK, ReadTorrents
<1>5. CountersOK' /\ TaskOnce'
  BY <1>2 DEF CountersOK, TaskOnce
<1> QED
  BY <1>3, <1>4, <1>5

\* It fails if memory is short or the tracker stops.
LEMMA FailedStep ==
    ASSUME StatsIInv, slash24s_bailout \/ slash24s_stopped
    PROVE  StatsIInv'
<1>1. /\ task = "slash24s" /\ Free(counters) /\ task' = "none" /\ reply' = [kind |-> "failed"]
      /\ UNCHANGED <<peers, bucket, top, seen>>
  BY DEF slash24s_bailout, slash24s_stopped
<1>2. reply'.kind = "failed"
  BY <1>1
<1>3. StatsTypeOK' /\ SeenOK' /\ CountersOK' /\ ListsOK' /\ TaskOnce'
  BY <1>1, <1>2, EndsCount
<1>4. NetworksExact' /\ TopExact'
  BY <1>2 DEF NetworksExact, TopExact
<1> QED
  BY <1>3, <1>4 DEF StatsIInv

\* The networks of a size that have most peers, whichever nodes the tree has.
LEMMA NetworksRanked ==
    ASSUME StatsTypeOK, SeenOK, CountersOK, task = "slash24s", NEW limit \in 1..MAXDEPTH
    PROVE  LET list == stats_get_highscore_networks(limit)
           IN  /\ list \in ListsOf({<<>>} \cup Paths(limit)) /\ Ascending(list)
               /\ BestOf(list, 1, [net \in Paths(limit) |-> Cardinality(SeenUnder(net))])
<1> DEFINE list == stats_get_highscore_networks(limit)
           S == {net \in Paths(limit) : SubSeq(net, 1, limit - 1) \in node}
           below == [net \in S |-> Below(net)]
           value == [net \in Paths(limit) |-> Cardinality(SeenUnder(net))]
<1>1. limit \in Nat /\ ReadTorrents \subseteq Torrents_of /\ amount \in Nat \ {0}
  BY TreeAssumption, ListAssumption, ReadInNames
<1>2. \A net \in Paths(limit) : Below(net) = Cardinality(SeenUnder(net)) /\ Below(net) \in Nat
  BY <1>1, BelowFacts
<1>3. \A net \in Paths(limit) : net \notin S => SeenUnder(net) = {}
  BY <1>1, VisitedFacts
<1>4. list \in ListsOf({<<>>} \cup Paths(limit)) /\ Ascending(list) /\ BestOf(list, 1, below)
  BY <1>1, <1>2, NetworksListed
<1>5. \A net \in DOMAIN below : net \in DOMAIN value /\ below[net] = value[net]
  BY <1>2
<1>6. \A net \in DOMAIN value : net \in DOMAIN below \/ value[net] = 0
  BY <1>3, FS_EmptySet
<1>7. list[1].val \in Nat
  <2> HIDE DEF list
  <2>1. 1 \in 1..amount
    BY <1>1
  <2> QED
    BY <1>4, <2>1 DEF ListsOf
<1> HIDE DEF list, below, value
<1>8. BestOf(list, 1, value)
  BY <1>4, <1>5, <1>6, <1>7 DEF BestOf
<1> QED
  BY <1>4, <1>8 DEF list, value

\* What a list with the best in front, or behind, owes to a reader.
SmallestFirst(list, names, value) ==
    LET used == {i \in 1..amount : list[i].val > 0}
        worst == list[IF amount = 1 THEN amount ELSE 1].val
    IN  /\ \A i, j \in used : list[i].torrent = list[j].torrent => i = j
        /\ \A i \in used : list[i].torrent \in names /\ list[i].val = value[list[i].torrent]
        /\ \A i \in 1..(amount - 1) :
               IF amount = 1 THEN list[i].val >= list[i + 1].val ELSE list[i].val <= list[i + 1].val
        /\ \A n \in names : value[n] > worst => \E i \in used : list[i].torrent = n

\* A list of the best, the lowest in front, owes nothing.
LEMMA RankedExact ==
    ASSUME NEW T, NEW list \in ListsOf(T), Ascending(list), NEW value, BestOf(list, 1, value)
    PROVE  SmallestFirst(list, DOMAIN value, value)
<1>1. amount \in Nat \ {0}
  BY ListAssumption
<1>2. \A i \in 1..(amount - 1) : i \in 1..amount /\ i + 1 \in 1..amount /\ i <= i + 1
  BY <1>1
<1>3. \A i \in 1..(amount - 1) : list[i].val <= list[i + 1].val
  BY <1>2 DEF Ascending
<1>4. (IF amount = 1 THEN amount ELSE 1) = 1 /\ (amount = 1 => 1..(amount - 1) = {})
  BY <1>1
<1> QED
  BY <1>3, <1>4 DEF SmallestFirst, BestOf, Used

\* The answer: the lists are those of the peers that were read, and the tree is freed.
LEMMA CountedStep ==
    ASSUME StatsIInv, slash24s_end
    PROVE  StatsIInv'
<1> DEFINE small == stats_get_highscore_networks(MAXDEPTH)
           large == stats_get_highscore_networks(LIMIT)
<1>1. /\ task = "slash24s" /\ Free(counters) /\ task' = "none"
      /\ reply' = [kind |-> "slash24s", small |-> small, large |-> large]
      /\ UNCHANGED <<peers, bucket, top, seen>>
  BY DEF slash24s_end
<1>2. reply'.kind = "slash24s" /\ reply'.small = small /\ reply'.large = large
  BY <1>1
<1>3. StatsTypeOK' /\ SeenOK' /\ CountersOK' /\ ListsOK' /\ TaskOnce'
  BY <1>1, <1>2, EndsCount
<1>4. MAXDEPTH \in 1..MAXDEPTH /\ LIMIT \in 1..MAXDEPTH /\ amount \in Nat \ {0}
  BY TreeAssumption, ListAssumption
<1>5. StatsTypeOK /\ SeenOK /\ CountersOK
  BY DEF StatsIInv
<1>6. /\ small \in ListsOf({<<>>} \cup Paths(MAXDEPTH)) /\ Ascending(small)
      /\ BestOf(small, 1, [net \in Paths(MAXDEPTH) |-> Cardinality(SeenUnder(net))])
  BY <1>1, <1>4, <1>5, NetworksRanked
<1>7. /\ large \in ListsOf({<<>>} \cup Paths(LIMIT)) /\ Ascending(large)
      /\ BestOf(large, 1, [net \in Paths(LIMIT) |-> Cardinality(SeenUnder(net))])
  BY <1>1, <1>4, <1>5, NetworksRanked
<1> HIDE DEF small, large
<1>8. NetworksExact'
  <2> DEFINE Peers(net) == Cardinality({m \in seen' : IsPrefix(net, m.ip)})
             ofSmall == [net \in Paths(MAXDEPTH) |-> Peers(net)]
             ofLarge == [net \in Paths(LIMIT) |-> Peers(net)]
  <2>1. seen' = seen
    BY <1>1
  <2>2. /\ SmallestFirst(small, Paths(MAXDEPTH), ofSmall)
        /\ SmallestFirst(large, Paths(LIMIT), ofLarge)
    BY <1>6, <1>7, <2>1, RankedExact DEF SeenUnder
  <2>3. \A net \in Paths(MAXDEPTH) : ofSmall[net] = Peers(net)
    OBVIOUS
  <2>4. \A net \in Paths(LIMIT) : ofLarge[net] = Peers(net)
    OBVIOUS
  <2> HIDE DEF Peers, ofSmall, ofLarge
  <2>5. Exact(small, amount, Paths(MAXDEPTH), Peers)
    BY <2>2, <2>3 DEF Exact, SmallestFirst
  <2>6. Exact(large, amount, Paths(LIMIT), Peers)
    BY <2>2, <2>4 DEF Exact, SmallestFirst
  <2> QED
    BY <1>2, <2>5, <2>6 DEF NetworksExact, Exact, Peers
<1>9. TopExact'
  BY <1>2 DEF TopExact
<1> QED
  BY <1>3, <1>8, <1>9 DEF StatsIInv

\* A torrent's value is what is read of it.
LEMMA ValueRead ==
    ASSUME StatsTypeOK, SeenOK, bucket <= Len(Buckets), NEW l \in Lists, NEW t \in Ts(bucket)
    PROVE  /\ ValueIn(l, t) \in Nat
           /\ ValueIn(l, t) = Cardinality({m \in seen \cup Met(bucket) :
                                            <<m.t>> = <<t>> /\ (l = "seeds" => m.ip \in Seeders)})
<1> DEFINE S == IF l = "peers" THEN peers[t] ELSE peers[t] \cap Seeders
           R == {m \in seen \cup Met(bucket) : <<m.t>> = <<t>> /\ (l = "seeds" => m.ip \in Seeders)}
<1>1. /\ Ts(bucket) \subseteq Torrents_of /\ ReadTorrents \cap Ts(bucket) = {}
      /\ {m \in Met(bucket) : m.t = t} = {[t |-> t, ip |-> ip] : ip \in peers[t]}
  BY MetFacts
<1>2. S \subseteq Addresses_of /\ ValueIn(l, t) = Cardinality(S)
  BY <1>1 DEF StatsTypeOK, ValueIn
<1>3. \A m \in seen : m.t # t
  BY <1>1 DEF SeenOK
<1>4. \A m : <<m.t>> = <<t>> <=> m.t = t
  OBVIOUS
<1>5. R = {[t |-> t, ip |-> ip] : ip \in S}
  <2>1. R = {m \in {n \in Met(bucket) : n.t = t} : l = "seeds" => m.ip \in Seeders}
    BY <1>3, <1>4
  <2>2. R = {m \in {[t |-> t, ip |-> ip] : ip \in peers[t]} : l = "seeds" => m.ip \in Seeders}
    BY <1>1, <2>1
  <2>3. l = "peers" \/ l = "seeds"
    BY DEF Lists
  <2> HIDE DEF R
  <2> QED
    BY <2>2, <2>3
<1> HIDE DEF S, R
<1>6. IsFiniteSet(S)
  BY <1>2, TreeAssumption, FS_Subset
<1> DEFINE f == [ip \in S |-> [t |-> t, ip |-> ip]]
<1>7. f \in Bijection(S, R)
  <2>1. f \in [S -> R] /\ \A r \in R : \E ip \in S : f[ip] = r
    BY <1>5
  <2>2. ASSUME NEW i \in S, NEW j \in S, f[i] = f[j] PROVE i = j
    BY <2>2
  <2> HIDE DEF f
  <2> QED
    BY <2>1, <2>2 DEF Bijection, Injection, Surjection, IsInjective
<1>8. Cardinality(R) = Cardinality(S)
  BY <1>6, <1>7, FS_Bijection DEF ExistsBijection
<1>9. Cardinality(S) \in Nat
  BY <1>6, FS_CardinalityType
<1> QED
  BY <1>2, <1>8, <1>9 DEF R

\* A bucket's torrents are compared: the lists are right for what has been read.
LEMMA ComparedStep ==
    ASSUME StatsIInv, top_bucket
    PROVE  StatsIInv'
<1>1. /\ task = "top" /\ bucket <= Len(Buckets)
      /\ top' = [l \in Lists |-> Compare(l, Buckets[bucket])]
      /\ seen' = seen \cup Met(bucket) /\ bucket' = bucket + 1
      /\ UNCHANGED <<peers, task, node, counters, reply>>
  BY DEF top_bucket
<1>2. StatsTypeOK /\ SeenOK /\ CountersOK /\ ListsOK /\ TaskOnce
  BY DEF StatsIInv
<1>3. /\ bucket \in DOMAIN Buckets
      /\ Met(bucket) \subseteq [t : Ts(bucket), ip : Addresses_of]
      /\ Ts(bucket) \subseteq Torrents_of /\ ReadTorrents \subseteq Torrents_of
      /\ ReadTorrents \cap Ts(bucket) = {}
      /\ ReadTorrents' = ReadTorrents \cup Ts(bucket) /\ bucket' \in 1..(Len(Buckets) + 1)
  BY <1>1, <1>2, MetFacts, ReadNext
<1>4. StatsTypeOK' /\ SeenOK'
  BY <1>1, <1>2, <1>3 DEF StatsTypeOK, SeenOK
<1>5. CountersOK' /\ TaskOnce'
  BY <1>1, <1>2 DEF CountersOK, TaskOnce
<1>6. NetworksExact' /\ TopExact'
  <2>1. reply'.kind = "none"
    BY <1>1, <1>2 DEF TaskOnce
  <2> QED
    BY <2>1 DEF NetworksExact, TopExact
<1>7. ASSUME NEW l \in Lists
      PROVE  top'[l] \in ListsOf(Names) /\ Descending(top'[l]) /\ BestOf(top'[l], amount, Values(l)')
  <2> DEFINE ts == Buckets[bucket]
             value == Values(l)
             after == Values(l)'
  <2>1. /\ ts \in Seq(Torrents_of) /\ \A i, j \in 1..Len(ts) : ts[i] = ts[j] => i = j
        /\ \A t : t \in Ts(bucket) <=> \E i \in 1..Len(ts) : t = ts[i]
    <3>1. ts \in Seq(Torrents_of)
      BY <1>3, ListAssumption
    <3>2. DOMAIN ts = 1..Len(ts)
      BY <3>1
    <3>3. \A i, j \in DOMAIN ts : ts[i] = ts[j] => i = j
      BY <1>3, ListAssumption
    <3>4. \A t : t \in Ts(bucket) <=> \E i \in DOMAIN ts : t = ts[i]
      BY DEF Ts, Range
    <3> HIDE DEF ts
    <3> QED
      BY <3>1, <3>2, <3>3, <3>4
  <2>2. DOMAIN value = {<<t>> : t \in ReadTorrents} /\ DOMAIN after = {<<t>> : t \in ReadTorrents'}
    BY DEF Values
  <2>3. \A x \in DOMAIN value : value[x] = Cardinality(SeenOf(l, x))
    BY DEF Values
  <2>4. \A x \in DOMAIN after :
           after[x] = Cardinality({m \in seen \cup Met(bucket) : <<m.t>> = x /\ (l = "seeds" => m.ip \in Seeders)})
    BY <1>1 DEF Values, SeenOf
  <2>5. \A x \in DOMAIN value : value[x] \in Nat
    <3>1. \A x : SeenOf(l, x) \subseteq [t : Torrents_of, ip : Addresses_of]
      BY <1>2, <1>3 DEF SeenOK, SeenOf
    <3>2. \A x : Cardinality(SeenOf(l, x)) \in Nat
      BY <3>1, ReadFinite
    <3> QED
      BY <2>3, <3>2
  <2>6. \A t \in Ts(bucket) : <<t>> \notin DOMAIN value
    <3>1. ASSUME NEW t \in Ts(bucket), NEW r \in ReadTorrents, <<t>> = <<r>> PROVE FALSE
      <4>1. t = r
        BY <3>1
      <4> QED
        BY <1>3, <4>1
    <3> QED
      BY <2>2, <3>1
  <2>7. \A x \in DOMAIN value : x \in DOMAIN after /\ after[x] = value[x]
    <3>1. ASSUME NEW t \in ReadTorrents
          PROVE  {m \in seen \cup Met(bucket) : <<m.t>> = <<t>> /\ (l = "seeds" => m.ip \in Seeders)} = SeenOf(l, <<t>>)
      <4>1. \A m \in Met(bucket) : m.t # t
        BY <1>3
      <4>2. \A m : <<m.t>> = <<t>> <=> m.t = t
        OBVIOUS
      <4> QED
        BY <4>1, <4>2 DEF SeenOf
    <3>2. \A t \in ReadTorrents : t \in ReadTorrents'
      BY <1>3
    <3> HIDE DEF value, after
    <3>3. ASSUME NEW x \in DOMAIN value PROVE x \in DOMAIN after /\ after[x] = value[x]
      <4>1. PICK t \in ReadTorrents : x = <<t>>
        BY <2>2
      <4>2. x \in DOMAIN after
        BY <2>2, <3>2, <4>1
      <4> QED
        BY <2>3, <2>4, <3>1, <4>1, <4>2
    <3> QED
      BY <3>3
  <2>8. \A t \in Ts(bucket) : ValueIn(l, t) \in Nat /\ <<t>> \in DOMAIN after /\ after[<<t>>] = ValueIn(l, t)
    <3> HIDE DEF value, after
    <3>1. ASSUME NEW t \in Ts(bucket)
          PROVE  ValueIn(l, t) \in Nat /\ <<t>> \in DOMAIN after /\ after[<<t>>] = ValueIn(l, t)
      <4>1. <<t>> \in DOMAIN after
        BY <1>3, <2>2
      <4>2. after[<<t>>] = Cardinality({m \in seen \cup Met(bucket) :
                                            <<m.t>> = <<t>> /\ (l = "seeds" => m.ip \in Seeders)})
        BY <2>4, <4>1
      <4> QED
        BY <1>1, <1>2, <4>1, <4>2, ValueRead
    <3> QED
      BY <3>1
  <2>9. DOMAIN after = DOMAIN value \cup {<<ts[i]>> : i \in 1..Len(ts)}
    <3> HIDE DEF value, after, ts
    <3>1. {<<t>> : t \in Ts(bucket)} = {<<ts[i]>> : i \in 1..Len(ts)}
      BY <2>1
    <3>2. DOMAIN after = {<<t>> : t \in ReadTorrents} \cup {<<t>> : t \in Ts(bucket)}
      BY <1>3, <2>2
    <3> QED
      BY <2>2, <3>1, <3>2
  <2>10. top[l] \in ListsOf(Names) /\ Descending(top[l]) /\ BestOf(top[l], amount, value)
    BY <1>1, <1>2 DEF ListsOK
  <2>11. top'[l] = Compare(l, ts)
    BY <1>1
  <2> HIDE DEF ts, value, after
  <2>12. \A i \in 1..Len(ts) : ts[i] \in Ts(bucket)
    BY <2>1
  <2>13. /\ Compare(l, ts) \in ListsOf(Names) /\ Descending(Compare(l, ts))
         /\ BestOf(Compare(l, ts), amount, after)
    <3>1. \A i \in 1..Len(ts) : <<ts[i]>> \notin DOMAIN value /\ ValueIn(l, ts[i]) \in Nat
      BY <2>6, <2>8, <2>12
    <3>2. \A x \in DOMAIN value : after[x] = value[x]
      BY <2>7
    <3>3. \A i \in 1..Len(ts) : after[<<ts[i]>>] = ValueIn(l, ts[i])
      BY <2>8, <2>12
    <3> QED
      BY <2>1, <2>5, <2>9, <2>10, <3>1, <3>2, <3>3, CompareFacts
  <2> QED
    BY <2>11, <2>13 DEF after
<1>8. ListsOK'
  <2>1. DOMAIN top' = Lists
    BY <1>1
  <2> QED
    BY <1>7, <2>1 DEF ListsOK, ListsOf, Descending, BestOf, Used, Names
<1> QED
  BY <1>4, <1>5, <1>6, <1>8 DEF StatsIInv

\* The answer: all buckets are read, unless the tracker stops.
LEMMA ListedStep ==
    ASSUME StatsIInv, top_end
    PROVE  StatsIInv'
<1>1. /\ task = "top" /\ (bucket > Len(Buckets) \/ ~Goes) /\ task' = "none"
      /\ reply' = IF Goes THEN [kind |-> "top", lists |-> top] ELSE [kind |-> "failed"]
      /\ UNCHANGED <<peers, bucket, node, counters, top, seen>>
  BY DEF top_end
<1>2. StatsTypeOK /\ SeenOK /\ CountersOK /\ ListsOK /\ TaskOnce
  BY DEF StatsIInv
<1>3. reply'.kind = IF Goes THEN "top" ELSE "failed"
  BY <1>1
<1>4. StatsTypeOK' /\ SeenOK' /\ CountersOK' /\ ListsOK' /\ TaskOnce'
  BY <1>1, <1>2, <1>3 DEF StatsTypeOK, SeenOK, CountersOK, ListsOK, TaskOnce, ReadTorrents
<1>5. NetworksExact'
  BY <1>3 DEF NetworksExact
<1>6. TopExact'
  <2>1. CASE ~Goes
    BY <1>3, <2>1 DEF TopExact
  <2>2. CASE Goes
    <3> DEFINE names == {<<t>> : t \in Torrents_of}
               All(t) == Cardinality({m \in seen' : <<m.t>> = t})
               Seeds(t) == Cardinality({m \in seen' : <<m.t>> = t /\ m.ip \in Seeders})
               most == top["peers"]
               best == top["seeds"]
               byPeers == Values("peers")
               bySeeds == Values("seeds")
    <3>1. ReadTorrents = Torrents_of
      <4>1. bucket > Len(Buckets) /\ bucket \in 1..(Len(Buckets) + 1)
        BY <1>1, <1>2, <2>2 DEF StatsTypeOK
      <4>2. 1..(bucket - 1) = DOMAIN Buckets
        BY <4>1, ListAssumption
      <4> QED
        BY <4>2 DEF ReadTorrents, Torrents_of
    <3>2. DOMAIN byPeers = names /\ \A x \in names : byPeers[x] = All(x)
      BY <1>1, <3>1 DEF Values, SeenOf
    <3>3. DOMAIN bySeeds = names /\ \A x \in names : bySeeds[x] = Seeds(x)
      BY <1>1, <3>1 DEF Values, SeenOf
    <3>4. \A l \in Lists : Descending(top[l]) /\ BestOf(top[l], amount, Values(l))
      BY <1>1, <1>2 DEF ListsOK
    <3>5. Descending(most) /\ BestOf(most, amount, byPeers)
      BY <3>4 DEF Lists
    <3>6. Descending(best) /\ BestOf(best, amount, bySeeds)
      BY <3>4 DEF Lists
    <3>7. amount \in Nat \ {0}
      BY ListAssumption
    <3>8. \A i \in 1..(amount - 1) : i \in 1..amount /\ i + 1 \in 1..amount /\ i <= i + 1
      BY <3>7
    <3>9. reply'.lists["peers"] = most /\ reply'.lists["seeds"] = best
      BY <1>1, <2>2
    <3> HIDE DEF names, All, Seeds, most, best, byPeers, bySeeds
    <3>10. \A i \in 1..(amount - 1) : most[i].val >= most[i + 1].val /\ best[i].val >= best[i + 1].val
      BY <3>5, <3>6, <3>8 DEF Descending
    <3>11. Exact(most, 1, names, All)
      BY <3>2, <3>5, <3>10 DEF Exact, BestOf, Used
    <3>12. Exact(best, 1, names, Seeds)
      BY <3>3, <3>6, <3>10 DEF Exact, BestOf, Used
    <3>13. Exact(reply'.lists["peers"], 1, names, All)
      BY <3>9, <3>11 DEF Exact
    <3>14. Exact(reply'.lists["seeds"], 1, names, Seeds)
      BY <3>9, <3>12 DEF Exact
    <3> QED
      BY <3>13, <3>14 DEF TopExact, Exact, names, All, Seeds
  <2> QED
    BY <2>1, <2>2
<1> QED
  BY <1>4, <1>5, <1>6 DEF StatsIInv

\* Whatever comes and goes while the worker reads, its tree and its lists are those of
\* what it has read.
THEOREM StatsInvariance == StatsSpec => []StatsIInv
<1>1. StatsInit => StatsIInv
  BY StatsInitially
<1>2. StatsIInv /\ [StatsNext]_statsVars => StatsIInv'
  <2> SUFFICES ASSUME StatsIInv, [StatsNext]_statsVars PROVE StatsIInv'
    OBVIOUS
  <2>1. ASSUME NEW t \in Torrents_of, NEW ip \in Addresses_of, Change(t, ip) PROVE StatsIInv'
    BY <2>1, ChangeStep
  <2>2. CASE Stop \/ UNCHANGED statsVars
    <3>1. UNCHANGED <<peers, task, bucket, node, counters, top, seen, reply>>
      BY <2>2 DEF Stop, statsVars
    <3>2. peers' \in [Torrents_of -> SUBSET Addresses_of]
      BY <3>1 DEF StatsIInv, StatsTypeOK
    <3> QED
      BY <3>1, <3>2, StatsQuiet
  <2>3. ASSUME NEW kind \in {"slash24s", "top"}, stats_make(kind) PROVE StatsIInv'
    BY <2>3, MakeStep
  <2>4. CASE slash24s_bucket
    BY <2>4, CountStep
  <2>5. CASE slash24s_bailout \/ slash24s_stopped
    BY <2>5, FailedStep
  <2>6. CASE slash24s_end
    BY <2>6, CountedStep
  <2>7. CASE top_bucket
    BY <2>7, ComparedStep
  <2>8. CASE top_end
    BY <2>8, ListedStep
  <2> QED
    BY <2>1, <2>2, <2>3, <2>4, <2>5, <2>6, <2>7, <2>8 DEF StatsNext
<1> QED
  BY <1>1, <1>2, PTL DEF StatsSpec

\* Statistics taken bucket by bucket are exact for what was read: the networks with the
\* most peers, and the torrents with the most peers and seeders, are in their places with
\* their values, and no node of the tree is left however the count ends.
THEOREM StatisticsCorrect == StatsSpec => []StatsExact
<1>1. StatsIInv => StatsExact
  BY DEF StatsIInv, StatsExact, TreeFreed, CountersOK
<1> QED
  BY <1>1, StatsInvariance, PTL
=============================================================================
