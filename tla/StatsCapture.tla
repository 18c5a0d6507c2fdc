---------------------------- MODULE StatsCapture ----------------------------
(***************************************************************************)
(* The history of the torrents' counters, and the counters sent to the web *)
(* application: both select the torrents whose record is younger than a    *)
(* stored date, and move the date on.                                      *)
(*                                                                         *)
(* cron starts a capture once a minute, at any second of it.  A capture    *)
(* that takes longer than a minute overlaps with the next one, and may end *)
(* after any statement.  A record's date is taken before the statement     *)
(* that stores it.                                                         *)
(*                                                                         *)
(* Which rows there are and who took them is modelled; of the counters in  *)
(* them only whether they are all zero, because such torrents are skipped. *)
(***************************************************************************)
EXTENDS Integers, FiniteSets, FiniteSetsExt

CONSTANTS
    Torrents,
    Captures,   \* processes of "stats --capture", so many can overlap
    Minute, Hour, Day,     \* lengths, in units of the clock
    MinuteKeep, HourKeep,  \* how long minute rows (8 hours) and hour rows (a week) are kept
    MaxTime,    \* bound: the clock
    MaxRuns,    \* bound: captures and sendings that are started
    MaxUpdates  \* bound: updates of records

ASSUME LengthsAssumption ==
    /\ Minute \in Nat \ {0}
    /\ Hour \in Nat \ {0} /\ Hour % Minute = 0
    /\ Day \in Nat \ {0} /\ Day % Hour = 0
    /\ MinuteKeep \in Nat /\ MinuteKeep > Hour
    /\ HourKeep \in Nat /\ HourKeep > Day

ASSUME BoundsAssumption ==
    /\ MaxTime \in Nat /\ MaxTime >= Day
    /\ MaxRuns \in Nat /\ MaxUpdates \in Nat

VARIABLES
    time,
    torrent,   \* the records: date, whether all counters are zero, version
    update,    \* an update on its way to the database
    updates,   \* updates so far
    minute, hour, day,  \* rows: <<torrent, date>>
    control,   \* the dates in stats_control
    capture,   \* the processes that capture
    started,   \* the minute cron last started a capture in
    sender,    \* the process that sends updates
    runs,      \* captures and sendings started
    captured,  \* history: <<torrent, version>> of every minute row
    sent,      \* history: the version of each torrent's last message
    late,      \* history: torrents with a date that was past when it could be read
    disturbed  \* history: a capture broke off, or ran with another one

rows == <<minute, hour, day>>
history == <<captured, sent, late, disturbed>>
vars == <<time, torrent, update, updates, rows, control, capture, started, sender, runs, history>>

Record == [updated : 0..MaxTime, zero : BOOLEAN, version : 0..MaxUpdates]
NoUpdate == [torrents |-> {}, record |-> [updated |-> 0, zero |-> TRUE, version |-> 0]]
Idle == [pc |-> "idle", now |-> 0, last |-> 0, todo |-> {}]
Keys == {"last_incremental", "last_capture_minute", "last_capture_hour", "last_capture_day"}

\* stats_db.initialize: every date is 1970.
Init ==
    /\ time = Day
    /\ torrent = [t \in Torrents |-> NoUpdate.record]
    /\ update = NoUpdate
    /\ updates = 0
    /\ minute = {} /\ hour = {} /\ day = {}
    /\ control = [k \in Keys |-> 0]
    /\ capture = [c \in Captures |-> Idle]
    /\ started = 0
    /\ sender = Idle
    /\ runs = 0
    /\ captured = {}
    /\ sent = [t \in Torrents |-> 0]
    /\ late = {}
    /\ disturbed = FALSE

Tick ==
    /\ time < MaxTime
    /\ time' = time + 1
    /\ UNCHANGED <<torrent, update, updates, rows, control, capture, started, sender, runs, history>>

-----------------------------------------------------------------------------
(* The records.  A change is dated, then stored. *)

\* _execute_update_stats up to the statement, of which there is one at a time here.
get_now_mongo(t) ==
    /\ update = NoUpdate
    /\ updates < MaxUpdates
    /\ updates' = updates + 1
    /\ \E zero \in BOOLEAN :
         update' = [torrents |-> {t}, record |-> [updated |-> time, zero |-> zero, version |-> updates + 1]]
    /\ UNCHANGED <<time, torrent, rows, control, capture, started, sender, runs, history>>

\* The dates that running selections compare with, and those they will store.
Dates == {capture[c].now : c \in {x \in Captures : capture[x].pc # "idle"}}
         \cup (IF sender.pc # "idle" THEN {sender.now} ELSE {})

\* The statement.  The date is late if a selection has been made that counts it as past.
update_stats(t) ==
    /\ t \in update.torrents
    /\ torrent' = [torrent EXCEPT ![t] = update.record]
    /\ late' = IF \E d \in Dates \cup {control["last_capture_minute"], control["last_incremental"]} :
                    update.record.updated <= d
               THEN late \cup {t} ELSE late \ {t}
    /\ update' = NoUpdate
    /\ UNCHANGED <<time, updates, rows, control, capture, started, sender, runs, captured, sent, disturbed>>

\* The torrents that have changed after a date.
Updated(last) == {t \in Torrents : torrent[t].updated > last}

-----------------------------------------------------------------------------
(* A capture. *)

Others(c) == {x \in Captures \ {c} : capture[x].pc # "idle"}

\* Capture c goes on to pc; nothing but what the conjuncts beside it say is changed.
Goto(c, pc) == capture' = [capture EXCEPT ![c].pc = pc]
CaptureOnly == UNCHANGED <<time, torrent, update, updates, started, sender, runs, sent, late>>

\* cron, and TorrentStatsCapture.__init__.
init(c) ==
    /\ capture[c].pc = "idle"
    /\ time \div Minute > started
    /\ started' = time \div Minute
    /\ runs < MaxRuns
    /\ runs' = runs + 1
    /\ capture' = [capture EXCEPT ![c] = [Idle EXCEPT !.pc = "minute_last", !.now = time]]
    /\ disturbed' = (disturbed \/ Others(c) # {})
    /\ UNCHANGED <<time, torrent, update, updates, rows, control, sender, captured, sent, late>>

\* The connection or a statement fails, or the process is stopped.
fails(c) ==
    /\ capture[c].pc # "idle"
    /\ capture' = [capture EXCEPT ![c] = Idle]
    /\ disturbed' = TRUE
    /\ CaptureOnly /\ UNCHANGED <<rows, control, captured>>

\* _capture_minute: the date of the last capture ...
capture_minute_last(c) ==
    /\ capture[c].pc = "minute_last"
    /\ capture' = [capture EXCEPT ![c].pc = "minute_find", ![c].last = control["last_capture_minute"]]
    /\ CaptureOnly /\ UNCHANGED <<rows, control, captured, disturbed>>

\* ... _get_updated_torrents, as they are now, without those that have only zeros.
get_updated_torrents(c) ==
    /\ capture[c].pc = "minute_find"
    /\ capture' = [capture EXCEPT ![c].pc = "minute",
                     ![c].todo = {<<t, torrent[t].version>> :
                                    t \in {u \in Updated(capture[c].last) : ~torrent[u].zero}}]
    /\ CaptureOnly /\ UNCHANGED <<rows, control, captured, disturbed>>

\* _save_data_point of one torrent.
save_minute(c) ==
    /\ capture[c].pc = "minute"
    /\ \E p \in capture[c].todo :
         /\ minute' = minute \cup {<<p[1], capture[c].now>>}
         /\ captured' = captured \cup {p}
         /\ capture' = [capture EXCEPT ![c].todo = @ \ {p}]
    /\ CaptureOnly /\ UNCHANGED <<hour, day, control, disturbed>>

\* Mutant: the date of the last capture is that of its end.
capture_minute_end_Time(c) ==
    /\ capture[c].pc = "minute"
    /\ capture[c].todo = {}
    /\ minute' = {r \in minute : r[2] >= capture[c].now - MinuteKeep}
    /\ control' = [control EXCEPT !["last_capture_minute"] = time]
    /\ Goto(c, "hour_last")
    /\ CaptureOnly /\ UNCHANGED <<hour, day, captured, disturbed>>

\* Mutant: the date is rounded to the end of the minute.
capture_minute_end_Rounded(c) ==
    /\ capture[c].pc = "minute"
    /\ capture[c].todo = {}
    /\ minute' = {r \in minute : r[2] >= capture[c].now - MinuteKeep}
    /\ control' = [control EXCEPT !["last_capture_minute"] = (capture[c].now \div Minute + 1) * Minute]
    /\ Goto(c, "hour_last")
    /\ CaptureOnly /\ UNCHANGED <<hour, day, captured, disturbed>>

\* The end of _capture_minute: old rows are removed, the date moves on.  (In two statements;
\* nobody reads rows that old, and a failure between them leaves them to the next capture.)
capture_minute_end(c) ==
    /\ capture[c].pc = "minute"
    /\ capture[c].todo = {}
    /\ minute' = {r \in minute : r[2] >= capture[c].now - MinuteKeep}
    /\ control' = [control EXCEPT !["last_capture_minute"] = capture[c].now]
    /\ Goto(c, "hour_last")
    /\ CaptureOnly /\ UNCHANGED <<hour, day, captured, disturbed>>

\* Mutant: an hour is over at any minute.
should_capture_hour_Any(now, last) == last <= now - Hour

\* _should_capture_hour, given the date of the last one.
should_capture_hour(now, last) == last <= now - Hour /\ (now % Hour) \div Minute = 0

\* Mutant: nobody asks when the last day was.
should_capture_day_Any(now, last) == (now % Day) \div Hour = 0

\* _should_capture_day, at any minute of the hour.
should_capture_day(now, last) == last <= now - Day /\ (now % Day) \div Hour = 0

\* The torrents with rows since a date, one row of sums for each: _get_aggregate_query.
Aggregate(coll, since) == {<<r[1], 0>> : r \in {x \in coll : x[2] >= since}}

\* _should_capture_hour and the query of _capture_hour.
capture_hour(c) ==
    /\ capture[c].pc = "hour_last"
    /\ IF should_capture_hour(capture[c].now, control["last_capture_hour"])
       THEN capture' = [capture EXCEPT ![c].pc = "hour", ![c].todo = Aggregate(minute, capture[c].now - Hour)]
       ELSE Goto(c, "day_last")
    /\ CaptureOnly /\ UNCHANGED <<rows, control, captured, disturbed>>

\* _save_data_point_with_averages of one torrent.
save_hour(c) ==
    /\ capture[c].pc = "hour"
    /\ \E p \in capture[c].todo :
         /\ hour' = hour \cup {<<p[1], capture[c].now>>}
         /\ capture' = [capture EXCEPT ![c].todo = @ \ {p}]
    /\ CaptureOnly /\ UNCHANGED <<minute, day, control, captured, disturbed>>

\* The end of _capture_hour.
capture_hour_end(c) ==
    /\ capture[c].pc = "hour"
    /\ capture[c].todo = {}
    /\ hour' = {r \in hour : r[2] >= capture[c].now - HourKeep}
    /\ control' = [control EXCEPT !["last_capture_hour"] = capture[c].now]
    /\ Goto(c, "day_last")
    /\ CaptureOnly /\ UNCHANGED <<minute, day, captured, disturbed>>

\* _should_capture_day and the query of _capture_day; without a day the run is over.
capture_day(c) ==
    /\ capture[c].pc = "day_last"
    /\ IF should_capture_day(capture[c].now, control["last_capture_day"])
       THEN capture' = [capture EXCEPT ![c].pc = "day", ![c].todo = Aggregate(hour, capture[c].now - Day)]
       ELSE capture' = [capture EXCEPT ![c] = Idle]
    /\ CaptureOnly /\ UNCHANGED <<rows, control, captured, disturbed>>

\* _save_data_point_with_averages of one torrent; these rows are never removed.
save_day(c) ==
    /\ capture[c].pc = "day"
    /\ \E p \in capture[c].todo :
         /\ day' = day \cup {<<p[1], capture[c].now>>}
         /\ capture' = [capture EXCEPT ![c].todo = @ \ {p}]
    /\ CaptureOnly /\ UNCHANGED <<minute, hour, control, captured, disturbed>>

\* The end of _capture_day and of the run.
capture_day_end(c) ==
    /\ capture[c].pc = "day"
    /\ capture[c].todo = {}
    /\ control' = [control EXCEPT !["last_capture_day"] = capture[c].now]
    /\ capture' = [capture EXCEPT ![c] = Idle]
    /\ CaptureOnly /\ UNCHANGED <<rows, captured, disturbed>>

-----------------------------------------------------------------------------
(* Updates sent to the web application. *)

SenderOnly == UNCHANGED <<time, torrent, update, updates, rows, capture, started, captured, late, disturbed>>

\* _update_full or _update_incremental: the date is taken, and the last one read.
update_start ==
    /\ sender.pc = "idle"
    /\ runs < MaxRuns
    /\ runs' = runs + 1
    /\ \E last \in {-1, control["last_incremental"]} :
         sender' = [Idle EXCEPT !.pc = "find", !.now = time, !.last = last]
    /\ SenderOnly /\ UNCHANGED <<control, sent>>

\* Mutant: the date moves on before the messages are sent.
update_find_Early ==
    /\ sender.pc = "find"
    /\ sender' = [sender EXCEPT !.pc = "send", !.todo = {<<t, torrent[t].version>> : t \in Updated(sender.last)}]
    /\ control' = [control EXCEPT !["last_incremental"] = sender.now]
    /\ SenderOnly /\ UNCHANGED <<runs, sent>>

\* Torrent.find.
update_find ==
    /\ sender.pc = "find"
    /\ sender' = [sender EXCEPT !.pc = "send", !.todo = {<<t, torrent[t].version>> : t \in Updated(sender.last)}]
    /\ SenderOnly /\ UNCHANGED <<runs, control, sent>>

\* _send_stats_update of one torrent.
send_stats_update ==
    /\ sender.pc = "send"
    /\ \E p \in sender.todo :
         /\ sent' = [sent EXCEPT ![p[1]] = p[2]]
         /\ sender' = [sender EXCEPT !.todo = @ \ {p}]
    /\ SenderOnly /\ UNCHANGED <<runs, control>>

\* The broker, or the database, fails.
update_fails ==
    /\ sender.pc # "idle"
    /\ sender' = Idle
    /\ SenderOnly /\ UNCHANGED <<runs, control, sent>>

\* The end of _update_send_torrent_list.
update_end ==
    /\ sender.pc = "send"
    /\ sender.todo = {}
    /\ control' = [control EXCEPT !["last_incremental"] = sender.now]
    /\ sender' = Idle
    /\ SenderOnly /\ UNCHANGED <<runs, sent>>

-----------------------------------------------------------------------------

Capture(c) ==
    \/ init(c)
    \/ fails(c)
    \/ capture_minute_last(c)
    \/ get_updated_torrents(c)
    \/ save_minute(c)
    \/ capture_minute_end(c)
    \/ capture_hour(c)
    \/ save_hour(c)
    \/ capture_hour_end(c)
    \/ capture_day(c)
    \/ save_day(c)
    \/ capture_day_end(c)

Sender ==
    \/ update_start
    \/ update_find
    \/ send_stats_update
    \/ update_fails
    \/ update_end

\* The clock stands still and everything is done.
Finished ==
    /\ time = MaxTime /\ update = NoUpdate /\ sender = Idle
    /\ \A c \in Captures : capture[c] = Idle
    /\ UNCHANGED vars

Next ==
    \/ Finished
    \/ Tick
    \/ \E t \in Torrents : get_now_mongo(t) \/ update_stats(t)
    \/ \E c \in Captures : Capture(c)
    \/ Sender

Spec == Init /\ [][Next]_vars

-----------------------------------------------------------------------------

Process(pcs) ==
    [pc : pcs, now : 0..MaxTime, last : -1..MaxTime, todo : SUBSET (Torrents \X (0..MaxUpdates))]

TypeOK ==
    /\ time \in Day..MaxTime
    /\ torrent \in [Torrents -> Record]
    /\ update \in [torrents : SUBSET Torrents, record : Record]
    /\ updates \in 0..MaxUpdates
    /\ \A coll \in {minute, hour, day} : coll \subseteq Torrents \X (Day..time)
    /\ control \in [Keys -> 0..time]
    /\ capture \in [Captures -> Process({"idle", "minute_last", "minute_find", "minute",
                                         "hour_last", "hour", "day_last", "day"})]
    /\ started \in 0..MaxTime
    /\ sender \in Process({"idle", "find", "send"})
    /\ runs \in 0..MaxRuns
    /\ captured \subseteq Torrents \X (0..MaxUpdates)
    /\ sent \in [Torrents -> 0..MaxUpdates]
    /\ late \subseteq Torrents
    /\ disturbed \in BOOLEAN

\* No change is lost to the history: what a record said when the last capture looked for
\* changes has a minute row, also if captures break off, or overlap and put the date back.
\* Excepted are records without a count, and changes stored after a capture they were dated
\* before.
UpdatesCaptured ==
    \A t \in Torrents \ late :
        torrent[t].updated <= control["last_capture_minute"] /\ ~torrent[t].zero
          => <<t, torrent[t].version>> \in captured

\* No change is lost to the web application, whether or not the broker took every message.
UpdatesSent ==
    \A t \in Torrents \ late :
        torrent[t].updated <= control["last_incremental"] => sent[t] = torrent[t].version

\* No change passes a reader of records unseen (TorrentStatsCapture, TorrentStatsUpdater).
UpdatesExact == UpdatesCaptured /\ UpdatesSent

\* A torrent has one row for an hour, whatever breaks off or overlaps: an hour is captured in
\* its first minute or not at all, and a minute has one capture.
HourRowsOnce ==
    \A r, s \in hour : r[1] = s[1] /\ r[2] \div Hour = s[2] \div Hour => r = s

\* A torrent has one row for a day if captures neither break off nor overlap; all captures of
\* the day's first hour would take it.
DayRowsOnce ==
    ~disturbed => \A r, s \in day : r[1] = s[1] /\ r[2] \div Day = s[2] \div Day => r = s

\* The history has a point of time once: what a chart shows as one hour or one day is one row.
RowsOnce == TypeOK /\ HourRowsOnce /\ DayRowsOnce
=============================================================================
