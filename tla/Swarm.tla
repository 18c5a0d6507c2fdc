------------------------------- MODULE Swarm --------------------------------
(***************************************************************************)
(* One torrent of the tracker: its swarm in memory and its record in the   *)
(* torrent database.                                                       *)
(*                                                                         *)
(* Peers announce themselves and stop, scrapes and the clean worker drop   *)
(* peers that were silent for OT_PEER_TIMEOUT minutes and torrents nobody  *)
(* asks for (trackerlogic.c, ot_clean.c).  An announce first asks the      *)
(* database whether the torrent may be tracked, adds the torrent's seed    *)
(* bank to the swarm and stores the number of seeds and peers in the       *)
(* record; a cleaning that drops peers stores them too (ts_export.cpp,     *)
(* torrentdb.cpp, torrent_acl.cpp).                                        *)
(*                                                                         *)
(* The operations on a torrent exclude each other by the lock of its       *)
(* bucket (module BucketLock).  They are still no atomic steps: the clock  *)
(* (g_now_minutes, read several times in an operation) goes on and clients *)
(* (mqclient) withdraw, publish and rewrite the record between its reads   *)
(* and writes of it.  What clients do to each other is in TorrentRecords;  *)
(* one of them at a time holds a copy here.  Allocations succeed.          *)
(***************************************************************************)
EXTENDS Integers, FiniteSets, Functions

CONSTANTS
    Peers,                \* addresses of peers
    Banks,                \* those of them that are addresses of seed banks
    OT_PEER_TIMEOUT,      \* minutes after which a silent peer is dropped
    OT_TORRENT_TIMEOUT,   \* minutes after which an idle torrent is dropped
    TicksInside,          \* whether minutes end while an operation runs
    DbFails,              \* whether statements to the database fail
    CopiesSaved,          \* whether clients save copies of the record (update_torrent)
    CleanGap,             \* the minutes the clean worker needs at most to come back to the torrent
    MaxTime,              \* bound: minutes
    MaxCompleted          \* bound: completed downloads

ASSUME PeersAssumption == IsFiniteSet(Peers)
ASSUME BanksAssumption == Banks \subseteq Peers
ASSUME TimeoutsAssumption ==
    /\ OT_PEER_TIMEOUT \in Nat \ {0}
    /\ OT_TORRENT_TIMEOUT \in Nat
    /\ OT_PEER_TIMEOUT < OT_TORRENT_TIMEOUT
ASSUME SwitchesAssumption == TicksInside \in BOOLEAN /\ DbFails \in BOOLEAN /\ CopiesSaved \in BOOLEAN
ASSUME BoundsAssumption == CleanGap \in Nat /\ MaxTime \in Nat /\ MaxCompleted \in Nat

VARIABLES
    now,      \* g_now_minutes
    known,    \* whether the torrent is in its bucket
    list,     \* its ot_peerlist: base and the three counters
    peers,    \* the peers in the list: their flags and OT_PEERTIME
    record,   \* the torrent's record in the database
    copy,     \* what a client has read of it, to write it back
    op,       \* the operation that holds the bucket
    seen,     \* history: when each peer in the list was heard of, how often its download counted
    touched,  \* history: when the last announce for the torrent was
    dirty,    \* history: the record may differ from the swarm (a stop, a failed update, a drop,
              \* counters a client has changed)
    lost      \* history: downloads of the list that were not stored, or that clients took back

memory == <<known, list, peers>>
database == <<record, copy>>
history == <<seen, touched, dirty, lost>>
vars == <<now, memory, database, op, history>>

NoList == [base |-> 0, seed_count |-> 0, peer_count |-> 0, down_count |-> 0]
Nobody == [p \in {} |-> 0]
Idle == [kind |-> "none", pc |-> "idle"]

\* No record, which is how a torrent is withdrawn, and no copy.
NoRecord == [published |-> FALSE, seedbanks |-> {}, seeds |-> 0, peers |-> 0, completed |-> 0]
NoCopy == [of |-> "nothing", seeds |-> 0, peers |-> 0, completed |-> 0]

\* The record of a torrent that was just added.
NewRecord == [published |-> TRUE, seedbanks |-> {}, seeds |-> 0, peers |-> 0, completed |-> 0]

Init ==
    /\ now = 0
    /\ known = FALSE
    /\ list = NoList
    /\ peers = Nobody
    /\ record = NoRecord \/ \E banks \in SUBSET Banks : record = [NewRecord EXCEPT !.seedbanks = banks]
    /\ copy = NoCopy
    /\ op = Idle
    /\ seen = Nobody
    /\ touched = 0
    /\ dirty = FALSE
    /\ lost = 0

Here == DOMAIN peers
Seeders == {p \in Here : peers[p].seeding}

-----------------------------------------------------------------------------
(* Helpers that several operations call. *)

\* Mutant: the seeds are counted among the peers.
Update_SeedsArePeers(l, increment) ==
    \/ /\ record.published
       /\ record' = [record EXCEPT !.seeds = l.seed_count, !.peers = l.peer_count,
                                   !.completed = @ + increment]
       /\ dirty' = FALSE
       /\ UNCHANGED lost
    \/ /\ ~record.published \/ DbFails
       /\ dirty' = TRUE
       /\ lost' = lost + increment
       /\ UNCHANGED record

\* ts_update_torrent_stats: store the counters.  What fails is logged and forgotten, what finds
\* no record any more changes nothing.
Update(l, increment) ==
    \/ /\ record.published
       /\ record' = [record EXCEPT
                       !.seeds = l.seed_count,
                       !.peers = IF l.peer_count < l.seed_count THEN 0
                                                                ELSE l.peer_count - l.seed_count,
                       !.completed = @ + increment]
       /\ dirty' = FALSE
       /\ UNCHANGED lost
    \/ /\ ~record.published \/ DbFails
       /\ dirty' = TRUE
       /\ lost' = lost + increment
       /\ UNCHANGED record

\* Mutant: a peer is dropped a minute early.
Overdue_Early(timedout) == {p \in Here : timedout + peers[p].time >= OT_PEER_TIMEOUT - 1}

\* The peers clean_single_bucket drops.
Overdue(timedout) == {p \in Here : timedout + peers[p].time >= OT_PEER_TIMEOUT}

\* vector_remove_torrent: the torrent and its peers are freed.
RemoveTorrent ==
    /\ known' = FALSE
    /\ list' = NoList
    /\ peers' = Nobody
    /\ seen' = Nobody
    /\ dirty' = (dirty \/ list.peer_count # 0)
    /\ lost' = 0

\* What is left to do once clean_single_torrent has returned that the torrent is alive.
AfterClean == IF op.kind = "announce" THEN [op EXCEPT !.pc = "touch"] ELSE Idle

-----------------------------------------------------------------------------
(* add_peer_to_torrent_and_return_peers, step by step. *)

\* An announce of peer p gets the bucket.  Whoever claims to have completed is a seeder.
Announce(p, seeding, completed) ==
    /\ op.pc = "idle"
    /\ completed => list.down_count < MaxCompleted
    /\ op' = [kind |-> "announce", pc |-> "validate", peer |-> p, seeding |-> seeding,
              completed |-> completed /\ seeding]
    /\ UNCHANGED <<now, memory, database, history>>

\* ts_torrentdb_hashisvalid: the torrent is not published, or the database does not answer.
Reject ==
    /\ op.pc = "validate"
    /\ ~record.published \/ DbFails
    /\ op' = Idle
    /\ UNCHANGED <<now, memory, database, history>>

\* It is published; it is created if it is not there, otherwise cleaned.
Find ==
    /\ op.pc = "validate"
    /\ record.published
    /\ known' = TRUE
    /\ op' = [op EXCEPT !.pc = IF known THEN "clean" ELSE "touch"]
    /\ UNCHANGED <<now, list, peers, database, history>>

\* The torrent's base is set to the current minute.
Touch ==
    /\ op.pc = "touch"
    /\ list' = [list EXCEPT !.base = now]
    /\ touched' = now
    /\ op' = [op EXCEPT !.pc = "seedbanks"]
    /\ UNCHANGED <<now, known, peers, database, seen, dirty, lost>>

\* Mutant: a seed bank is counted as a seed only.
AddSeedbanks_NotAPeer ==
    /\ op.pc = "seedbanks"
    /\ LET new == record.seedbanks \ Here IN
       /\ peers' = [p \in Here \cup new |-> IF p \in Here THEN peers[p] ELSE
                                            [seeding |-> TRUE, completed |-> FALSE, time |-> 0]]
       /\ seen' = [p \in Here \cup new |-> IF p \in Here THEN seen[p] ELSE
                                           [heard |-> list.base, counted |-> 0]]
       /\ list' = [list EXCEPT !.seed_count = @ + Cardinality(new)]
    /\ op' = [op EXCEPT !.pc = "insert"]
    /\ UNCHANGED <<now, known, database, touched, dirty, lost>>

\* ts_torrentdb_add_seedbanks: a seed bank that is not in the list is added as a seeder that is
\* fresh, one that is there is left alone.
AddSeedbanks ==
    /\ op.pc = "seedbanks"
    /\ \E banks \in {record.seedbanks} \cup (IF DbFails THEN {{}} ELSE {}) :
       LET new == banks \ Here IN
       /\ peers' = [p \in Here \cup new |-> IF p \in Here THEN peers[p] ELSE
                                            [seeding |-> TRUE, completed |-> FALSE, time |-> 0]]
       /\ seen' = [p \in Here \cup new |-> IF p \in Here THEN seen[p] ELSE
                                           [heard |-> list.base, counted |-> 0]]
       /\ list' = [list EXCEPT !.seed_count = @ + Cardinality(new),
                               !.peer_count = @ + Cardinality(new)]
    /\ op' = [op EXCEPT !.pc = "insert"]
    /\ UNCHANGED <<now, known, database, touched, dirty, lost>>

\* Mutant: the peer's completed flag is replaced like the others.
Sticky_Replaced(p) == op.completed

\* A peer that has completed once stays so while it is in the list.
Sticky(p) == op.completed \/ (p \in Here /\ peers[p].completed)

\* The peer enters the list or is renewed, the counters follow and are stored.
Insert ==
    /\ op.pc = "insert"
    /\ LET p == op.peer
           was == p \in Here /\ peers[p].seeding
           done == op.completed /\ ~(p \in Here /\ peers[p].completed)
           finished == IF done THEN 1 ELSE 0
           l == [list EXCEPT
                   !.peer_count = @ + (IF p \in Here THEN 0 ELSE 1),
                   !.seed_count = @ + (CASE op.seeding /\ ~was -> 1
                                         [] ~op.seeding /\ was -> -1
                                         [] OTHER -> 0),
                   !.down_count = @ + finished]
       IN
       /\ list' = l
       /\ Update(l, finished)
       /\ peers' = [q \in Here \cup {p} |->
                      IF q = p THEN [seeding |-> op.seeding, completed |-> Sticky(p), time |-> 0]
                               ELSE peers[q]]
       /\ seen' = [q \in Here \cup {p} |->
                     IF q # p THEN seen[q] ELSE
                     [heard |-> list.base,
                      counted |-> finished + (IF p \in Here THEN seen[p].counted ELSE 0)]]
    /\ op' = Idle
    /\ UNCHANGED <<now, known, copy, touched>>

-----------------------------------------------------------------------------
(* remove_peer_from_torrent. *)

\* Mutant: the peer's seeding is not looked at.
Stop_KeepSeed(p) ==
    /\ op.pc = "idle"
    /\ p \in Here
    /\ peers' = Restrict(peers, Here \ {p})
    /\ seen' = Restrict(seen, Here \ {p})
    /\ list' = [list EXCEPT !.peer_count = @ - 1]
    /\ dirty' = TRUE
    /\ UNCHANGED <<now, known, database, op, touched, lost>>

\* The peer leaves the list.  The record in the database is not updated.
Stop(p) ==
    /\ op.pc = "idle"
    /\ p \in Here
    /\ peers' = Restrict(peers, Here \ {p})
    /\ seen' = Restrict(seen, Here \ {p})
    /\ list' = [list EXCEPT !.peer_count = @ - 1,
                            !.seed_count = IF peers[p].seeding THEN @ - 1 ELSE @]
    /\ dirty' = TRUE
    /\ UNCHANGED <<now, known, database, op, touched, lost>>

-----------------------------------------------------------------------------
(* clean_single_torrent, for an announce, a scrape or the clean worker. *)

\* A scrape (return_udp_scrape_for_torrent, return_tcp_scrape_for_torrent) or the clean worker
\* finds the torrent.
Scrape ==
    /\ op.pc = "idle"
    /\ known
    /\ op' = [kind |-> "scrape", pc |-> "clean"]
    /\ UNCHANGED <<now, memory, database, history>>

\* The time since the torrent was cleaned or touched, as clean_single_torrent reads it.
Timedout == now - list.base

\* Mutant: a torrent that is empty is not worth keeping.
TorrentIsDead_Empty ==
    \/ Timedout > OT_TORRENT_TIMEOUT
    \/ Timedout > OT_PEER_TIMEOUT /\ list.peer_count = 0

\* The torrent has idled out or is not worth keeping.
TorrentIsDead ==
    \/ Timedout > OT_TORRENT_TIMEOUT
    \/ Timedout > OT_PEER_TIMEOUT /\ list.peer_count = 0 /\ list.down_count = 0

\* clean_single_torrent returns 1: a scrape and the clean worker drop the torrent, an announce
\* goes on with it.
CleanDead ==
    /\ op.pc = "clean"
    /\ TorrentIsDead
    /\ IF op.kind = "announce" THEN UNCHANGED <<memory, seen, dirty, lost>> ELSE RemoveTorrent
    /\ op' = AfterClean
    /\ UNCHANGED <<now, database, touched>>

\* clean_single_torrent returns 0 early: cleaned this minute, or nothing to clean.
CleanNothing ==
    /\ op.pc = "clean"
    /\ ~TorrentIsDead
    /\ Timedout = 0 \/ (Timedout > OT_PEER_TIMEOUT /\ list.peer_count = 0)
    /\ op' = AfterClean
    /\ UNCHANGED <<now, memory, database, history>>

\* Mutant: the time of the peers that stay is not advanced.
Evict_NoAging ==
    /\ op.pc = "clean"
    /\ ~TorrentIsDead
    /\ Timedout # 0
    /\ Timedout <= OT_PEER_TIMEOUT \/ list.peer_count # 0
    /\ LET overdue == Overdue(Timedout)
           stay == Here \ overdue
       IN
       /\ peers' = Restrict(peers, stay)
       /\ seen' = Restrict(seen, stay)
       /\ list' = [list EXCEPT !.peer_count = @ - Cardinality(overdue),
                               !.seed_count = @ - Cardinality(overdue \cap Seeders)]
       /\ op' = [op EXCEPT !.pc = IF overdue = {} THEN "rebase" ELSE "rebase_update"]
    /\ UNCHANGED <<now, known, database, touched, dirty, lost>>

\* The peers of the list grow older by the time since the last cleaning, those that are too old
\* are dropped and the counters follow.
Evict ==
    /\ op.pc = "clean"
    /\ ~TorrentIsDead
    /\ Timedout # 0
    /\ Timedout <= OT_PEER_TIMEOUT \/ list.peer_count # 0
    /\ LET timedout == IF Timedout > OT_PEER_TIMEOUT THEN OT_PEER_TIMEOUT ELSE Timedout
           overdue == Overdue(timedout)
           stay == Here \ overdue
       IN
       /\ peers' = [p \in stay |-> [peers[p] EXCEPT !.time = @ + timedout]]
       /\ seen' = Restrict(seen, stay)
       /\ list' = [list EXCEPT !.peer_count = @ - Cardinality(overdue),
                               !.seed_count = @ - Cardinality(overdue \cap Seeders)]
       /\ op' = [op EXCEPT !.pc = IF overdue = {} THEN "rebase" ELSE "rebase_update"]
    /\ UNCHANGED <<now, known, database, touched, dirty, lost>>

\* The base clean_single_torrent gives a torrent that has no peers.
Base_Empty == now - OT_PEER_TIMEOUT

\* The base is set from a second look at the clock.  If peers were dropped the counters are
\* stored.
Rebase ==
    /\ op.pc \in {"rebase", "rebase_update"}
    /\ list' = [list EXCEPT !.base = IF list.peer_count # 0 THEN now ELSE Base_Empty]
    /\ IF op.pc = "rebase" THEN UNCHANGED <<record, dirty, lost>> ELSE Update(list, 0)
    /\ op' = AfterClean
    /\ UNCHANGED <<now, known, copy, peers, seen, touched>>

-----------------------------------------------------------------------------

\* A minute ends.  The clean worker comes back to a torrent with peers within CleanGap minutes.
Tick ==
    /\ now < MaxTime
    /\ TicksInside \/ op.pc = "idle"
    /\ Here # {} => now - list.base < CleanGap
    /\ now' = now + 1
    /\ UNCHANGED <<memory, database, op, history>>

-----------------------------------------------------------------------------
(* Clients: the consumer of control messages and the command line. *)

\* What the list counts and the record does not, when a client takes n downloads from the record.
LostWith(n) == IF lost + n > list.down_count THEN list.down_count ELSE lost + n

\* A client's statement makes the record r of it: it changes counters behind the tracker's back.
Rewrite(r) ==
    /\ record' = r
    /\ dirty' = (dirty \/ <<r.seeds, r.peers>> # <<record.seeds, record.peers>>)
    /\ lost' = IF r.completed < record.completed THEN LostWith(record.completed - r.completed)
               ELSE lost
    /\ UNCHANGED <<now, memory, op, seen, touched>>

\* TorrentManager.remove: the record is deleted, whoever holds a copy of it.
Withdraw ==
    /\ record.published
    /\ Rewrite(NoRecord)
    /\ copy' = IF copy.of = "nothing" THEN copy ELSE [copy EXCEPT !.of = "a removed record"]

\* TorrentManager.add: a record with counters of zero, whatever the tracker has in memory.
Publish ==
    /\ ~record.published
    /\ Rewrite(NewRecord)
    /\ UNCHANGED copy

\* _save_seedbanks sets the list and nothing else.
EditSeedbanks ==
    /\ record.published
    /\ \E banks \in SUBSET Banks : Rewrite([record EXCEPT !.seedbanks = banks])
    /\ UNCHANGED copy

\* _handle_update_torrent finds the torrent.
ReadRecord ==
    /\ CopiesSaved
    /\ record.published
    /\ copy' = [of |-> "the record", seeds |-> record.seeds, peers |-> record.peers,
                completed |-> record.completed]
    /\ UNCHANGED <<now, memory, record, op, history>>

\* It saves the copy: the record is replaced, without its seed banks, and made again if there is
\* none; or the fields are set in the record that was read (TorrentRecords says why either); or
\* nothing happens, because the record that was read has gone.  A record that has no list of seed
\* banks any more is one with an empty list here.
SaveRecord ==
    /\ copy.of # "nothing"
    /\ \E banks \in {{}, record.seedbanks} :
         \/ /\ copy.of = "the record" \/ (~record.published /\ banks = {})
            /\ Rewrite([published |-> TRUE, seedbanks |-> banks, seeds |-> copy.seeds,
                        peers |-> copy.peers, completed |-> copy.completed])
         \/ copy.of = "a removed record" /\ Rewrite(record)
    /\ copy' = NoCopy

Edit == Withdraw \/ Publish \/ EditSeedbanks \/ ReadRecord \/ SaveRecord

-----------------------------------------------------------------------------

Clean == CleanDead \/ CleanNothing \/ Evict \/ Rebase

Next ==
    \/ \E p \in Peers, seeding, completed \in BOOLEAN : Announce(p, seeding, completed)
    \/ Reject \/ Find \/ Touch \/ AddSeedbanks \/ Insert
    \/ \E p \in Peers : Stop(p)
    \/ Scrape
    \/ Clean
    \/ Tick
    \/ Edit

Spec == Init /\ [][Next]_vars

-----------------------------------------------------------------------------

Times == (0 - OT_PEER_TIMEOUT)..MaxTime

Records == [published : BOOLEAN, seedbanks : SUBSET Banks, seeds : 0..Cardinality(Peers),
            peers : 0..Cardinality(Peers), completed : Nat]

Copies == [of : {"nothing", "the record", "a removed record"}, seeds : 0..Cardinality(Peers),
           peers : 0..Cardinality(Peers), completed : Nat]

TypeOK ==
    /\ now \in 0..MaxTime
    /\ known \in BOOLEAN
    /\ list \in [base : Times, seed_count : 0..Cardinality(Peers),
                 peer_count : 0..Cardinality(Peers), down_count : 0..MaxCompleted]
    /\ Here \subseteq Peers
    /\ peers \in [Here -> [seeding : BOOLEAN, completed : BOOLEAN,
                           time : 0..(OT_PEER_TIMEOUT - 1)]]
    /\ record \in Records
    /\ copy \in Copies
    /\ op = Idle \/ op.pc \in {"validate", "touch", "seedbanks", "insert", "clean", "rebase",
                               "rebase_update"}
    /\ seen \in [Here -> [heard : 0..now, counted : Nat]]
    /\ touched \in 0..now
    /\ dirty \in BOOLEAN
    /\ lost \in 0..list.down_count

\* The counters of the list, which scrapes and announces report and which no operation computes
\* from the list, are the numbers of its seeders and peers between any two operations, and
\* while one goes on, but for what it is about to change.
CountsAgree ==
    /\ list.peer_count = Cardinality(Here)
    /\ list.seed_count = Cardinality(Seeders)
    /\ ~known => Here = {}

\* Cleaning, also when it frees the whole torrent, drops no peer that was heard of in the last
\* OT_PEER_TIMEOUT minutes, however minutes end while operations run.
NoEarlyEviction ==
    [][op.pc # "idle" =>
         \A p \in Here \ DOMAIN peers' : now - seen[p].heard >= OT_PEER_TIMEOUT]_vars

\* If the clean worker keeps its pace and no minute ends inside an operation, a peer that fell
\* silent is handed out for OT_PEER_TIMEOUT minutes and the clean worker's delay, no longer.
\* Announces of other peers do not prolong its time.
StalePeersGone == \A p \in Here : now - seen[p].heard < OT_PEER_TIMEOUT + CleanGap

\* Between operations the record holds the seeds and the other peers of the swarm, unless peers
\* stopped, an update failed, a torrent with peers was freed or a client changed them (it saved a
\* copy the tracker had updated since, or withdrew the torrent) after they were last stored: the
\* next announce that reaches the record repairs it, whatever was done to it.
RecordFollows ==
    op.pc = "idle" /\ ~dirty =>
      record.seeds = list.seed_count /\ record.peers = list.peer_count - list.seed_count

\* A peer's completed download counts once while it is in the list, whatever events it sends, and
\* every download the list counts is in the record but for those whose update failed or found no
\* record, and those a client took back with an old copy or a withdrawal: these stay lost.
CompletedOnce ==
    /\ \A p \in Here : seen[p].counted <= 1
    /\ list.down_count <= record.completed + lost

\* A torrent with peers is freed only OT_TORRENT_TIMEOUT minutes after its last announce, one
\* that was downloaded is known for at least OT_TORRENT_TIMEOUT - OT_PEER_TIMEOUT minutes.
KeptWhileUseful ==
    [][known /\ ~known' =>
         /\ Here # {} => now - touched > OT_TORRENT_TIMEOUT
         /\ list.down_count > 0 => now - touched > OT_TORRENT_TIMEOUT - OT_PEER_TIMEOUT]_vars
=============================================================================
