----------------------------- MODULE BucketLock -----------------------------
(***************************************************************************)
(* The bucket locks of src/src/opentracker/ot_mutex.c and the number of    *)
(* torrents they keep.                                                     *)
(*                                                                         *)
(* The tracker spreads its torrents over buckets.  A thread that works on  *)
(* a bucket holds it exclusively: mutex_bucket_lock appends the bucket to  *)
(* bucket_locklist, an array of OT_MAX_THREADS places that is shared under *)
(* bucket_mutex, and waits on the condition variable bucket_being_unlocked *)
(* while the bucket is in the list already or the list is full.            *)
(* mutex_bucket_unlock takes the bucket out of the list, adds the number   *)
(* of torrents the thread inserted minus those it removed to               *)
(* g_torrent_count and wakes every waiting thread.                         *)
(*                                                                         *)
(* The critical sections of bucket_mutex are atomic steps here.  What the  *)
(* threads do with a bucket they hold is modelled as far as the set of     *)
(* torrents in it is concerned.                                            *)
(***************************************************************************)
EXTENDS Integers, Sequences, SequencesExt, FiniteSets

CONSTANTS
    Threads,         \* the event loop, the UDP workers, the clean worker, the statistics worker
    Torrents,        \* info hashes
    Buckets,         \* OT_BUCKET_COUNT buckets
    Bucket,          \* Bucket[h]: the leading bits of the hash h
    NoBucket,        \* what an idle thread wants
    OT_MAX_THREADS   \* places in bucket_locklist

ASSUME ThreadsAssumption == IsFiniteSet(Threads)
ASSUME TorrentsAssumption == IsFiniteSet(Torrents)
ASSUME BucketAssumption == Bucket \in [Torrents -> Buckets] /\ NoBucket \notin Buckets
ASSUME MaxThreadsAssumption == OT_MAX_THREADS \in Nat \ {0}

VARIABLES
    bucket_locklist,  \* the buckets that are locked, in the order they were locked
    g_torrent_count,  \* the counter the statistics report
    torrents,         \* the torrents in all_torrents
    pc,               \* where each thread is in mutex_bucket_lock / mutex_bucket_unlock
    job,              \* what the thread wants the bucket for
    bucket,           \* the bucket a thread wants or holds
    delta,            \* its delta_torrentcount
    counted           \* history: the torrents g_torrent_count accounts for

vars == <<bucket_locklist, g_torrent_count, torrents, pc, job, bucket, delta, counted>>

(***************************************************************************)
(* What a thread does in a bucket: an announce inserts the torrent it is   *)
(* for if the bucket has no such torrent, a scrape may drop the torrent it *)
(* is for, the clean worker may drop any number of them, the iterators of  *)
(* the statistics change none.                                             *)
(***************************************************************************)
Jobs == {"announce", "scrape", "clean", "iterate"}

\* "locking": about to take bucket_mutex; "asleep": in pthread_cond_wait.
Places == {"idle", "locking", "asleep", "holding"}

In(S, b) == {h \in S : Bucket[h] = b}

-----------------------------------------------------------------------------

\* Mutant: the list is not searched for the bucket.
bucket_check_NoScan(b) == Len(bucket_locklist) # OT_MAX_THREADS

\* bucket_check: the two reasons for which a lock request has to wait.
bucket_check(b) ==
    /\ Len(bucket_locklist) # OT_MAX_THREADS
    /\ \A i \in 1..Len(bucket_locklist) : bucket_locklist[i] # b

\* bucket_push.
bucket_push(b) == Append(bucket_locklist, b)

\* Mutant: the last place is given up, as if locks were given back in reverse order.
bucket_remove_Last(b) == Front(bucket_locklist)

\* bucket_remove: drop the first entry for b, the later ones move up.
bucket_remove(b) == RemoveFirst(bucket_locklist, b)

\* Mutant: nobody is woken.
Woken_None == pc

\* Mutant: pthread_cond_signal, one sleeper is woken.
Woken_One ==
    IF \E t \in Threads : pc[t] = "asleep"
    THEN [pc EXCEPT ![CHOOSE t \in Threads : pc[t] = "asleep"] = "locking"]
    ELSE pc

\* pthread_cond_broadcast: everybody has to look again.
Woken == [t \in Threads |-> IF pc[t] = "asleep" THEN "locking" ELSE pc[t]]

-----------------------------------------------------------------------------

Init ==
    /\ bucket_locklist = <<>>
    /\ g_torrent_count = 0
    /\ torrents = {}
    /\ pc = [t \in Threads |-> "idle"]
    /\ job = [t \in Threads |-> "iterate"]
    /\ bucket = [t \in Threads |-> NoBucket]
    /\ delta = [t \in Threads |-> 0]
    /\ counted = {}

\* A thread calls mutex_bucket_lock (mutex_bucket_lock_by_hash for an announce or a scrape).
Request(t, j, b) ==
    /\ pc[t] = "idle"
    /\ pc' = [pc EXCEPT ![t] = "locking"]
    /\ job' = [job EXCEPT ![t] = j]
    /\ bucket' = [bucket EXCEPT ![t] = b]
    /\ UNCHANGED <<bucket_locklist, g_torrent_count, torrents, delta, counted>>

\* mutex_bucket_lock finds the bucket free and takes it.
Acquire(t) ==
    /\ pc[t] = "locking"
    /\ bucket_check(bucket[t])
    /\ bucket_locklist' = bucket_push(bucket[t])
    /\ pc' = [pc EXCEPT ![t] = "holding"]
    /\ UNCHANGED <<g_torrent_count, torrents, job, bucket, delta, counted>>

\* mutex_bucket_lock finds it taken, or the list full, and waits to be woken.
Wait(t) ==
    /\ pc[t] = "locking"
    /\ ~bucket_check(bucket[t])
    /\ pc' = [pc EXCEPT ![t] = "asleep"]
    /\ UNCHANGED <<bucket_locklist, g_torrent_count, torrents, job, bucket, delta, counted>>

\* Mutant: delta_torrentcount is not set for a new torrent.
InsertTorrent_NoDelta(t, h) ==
    /\ pc[t] = "holding"
    /\ job[t] = "announce"
    /\ delta[t] = 0
    /\ Bucket[h] = bucket[t]
    /\ h \notin torrents
    /\ torrents' = torrents \cup {h}
    /\ UNCHANGED <<bucket_locklist, g_torrent_count, pc, job, bucket, delta, counted>>

\* An announce for a torrent the bucket does not hold: one torrent more.
InsertTorrent(t, h) ==
    /\ pc[t] = "holding"
    /\ job[t] = "announce"
    /\ delta[t] = 0
    /\ Bucket[h] = bucket[t]
    /\ h \notin torrents
    /\ torrents' = torrents \cup {h}
    /\ delta' = [delta EXCEPT ![t] = 1]
    /\ UNCHANGED <<bucket_locklist, g_torrent_count, pc, job, bucket, counted>>

\* Mutant: a scrape that drops an idle torrent does not report it.
RemoveTorrent_ScrapeSilent(t, h) ==
    /\ pc[t] = "holding"
    /\ job[t] \in {"scrape", "clean"}
    /\ Bucket[h] = bucket[t]
    /\ h \in torrents
    /\ torrents' = torrents \ {h}
    /\ delta' = [delta EXCEPT ![t] = IF job[t] = "scrape" THEN @ ELSE @ - 1]
    /\ UNCHANGED <<bucket_locklist, g_torrent_count, pc, job, bucket, counted>>

\* clean_single_torrent found the torrent idle: a scrape drops it, or the clean worker.
RemoveTorrent(t, h) ==
    /\ pc[t] = "holding"
    /\ \/ job[t] = "scrape" /\ delta[t] = 0
       \/ job[t] = "clean"
    /\ Bucket[h] = bucket[t]
    /\ h \in torrents
    /\ torrents' = torrents \ {h}
    /\ delta' = [delta EXCEPT ![t] = @ - 1]
    /\ UNCHANGED <<bucket_locklist, g_torrent_count, pc, job, bucket, counted>>

\* mutex_bucket_unlock.  The thread's locals die with its section.
Unlock(t) ==
    /\ pc[t] = "holding"
    /\ bucket_locklist' = bucket_remove(bucket[t])
    /\ g_torrent_count' = g_torrent_count + delta[t]
    /\ pc' = [Woken EXCEPT ![t] = "idle"]
    /\ counted' = (counted \ In(counted, bucket[t])) \cup In(torrents, bucket[t])
    /\ job' = [job EXCEPT ![t] = "iterate"]
    /\ bucket' = [bucket EXCEPT ![t] = NoBucket]
    /\ delta' = [delta EXCEPT ![t] = 0]
    /\ UNCHANGED torrents

Next ==
    \E t \in Threads :
        \/ \E j \in Jobs, b \in Buckets : Request(t, j, b)
        \/ Acquire(t)
        \/ Wait(t)
        \/ \E h \in Torrents : InsertTorrent(t, h) \/ RemoveTorrent(t, h)
        \/ Unlock(t)

Spec == Init /\ [][Next]_vars

(***************************************************************************)
(* A thread that has called mutex_bucket_lock goes on when the scheduler   *)
(* gives it the mutex, and one that holds a bucket gives it back: no       *)
(* critical section waits for another bucket.  No thread need ever start a *)
(* new request.  The mutex is not assumed to be fair among the threads     *)
(* that are woken.                                                         *)
(***************************************************************************)
Fairness ==
    \A t \in Threads : WF_vars(Acquire(t)) /\ WF_vars(Wait(t)) /\ WF_vars(Unlock(t))

FairSpec == Spec /\ Fairness

-----------------------------------------------------------------------------

TypeOK ==
    /\ bucket_locklist \in Seq(Buckets)
    /\ g_torrent_count \in Nat
    /\ torrents \in SUBSET Torrents
    /\ counted \in SUBSET Torrents
    /\ pc \in [Threads -> Places]
    /\ job \in [Threads -> Jobs]
    /\ bucket \in [Threads -> Buckets \cup {NoBucket}]
    /\ delta \in [Threads -> Int]

Holding(t, b) == pc[t] = "holding" /\ bucket[t] = b

\* The point of mutex_bucket_lock: two threads never work on one bucket.
MutualExclusion ==
    \A t, u \in Threads :
        pc[t] = "holding" /\ pc[u] = "holding" /\ bucket[t] = bucket[u] => t = u

\* bucket_locklist holds the held buckets, each once, and fits its array.
LocklistExact ==
    /\ Len(bucket_locklist) <= OT_MAX_THREADS
    /\ \A i, j \in 1..Len(bucket_locklist) :
           bucket_locklist[i] = bucket_locklist[j] => i = j
    /\ \A b \in Buckets :
           (\E i \in 1..Len(bucket_locklist) : bucket_locklist[i] = b)
               <=> (\E t \in Threads : Holding(t, b))

\* Whatever threads come and go, the locks exclude and the list says who holds what: what
\* bucket_check finds in it is what keeps a thread out.
LocksExact == MutualExclusion /\ LocklistExact

\* No wakeup is lost: who sleeps has still a reason to (the loop around pthread_cond_wait).
SleepersBlocked ==
    \A t \in Threads : pc[t] = "asleep" => ~bucket_check(bucket[t])

\* The counter the statistics report is the number of torrents whenever no bucket is
\* held, however the sections that changed it and the unlocks interleaved.
TorrentCountExact ==
    (\A t \in Threads : pc[t] # "holding") => g_torrent_count = Cardinality(torrents)

\* Sections are atomic: as seen from the counter they happen one after the other, each when
\* its bucket is given back, and each does to its bucket what its job is and no more,
\* whichever of them overlap.
Abstract == INSTANCE TorrentStore WITH
    store <- counted, count <- g_torrent_count,
    doing <- [t \in Threads |-> IF pc[t] = "idle" THEN "nothing" ELSE job[t]],
    at <- bucket
SectionsAtomic == Abstract!Spec

\* While the list cannot overflow, a bucket that is free and asked for is taken: no set
\* of threads sleeps in front of an unlocked bucket.
BucketServed ==
    \A b \in Buckets :
        (\E t \in Threads : pc[t] \in {"locking", "asleep"} /\ bucket[t] = b)
            ~> (\E t \in Threads : Holding(t, b))
=============================================================================
