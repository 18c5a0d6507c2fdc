---------------------------- MODULE TorrentStore ----------------------------
(***************************************************************************)
(* What the locks of ot_mutex.c promise the rest of the tracker: whatever  *)
(* a thread does in its section is done at once, when the section ends, as *)
(* if there were no other thread.  A section does to the torrents what its *)
(* job is, in its own bucket, and the counter the statistics report is     *)
(* their number.                                                           *)
(***************************************************************************)
EXTENDS Naturals, FiniteSets

CONSTANTS Threads, Torrents, Buckets, Bucket, NoBucket

VARIABLES
    store,   \* the torrents
    count,   \* their number
    doing,   \* what each thread is about to do
    at       \* and in which bucket

vars == <<store, count, doing, at>>

Jobs == {"announce", "scrape", "clean", "iterate"}

\* The torrents in a thread's bucket, and what its section can make of all of them.
Here(t) == {h \in Torrents : Bucket[h] = at[t]}
After(t) ==
    CASE doing[t] = "announce" -> {store} \cup {store \cup {h} : h \in Here(t)}
      [] doing[t] = "scrape"   -> {store} \cup {store \ {h} : h \in Here(t)}
      [] doing[t] = "clean"    -> {store \ idle : idle \in SUBSET Here(t)}
      [] doing[t] = "iterate"  -> {store}

Init ==
    /\ store = {} /\ count = 0
    /\ doing = [t \in Threads |-> "nothing"]
    /\ at = [t \in Threads |-> NoBucket]

\* A thread asks for a bucket.
Begin(t, job, b) ==
    /\ doing[t] = "nothing"
    /\ doing' = [doing EXCEPT ![t] = job]
    /\ at' = [at EXCEPT ![t] = b]
    /\ UNCHANGED <<store, count>>

\* Its section happens.
Happen(t) ==
    /\ doing[t] \in Jobs
    /\ store' \in After(t)
    /\ count' = Cardinality(store')
    /\ doing' = [doing EXCEPT ![t] = "nothing"]
    /\ at' = [at EXCEPT ![t] = NoBucket]

Next == \E t \in Threads : Happen(t) \/ \E job \in Jobs, b \in Buckets : Begin(t, job, b)

Spec == Init /\ [][Next]_vars
=============================================================================
