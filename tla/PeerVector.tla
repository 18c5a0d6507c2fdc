----------------------------- MODULE PeerVector ------------------------------
(***************************************************************************)
(* src/src/opentracker/ot_vector.c and clean_single_bucket of ot_clean.c:  *)
(* how the peers of one torrent are stored.                                *)
(*                                                                         *)
(* A small torrent has one vector, an array sorted by address with room to *)
(* grow.  A large one has a vector of vectors, its buckets, and a peer is  *)
(* in the bucket its hash names.  The two look alike: a vector with less   *)
(* space than members is one of buckets.  Insertions double the space,     *)
(* removals halve it; only a cleaning changes the number of buckets, and   *)
(* moves every peer when it does.                                          *)
(*                                                                         *)
(* An action is one call under the lock of the torrent's bucket.  Any of   *)
(* the allocations that grow something may fail, those that shrink cannot. *)
(* What the operations rely on is module PeerSet, which this one implements.*)
(***************************************************************************)
EXTENDS Integers, Sequences, SequencesExt, FiniteSets

CONSTANTS
    Peers,                     \* addresses of peers, numbers in the order of memcmp
    Hash,                      \* vector_hash_peer before it is taken modulo the number of buckets
    OT_VECTOR_MIN_MEMBERS,     \* the space of a vector's first allocation
    OT_VECTOR_GROW_RATIO,      \* by which it grows,
    OT_VECTOR_SHRINK_RATIO,    \* by which it shrinks
    OT_VECTOR_SHRINK_THRESH,   \* and below which share of it
    OT_PEER_BUCKET_MINCOUNT,   \* the number of peers one vector is good for
    FewBuckets, ManyBuckets,   \* 16 and 64 in the code
    Limits,                    \* <<255, 512, 4096, 8192>> in the code
    AllocFails                 \* whether allocations fail

ASSUME PeersAssumption == Peers \subseteq Nat /\ IsFiniteSet(Peers) /\ Hash \in [Peers -> Nat]
ASSUME RatiosAssumption ==
    /\ OT_VECTOR_MIN_MEMBERS \in Nat \ {0}
    /\ OT_VECTOR_GROW_RATIO \in Nat \ {0, 1}
    /\ OT_VECTOR_SHRINK_RATIO \in Nat \ {0, 1}
    /\ OT_VECTOR_SHRINK_THRESH \in Nat
    /\ OT_VECTOR_GROW_RATIO <= OT_VECTOR_SHRINK_THRESH
    /\ 2 * OT_VECTOR_SHRINK_RATIO <= OT_VECTOR_SHRINK_THRESH
ASSUME BucketsAssumption ==
    /\ OT_PEER_BUCKET_MINCOUNT \in Nat
    /\ FewBuckets \in Nat \ {0, 1}
    /\ ManyBuckets \in Nat /\ FewBuckets < ManyBuckets
    /\ Limits \in [1..4 -> Nat]
    /\ \A i \in 1..3 : Limits[i] < Limits[i + 1]
ASSUME AllocAssumption == AllocFails \in BOOLEAN

VARIABLES
    list,     \* the ot_peerlist: peer_count and the vector peers
    answer    \* what the last call returned

vars == <<list, answer>>

\* An ot_vector; its size is the length of its data.
NoVector == [data |-> <<>>, space |-> 0]

Init ==
    /\ list = [peer_count |-> 0, peers |-> NoVector]
    /\ answer = "none"

-----------------------------------------------------------------------------
(* Where a peer is. *)

\* OT_PEERLIST_HASBUCKETS
HasBuckets(v) == Len(v.data) > v.space

\* The vectors of peers, one or several.
Buckets(v) == IF HasBuckets(v) THEN v.data ELSE <<v>>

\* vector_hash_peer, as the number of a bucket from 1.
Bucket(p, num_buckets) == (Hash[p] % num_buckets) + 1

\* The vector peer p belongs to, and the peers with that vector replaced by w.
Home(v, p) == IF HasBuckets(v) THEN v.data[Bucket(p, Len(v.data))] ELSE v
WithHome(v, p, w) ==
    IF HasBuckets(v) THEN [v EXCEPT !.data[Bucket(p, Len(v.data))] = w] ELSE w

Entries(v) == UNION {ToSet(Buckets(v)[b].data) : b \in DOMAIN Buckets(v)}
Known == {e.peer : e \in Entries(list.peers)}

\* The places of all arrays.
Places(v) == UNION {{b} \X DOMAIN Buckets(v)[b].data : b \in DOMAIN Buckets(v)}

\* The numbers of a set from the least to the greatest.
InOrder(S) == [k \in 1..Cardinality(S) |-> CHOOSE n \in S : Cardinality({m \in S : m < n}) = k - 1]

\* What a loop leaves; n is more rounds than it makes, and one after its end changes nothing.
Iterated(round, first, n) ==
    LET after[i \in 0..n] == IF i = 0 THEN first ELSE round[after[i - 1]] IN after[n]

\* A round of binary_search, which looks for p among interval entries from at on.
Look(p, data) ==
    [left \in [at : Nat, interval : Nat, exactmatch : BOOLEAN] |->
       LET lookat == left.at + left.interval \div 2 IN
       CASE left.interval = 0 -> left
         [] left.interval > 0 /\ data[lookat].peer = p ->
              [at |-> lookat, interval |-> 0, exactmatch |-> TRUE]
         [] left.interval > 0 /\ data[lookat].peer < p ->
              [left EXCEPT !.at = lookat + 1, !.interval = (@ - 1) \div 2]
         [] left.interval > 0 /\ data[lookat].peer > p -> [left EXCEPT !.interval = @ \div 2]]

\* binary_search: the place of p in the array, or the one where it would be.
binary_search(p, data) ==
    Iterated(Look(p, data), [at |-> 1, interval |-> Len(data), exactmatch |-> FALSE], Len(data))

-----------------------------------------------------------------------------
(* How the space of a vector changes. *)

\* The space of a full vector after its next insertion.
Grown(space) == IF space = 0 THEN OT_VECTOR_MIN_MEMBERS ELSE OT_VECTOR_GROW_RATIO * space

\* The condition of the loop in vector_fixup_peers.
TooLarge(size, space) ==
    /\ size * OT_VECTOR_SHRINK_THRESH < space
    /\ space >= OT_VECTOR_SHRINK_RATIO * OT_VECTOR_MIN_MEMBERS

Shrink(size) ==
    [space \in Nat |-> IF TooLarge(size, space) THEN space \div OT_VECTOR_SHRINK_RATIO ELSE space]

\* Mutant: the array shrinks once more when the loop has ended.
vector_fixup_peers_Once(v) ==
    IF v.data = <<>> THEN NoVector
    ELSE [v EXCEPT !.space = Iterated(Shrink(Len(v.data)), @, @) \div OT_VECTOR_SHRINK_RATIO]

\* vector_fixup_peers: an empty vector gives up its array, one that is nearly empty part of it.
vector_fixup_peers(v) ==
    IF v.data = <<>> THEN NoVector
    ELSE [v EXCEPT !.space = Iterated(Shrink(Len(v.data)), @, @)]

-----------------------------------------------------------------------------
(* Insertion and removal. *)

\* Mutant: the search covers the array, but a new entry is put at its end.
Announce_Append(p, seeds) ==
    LET v == Home(list.peers, p)
        match == binary_search(p, v.data)
        entry == [peer |-> p, seeding |-> seeds]
        full == Len(v.data) + 1 > v.space
    IN
    \/ /\ match.exactmatch
       /\ list' = [list EXCEPT !.peers = WithHome(@, p, [v EXCEPT !.data[match.at] = entry])]
       /\ answer' = "renewed"
    \/ /\ ~match.exactmatch
       /\ list' = [peer_count |-> list.peer_count + 1,
                   peers |-> WithHome(list.peers, p,
                               [data  |-> Append(v.data, entry),
                                space |-> IF full THEN Grown(v.space) ELSE v.space])]
       /\ answer' = "added"

\* vector_find_or_insert_peer and what its callers do with the place it returns: a peer that is
\* there is overwritten, a new one is copied to its place and counted.
Announce(p, seeds) ==
    LET v == Home(list.peers, p)
        match == binary_search(p, v.data)
        entry == [peer |-> p, seeding |-> seeds]
        full == Len(v.data) + 1 > v.space
    IN
    \/ /\ match.exactmatch
       /\ list' = [list EXCEPT !.peers = WithHome(@, p, [v EXCEPT !.data[match.at] = entry])]
       /\ answer' = "renewed"
    \/ /\ ~match.exactmatch
       /\ list' = [peer_count |-> list.peer_count + 1,
                   peers |-> WithHome(list.peers, p,
                               [data  |-> InsertAt(v.data, match.at, entry),
                                space |-> IF full THEN Grown(v.space) ELSE v.space])]
       /\ answer' = "added"
    \/ /\ ~match.exactmatch /\ full /\ AllocFails
       /\ answer' = "failed"
       /\ UNCHANGED list

\* vector_remove_peer, and the counter remove_peer_from_torrent keeps.
Stop(p) ==
    LET v == Home(list.peers, p)
        match == binary_search(p, v.data)
    IN
    \/ /\ ~match.exactmatch
       /\ answer' = "nobody"
       /\ UNCHANGED list
    \/ /\ match.exactmatch
       /\ answer' = IF v.data[match.at].seeding THEN "a seeder" ELSE "a peer"
       /\ list' = [peer_count |-> list.peer_count - 1,
                   peers |-> WithHome(list.peers, p, vector_fixup_peers(
                               [v EXCEPT !.data = RemoveAt(@, match.at)]))]

-----------------------------------------------------------------------------
(* Redistribution. *)

\* Mutant: a large torrent gets more buckets than it had, not a fixed number.
num_buckets_new_More(peer_count, num_buckets_old) ==
    CASE peer_count < Limits[1] -> 1
      [] peer_count > Limits[4] -> num_buckets_old * FewBuckets
      [] Limits[2] <= peer_count /\ peer_count < Limits[3] -> FewBuckets
      [] OTHER -> num_buckets_old

\* The number of buckets for so many peers; around a limit it stays what it was.
num_buckets_new(peer_count, num_buckets_old) ==
    CASE peer_count < Limits[1] -> 1
      [] peer_count > Limits[4] -> ManyBuckets
      [] Limits[2] <= peer_count /\ peer_count < Limits[3] -> FewBuckets
      [] Limits[1] <= peer_count /\ peer_count < Limits[2] ->
           IF num_buckets_old <= FewBuckets THEN num_buckets_old ELSE 1
      [] Limits[3] <= peer_count /\ peer_count <= Limits[4] ->
           IF peer_count < Limits[4] /\ num_buckets_old > 1 THEN num_buckets_old ELSE FewBuckets

\* The first space that is at least n, from space on.
Room(n, space) == Iterated([s \in Nat |-> IF s < n THEN OT_VECTOR_GROW_RATIO * s ELSE s], space, n)

\* What the new bucket b of so many gets, and how it is sorted.
Gets(l, b, num_new) == {e \in Entries(l.peers) : Bucket(e.peer, num_new) = b}
Sorted(S) == [k \in 1..Cardinality(S) |-> CHOOSE e \in S : e.peer = InOrder({f.peer : f \in S})[k]]

\* Mutant: the new buckets are sorted the other way round.
Redistributed_Reversed(l, num_new) ==
    LET space == Room(l.peer_count \div num_new, OT_VECTOR_MIN_MEMBERS)
        In(b) == Reverse(Sorted(Gets(l, b, num_new)))
        new == [b \in 1..num_new |-> [data |-> In(b), space |-> Room(Len(In(b)), space)]]
    IN [l EXCEPT !.peers = IF num_new > 1 THEN [data |-> new, space |-> 0] ELSE new[1]]

\* Mutant: the space allocated in advance is kept, however many peers a bucket gets.
Redistributed_Preallocated(l, num_new) ==
    LET space == Room(l.peer_count \div num_new, OT_VECTOR_MIN_MEMBERS)
        new == [b \in 1..num_new |-> [data |-> Sorted(Gets(l, b, num_new)), space |-> space]]
    IN [l EXCEPT !.peers = IF num_new > 1 THEN [data |-> new, space |-> 0] ELSE new[1]]

\* The list with every peer moved to its new bucket: space for an even distribution is allocated in
\* advance, a bucket that gets more grows, then each is sorted.
Redistributed(l, num_new) ==
    LET space == Room(l.peer_count \div num_new, OT_VECTOR_MIN_MEMBERS)
        In(b) == Sorted(Gets(l, b, num_new))
        new == [b \in 1..num_new |-> [data |-> In(b), space |-> Room(Len(In(b)), space)]]
    IN [l EXCEPT !.peers = IF num_new > 1 THEN [data |-> new, space |-> 0] ELSE new[1]]

\* What vector_redistribute_buckets may leave; when an allocation fails it leaves all as it was.
vector_redistribute_buckets(l) ==
    LET num_old == Len(Buckets(l.peers))
        num_new == num_buckets_new(l.peer_count, num_old)
    IN {IF num_new = num_old THEN l ELSE Redistributed(l, num_new)}
         \cup (IF AllocFails THEN {l} ELSE {})

\* clean_single_bucket and the lines after its call: the peers that stay close up, the array
\* shrinks if more left than stay.
clean_single_bucket(v, overdue) ==
    LET stay == {i \in DOMAIN v.data : v.data[i].peer \notin overdue}
        data == [k \in 1..Cardinality(stay) |-> v.data[InOrder(stay)[k]]]
        removed == Len(v.data) - Len(data)
    IN IF Len(data) < removed THEN vector_fixup_peers([v EXCEPT !.data = data])
                              ELSE [v EXCEPT !.data = data]

\* clean_single_torrent once it cleans: each bucket, then their number.
Clean(overdue) ==
    /\ overdue \subseteq Known
    /\ LET v == list.peers
           cleaned == [b \in DOMAIN Buckets(v) |-> clean_single_bucket(Buckets(v)[b], overdue)]
           peers == IF HasBuckets(v) THEN [v EXCEPT !.data = cleaned] ELSE cleaned[1]
           l == [peer_count |-> list.peer_count - (Cardinality(Places(v)) - Cardinality(Places(peers))),
                 peers |-> peers]
       IN IF l.peer_count > OT_PEER_BUCKET_MINCOUNT \/ HasBuckets(l.peers)
          THEN list' \in vector_redistribute_buckets(l)
          ELSE list' = l
    /\ answer' = "cleaned"

-----------------------------------------------------------------------------

Next ==
    \/ \E p \in Peers, seeds \in BOOLEAN : Announce(p, seeds)
    \/ \E p \in Peers : Stop(p)
    \/ \E overdue \in SUBSET Known : Clean(overdue)

Spec == Init /\ [][Next]_vars

-----------------------------------------------------------------------------

VectorType(v) ==
    /\ v.space \in Nat
    /\ \A i \in DOMAIN v.data : v.data[i] \in [peer : Peers, seeding : BOOLEAN]

TypeOK ==
    /\ list.peer_count \in 0..Cardinality(Peers)
    /\ list.peers.space \in Nat
    /\ Len(Buckets(list.peers)) \in {1, FewBuckets, ManyBuckets}
    /\ \A b \in DOMAIN Buckets(list.peers) : VectorType(Buckets(list.peers)[b])

\* Whatever sequence of insertions, removals and moves between buckets led there: every peer of the
\* list is found where the search looks for it, in the bucket of its hash, and is there only once;
\* and peer_count, which is kept apart from the vectors, is the number of them.
FoundAndCounted ==
    /\ \A e \in Entries(list.peers) :
         LET data == Home(list.peers, e.peer).data
             match == binary_search(e.peer, data)
         IN match.exactmatch /\ data[match.at] = e
    /\ list.peer_count = Cardinality(Entries(list.peers))
    /\ list.peer_count = Cardinality(Known)
    /\ list.peer_count = Cardinality(Places(list.peers))

\* No array holds more entries than were allocated for it; so the one vector of a small torrent is
\* never taken for a vector of buckets.
RoomForAll ==
    \A b \in DOMAIN Buckets(list.peers) :
       LET v == Buckets(list.peers)[b] IN Len(v.data) <= v.space

\* A redistribution settles: calling it again with the same peers changes nothing, so the number of
\* buckets does not alternate from one cleaning to the next.
BucketsSettle ==
    LET n == num_buckets_new(list.peer_count, Len(Buckets(list.peers)))
    IN num_buckets_new(list.peer_count, n) = n

\* A vector that has just grown does not shrink when a peer leaves, unless it is empty then, and
\* one that has just shrunk has room for the next peer: arrays are not copied at every call.
NoThrashing ==
    [][Len(Buckets(list'.peers)) = Len(Buckets(list.peers)) =>
         \A b \in DOMAIN Buckets(list.peers) :
           LET old == Buckets(list.peers)[b]
               new == Buckets(list'.peers)[b]
               size == Len(new.data)
           IN /\ new.space > old.space => size = 1 \/ ~TooLarge(size - 1, new.space)
              /\ new.space < old.space => size = 0 \/ size < new.space]_vars

-----------------------------------------------------------------------------

\* The peers as the set the operations on a torrent take them for.
Abstract == INSTANCE PeerSet WITH
    seeding <- [p \in Known |-> [peer |-> p, seeding |-> TRUE] \in Entries(list.peers)]

\* The calls do to the vectors what they promise for the set of peers: an announce adds or renews
\* its peer and no other, a stop removes it and reports whether it seeded, a cleaning drops the
\* overdue ones, and a failed allocation loses nobody.
ImplementsSet == Abstract!Spec

\* Every sequence of insertions, removals, cleanings and failed allocations leaves vectors in
\* which each peer is found, that have room for what they hold, and whose number is settled.
VectorsExact == TypeOK /\ FoundAndCounted /\ RoomForAll /\ BucketsSettle
=============================================================================
