---------------------------- MODULE AnswersProofs ----------------------------
(***************************************************************************)
(* What the tracker answers an announce with, and where the peers it       *)
(* answers with are kept, for any number of peers, workers, clients and    *)
(* torrents.                                                               *)
(*                                                                         *)
(* PeerSelection: the inductive invariant gives the peers of all buckets   *)
(* one place each, in a row.  The walk of return_peers_selection is        *)
(* somewhere on that row, and goes on behind its end where it began.  It   *)
(* is ahead of all it has picked, and as the longest steps do not add up   *)
(* to more than the row is long, never a whole round ahead.                *)
(*                                                                         *)
(* UdpTracker: the inductive invariant ties what is in a worker's buffers  *)
(* to the datagrams that were sent.  The buffer is overlaid: the first     *)
(* bytes are of the last datagram, all that it was long enough for         *)
(* (Carried), and an id or a hash that is not put together of two was sent *)
(* by somebody (Received).  A connection id other than the magic number    *)
(* was told to the address it is for before a datagram could carry it.     *)
(*                                                                         *)
(* Fullscrape: the inductive invariant finds every byte that was printed   *)
(* at its place in a chunk, in what zlib holds or in compress_buffer, in   *)
(* that order (StoreOK), and says by where the worker is which torrents    *)
(* are listed (Listed).  That no buffer overflows follows from the         *)
(* watermark (RoomOK).                                                     *)
(*                                                                         *)
(* PeerVector: the inductive invariant is a sorted array with room for     *)
(* what it holds, or several of which each has the peers of its hash, and  *)
(* a counter of all their places (ListOK).  In a sorted array the binary   *)
(* search narrows down to the peer or to the place where it belongs        *)
(* (Narrowed), so every operation on one array is known by the entries it  *)
(* leaves there, and the list after it by the entries of all arrays.  That *)
(* is enough for a step of PeerSet, which the module refines.              *)
(***************************************************************************)
EXTENDS PeerSelection, UdpTracker, Fullscrape, PeerVector, SequenceLemmas

-----------------------------------------------------------------------------
(* The selection of peers: the invariant *)

\* The peers in the buckets before bucket b, and the place of the walk among all peers.
Before(b) == Cardinality({s \in Slots : s[1] < b})
Place(b, o) == Before(b) + o

\* How far the next n picks lead the walk at most.
Reach(n) == (n * shifted_step) \div shift

\* The places of the reply that are written, the downloading peers in front, the seeders at the
\* back, no peer twice.
Filled == (r - 1) + (wanted - r_end)
ReplyOK ==
    /\ r \in 1..(wanted + 1) /\ r_end \in 0..wanted /\ r <= r_end + 1
    /\ DOMAIN reply = (1..(r - 1)) \cup ((r_end + 1)..wanted)
    /\ \A i \in DOMAIN reply : reply[i] \in Slots /\ (reply[i] \in seeders <=> i >= r)
    /\ \A i, k \in DOMAIN reply : reply[i] = reply[k] => i = k

\* return_peers_all has written the peers before the one it is at.
Passed == {s \in Slots : s[1] < bucket_index \/ (s[1] = bucket_index /\ s[2] < bucket_offset)}
AllOK ==
    /\ wanted = peer_count
    /\ bucket_index \in 1..(num_buckets + 1)
    /\ bucket_offset \in 0..(IF bucket_index > num_buckets THEN 0 ELSE size[bucket_index])
    /\ Filled = Cardinality(Passed)
    /\ \A i \in DOMAIN reply : reply[i] \in Passed

\* return_peers_selection: a step is a whole peer at least, and all of them no more than the peers.
Scaling == bucket_index = 1 /\ bucket_offset = 0 /\ amount = wanted /\ Filled = 0
               /\ shifted_step = peer_count * shift /\ wanted \in 1..peer_count
StepsOK == shifted_step >= shift /\ Reach(wanted) <= peer_count

\* The walk began at some place and has not passed it again: on its second lap, at the latest,
\* it stays behind the first pick.  From there each peer has one place, which is not behind the
\* walk's if the peer was picked.
From(start, s) == IF Place(s[1], s[2]) > start THEN Place(s[1], s[2])
                                               ELSE Place(s[1], s[2]) + peer_count
WalkFrom(start, now) ==
    /\ now \in {Place(bucket_index, bucket_offset), Place(bucket_index, bucket_offset) + peer_count}
    /\ start <= now /\ now <= start + Reach(wanted) - Reach(amount)
    /\ pc = "walk" => start < now
    /\ \A i \in DOMAIN reply :
         IF pc = "walk" THEN From(start, reply[i]) < now ELSE From(start, reply[i]) <= now
WalkOK ==
    /\ wanted \in 1..peer_count /\ bucket_index \in 1..num_buckets /\ bucket_offset \in Nat
    /\ Filled = wanted - amount - (IF pc = "walk" THEN 1 ELSE 0)
    /\ \E start \in 0..(peer_count - 1) : \E now \in Nat : WalkFrom(start, now)

SelectionIInv ==
    /\ size \in Layouts
    /\ seeders \subseteq Slots
    /\ wanted \in 0..peer_count
    /\ pc \in {"all", "scale", "pick", "walk", "done"}
    /\ amount \in 0..wanted
    /\ shift \in Nat \ {0}
    /\ shifted_step \in 0..(2 * MAXPRECBIT - 1)
    /\ ReplyOK
    /\ pc = "all" => AllOK
    /\ pc = "scale" => Scaling
    /\ pc \in {"pick", "walk"} => StepsOK /\ WalkOK
    /\ pc = "done" =>
         /\ Filled = wanted
         /\ bucket_index \in 1..(num_buckets + 1) /\ bucket_offset \in 0..(2 * peer_count)

-----------------------------------------------------------------------------
(* Buckets, places and steps *)

LEMMA SlotFacts ==
    ASSUME size \in Layouts
    PROVE  /\ size \in Seq(Nat) /\ num_buckets \in Nat \ {0}
           /\ \A b \in 1..num_buckets : size[b] \in Nat
           /\ IsFiniteSet(Slots) /\ peer_count \in Nat /\ peer_count < 2 * MAXPRECBIT
           /\ \A b \in 1..num_buckets, o \in Nat : o < size[b] <=> <<b, o>> \in Slots
           /\ \A s \in Slots : /\ s[1] \in 1..num_buckets /\ s[2] \in Nat
                               /\ s[2] < size[s[1]] /\ s = <<s[1], s[2]>>
<1>1. size \in Seq(Nat) /\ num_buckets \in Nat \ {0} /\ \A b \in 1..num_buckets : size[b] \in Nat
  BY LayoutsAssumption DEF num_buckets
<1>2. \A b \in 1..num_buckets, o \in Nat : o < size[b] <=> <<b, o>> \in Slots
  BY <1>1 DEF Slots, SlotsOf, num_buckets
<1>3. \A s \in Slots : /\ s[1] \in 1..num_buckets /\ s[2] \in Nat
                       /\ s[2] < size[s[1]] /\ s = <<s[1], s[2]>>
  BY <1>1 DEF Slots, SlotsOf, num_buckets
<1>4. IsFiniteSet(Slots)
  <2> DEFINE BucketSlots(b) == {b} \X (0..(size[b] - 1))
             S == {BucketSlots(b) : b \in 1..num_buckets}
  <2>1. IsFiniteSet(1..num_buckets)
    BY <1>1, FS_Interval
  <2>2. IsFiniteSet(S)
    <3> DEFINE f == [b \in 1..num_buckets |-> BucketSlots(b)]
    <3>1. f \in Surjection(1..num_buckets, S)
      BY Zenon DEF Surjection
    <3>. QED
      BY <2>1, <3>1, FS_Surjection
  <2>3. \A T \in S : IsFiniteSet(T)
    <3>1. ASSUME NEW b \in 1..num_buckets
          PROVE  IsFiniteSet(BucketSlots(b))
      <4>1. IsFiniteSet({b})
        BY FS_Singleton
      <4>2. IsFiniteSet(0..(size[b] - 1))
        <5>1. size[b] - 1 \in Int
          BY <1>1
        <5>. QED
          BY <5>1, FS_Interval
      <4>. QED
        BY <4>1, <4>2, FS_Product
    <3>. QED
      BY <3>1
  <2>4. Slots = UNION S
    BY DEF Slots, SlotsOf, num_buckets
  <2>. HIDE DEF S
  <2>. QED
    BY <2>2, <2>3, <2>4, FS_UNION
<1>5. peer_count \in Nat /\ peer_count < 2 * MAXPRECBIT
  BY <1>4, FS_CardinalityType, PrecisionAssumption DEF peer_count, Slots
<1>. QED
  BY <1>1, <1>2, <1>3, <1>4, <1>5

\* The places of the buckets follow one another, and every peer has a place of its own.
LEMMA PlaceFacts ==
    ASSUME size \in Layouts
    PROVE  /\ Before(1) = 0
           /\ \A b \in 1..num_buckets :
                 /\ Before(b) \in Nat
                 /\ Before(b + 1) = Before(b) + size[b]
                 /\ Before(b) + size[b] <= peer_count
           /\ Before(num_buckets) + size[num_buckets] = peer_count
           /\ \A s \in Slots : Place(s[1], s[2]) \in 0..(peer_count - 1)
           /\ \A s, t \in Slots : Place(s[1], s[2]) = Place(t[1], t[2]) => s = t
<1> DEFINE Upto(b) == {s \in Slots : s[1] < b}
<1>1. \A b \in Int : /\ IsFiniteSet(Upto(b)) /\ Before(b) \in Nat /\ Before(b) <= peer_count
                     /\ Before(b) = Cardinality(Upto(b))
  <2>1. ASSUME NEW b \in Int
        PROVE  /\ IsFiniteSet(Upto(b)) /\ Cardinality(Upto(b)) \in Nat
               /\ Cardinality(Upto(b)) <= Cardinality(Slots)
    <3>1. Upto(b) \in SUBSET Slots
      OBVIOUS
    <3>. QED
      BY <3>1, SlotFacts, FS_Subset, FS_CardinalityType
  <2>. QED
    BY <2>1 DEF Before, peer_count
<1>2. Before(1) = 0
  <2>1. Upto(1) = {}
    BY SlotFacts
  <2>. QED
    BY <2>1, <1>1, FS_EmptySet
<1>3. \A b \in 1..num_buckets : Before(b + 1) = Before(b) + size[b]
  <2>1. ASSUME NEW b \in 1..num_buckets
        PROVE  Before(b + 1) = Before(b) + size[b]
    <3> DEFINE B == {b} \X (0..(size[b] - 1))
    <3>1. size[b] \in Nat /\ b \in Int /\ b + 1 \in Int
      BY SlotFacts
    <3>2. Upto(b + 1) = Upto(b) \cup B
      <4>1. ASSUME NEW s
            PROVE  s \in B <=> s \in Slots /\ s[1] = b
        BY <3>1, SlotFacts
      <4>2. \A s \in Slots : s[1] < b + 1 <=> s[1] < b \/ s[1] = b
        BY <3>1, SlotFacts
      <4>. HIDE DEF B
      <4>. QED
        BY <4>1, <4>2
    <3>3. Upto(b) \cap B = {}
      BY <3>1
    <3>4. IsFiniteSet(B) /\ Cardinality(B) = size[b]
      <4>1. IsFiniteSet({b}) /\ Cardinality({b}) = 1
        BY FS_Singleton
      <4>2. IsFiniteSet(0..(size[b] - 1)) /\ Cardinality(0..(size[b] - 1)) = size[b]
        <5>1. size[b] - 1 \in Int /\ 0 \in Int
          BY <3>1
        <5>2. /\ IsFiniteSet(0..(size[b] - 1))
              /\ Cardinality(0..(size[b] - 1))
                   = IF 0 > size[b] - 1 THEN 0 ELSE (size[b] - 1) - 0 + 1
          BY <5>1, FS_Interval, ZenonT(30)
        <5>. QED
          BY <5>2, <3>1
      <4>3. /\ IsFiniteSet(B)
            /\ Cardinality(B) = Cardinality({b}) * Cardinality(0..(size[b] - 1))
        BY <4>1, <4>2, FS_Product, ZenonT(30)
      <4>4. Cardinality(B) = 1 * size[b]
        BY <4>1, <4>2, <4>3, ZenonT(30)
      <4>. QED
        BY <4>3, <4>4, <3>1
    <3>5. Cardinality(Upto(b) \cap B) = 0
      BY <3>3, FS_EmptySet
    <3>6. IsFiniteSet(Upto(b)) /\ Before(b) = Cardinality(Upto(b))
          /\ Before(b + 1) = Cardinality(Upto(b + 1)) /\ Before(b) \in Nat
      BY <1>1, <3>1
    <3>. HIDE DEF B, Upto
    <3>7. Cardinality(Upto(b) \cup B)
            = Cardinality(Upto(b)) + Cardinality(B) - Cardinality(Upto(b) \cap B)
      BY <3>4, <3>6, FS_Union
    <3>8. Before(b + 1) = Cardinality(Upto(b) \cup B)
      BY <3>2, <3>6, Zenon
    <3>9. Before(b + 1) = Before(b) + size[b] - 0
      BY <3>4, <3>5, <3>6, <3>7, <3>8, ZenonT(30)
    <3>. QED
      BY <3>1, <3>6, <3>9
  <2>. QED
    BY <2>1
<1>4. Before(num_buckets + 1) = peer_count
  <2>1. Upto(num_buckets + 1) = Slots
    BY SlotFacts
  <2>2. num_buckets + 1 \in Int
    BY SlotFacts
  <2>. QED
    BY <2>1, <2>2, <1>1 DEF peer_count
<1>5. \A b, c \in Int : b <= c => Before(b) <= Before(c)
  <2>1. ASSUME NEW b \in Int, NEW c \in Int, b <= c
        PROVE  Cardinality(Upto(b)) <= Cardinality(Upto(c))
    <3>1. Upto(b) \in SUBSET Upto(c)
      BY <2>1, SlotFacts
    <3>. QED
      BY <3>1, <1>1, FS_Subset
  <2>. QED
    BY <2>1, <1>1
<1>. HIDE DEF Upto
<1>6. \A b \in 1..num_buckets : /\ Before(b) \in Nat
                                /\ Before(b + 1) = Before(b) + size[b]
                                /\ Before(b) + size[b] <= peer_count
                                /\ b \in Int /\ b + 1 \in Int /\ size[b] \in Nat
  BY <1>1, <1>3, SlotFacts
<1>7. Before(num_buckets) + size[num_buckets] = peer_count
  BY <1>3, <1>4, SlotFacts
<1>8. \A s \in Slots : Place(s[1], s[2]) \in 0..(peer_count - 1)
  <2>1. ASSUME NEW s \in Slots
        PROVE  Place(s[1], s[2]) \in 0..(peer_count - 1)
    <3>1. s[1] \in 1..num_buckets /\ s[2] \in Nat /\ s[2] < size[s[1]] /\ peer_count \in Nat
      BY SlotFacts
    <3>. QED
      BY <3>1, <1>6 DEF Place
  <2>. QED
    BY <2>1
<1>9. \A s, t \in Slots : s[1] < t[1] => Place(s[1], s[2]) < Place(t[1], t[2])
  <2>1. ASSUME NEW s \in Slots, NEW t \in Slots, s[1] < t[1]
        PROVE  Place(s[1], s[2]) < Place(t[1], t[2])
    <3>1. /\ s[1] \in 1..num_buckets /\ s[2] \in Nat /\ s[2] < size[s[1]]
          /\ t[1] \in 1..num_buckets /\ t[2] \in Nat
      BY SlotFacts
    <3>2. Before(s[1] + 1) <= Before(t[1])
      BY <2>1, <3>1, <1>5, <1>6
    <3>. QED
      BY <3>1, <3>2, <1>6 DEF Place
  <2>. QED
    BY <2>1
<1>10. \A s, t \in Slots : Place(s[1], s[2]) = Place(t[1], t[2]) => s = t
  <2>1. ASSUME NEW s \in Slots, NEW t \in Slots, Place(s[1], s[2]) = Place(t[1], t[2])
        PROVE  s = t
    <3>1. /\ s[1] \in 1..num_buckets /\ s[2] \in Nat /\ s = <<s[1], s[2]>>
          /\ t[1] \in 1..num_buckets /\ t[2] \in Nat /\ t = <<t[1], t[2]>>
      BY SlotFacts
    <3>2. Place(s[1], s[2]) \in Int /\ Place(t[1], t[2]) \in Int
      BY <1>8
    <3>3. s[1] = t[1]
      BY <2>1, <1>9, <3>1, <3>2
    <3>4. s[2] = t[2]
      BY <2>1, <1>6, <3>1, <3>3 DEF Place
    <3>. QED
      BY <3>1, <3>3, <3>4
  <2>. QED
    BY <2>1
<1>. QED
  BY <1>2, <1>6, <1>7, <1>8, <1>10

\* The bucket after the last one is the first.
LEMMA NextBucketFacts ==
    ASSUME num_buckets \in Nat \ {0}, NEW b \in 1..num_buckets
    PROVE  /\ b < num_buckets => NextBucket(b) = b + 1
           /\ b = num_buckets => NextBucket(b) = 1
<1>1. b < num_buckets => b % num_buckets = b
  OBVIOUS
<1>2. b = num_buckets => b % num_buckets = 0
  OBVIOUS
<1>. QED
  BY <1>1, <1>2 DEF NextBucket

-----------------------------------------------------------------------------
(* Fixed-point arithmetic *)

LEMMA QuotientLess ==
    ASSUME NEW x \in Nat, NEW y \in Nat, NEW s \in Nat \ {0}, x + s <= y
    PROVE  x \div s < y \div s
OBVIOUS

LEMMA QuotientMost ==
    ASSUME NEW x \in Nat, NEW q \in Nat, NEW s \in Nat \ {0}, x <= q * s
    PROVE  x \div s <= q
OBVIOUS

LEMMA QuotientLeast ==
    ASSUME NEW x \in Nat, NEW q \in Nat, NEW s \in Nat \ {0}, q * s <= x
    PROVE  q <= x \div s
OBVIOUS

\* How far the picks lead the walk: each a peer at least.
LEMMA ReachFacts ==
    ASSUME shift \in Nat \ {0}, shifted_step \in Nat
    PROVE  /\ Reach(0) = 0
           /\ \A n \in Nat : Reach(n) \in Nat
           /\ shifted_step >= shift => \A n \in Nat : Reach(n) < Reach(n + 1)
<1>1. \A n \in Nat : n * shifted_step \in Nat
  OBVIOUS
<1>2. Reach(0) = 0
  BY QuotientMost, Quotient DEF Reach
<1>3. \A n \in Nat : Reach(n) \in Nat
  BY <1>1, Quotient DEF Reach
<1>4. ASSUME shifted_step >= shift, NEW n \in Nat
      PROVE  Reach(n) < Reach(n + 1)
  <2>1. (n + 1) * shifted_step = n * shifted_step + shifted_step
    OBVIOUS
  <2>2. n * shifted_step + shift <= (n + 1) * shifted_step
    BY <2>1, <1>1, <1>4
  <2>3. n + 1 \in Nat
    OBVIOUS
  <2>. QED
    BY <1>1, <2>2, <2>3, QuotientLess DEF Reach
<1>. QED
  BY <1>2, <1>3, <1>4

-----------------------------------------------------------------------------
(* What the steps leave alone *)

LEMMA SameSize ==
    ASSUME UNCHANGED size
    PROVE  /\ num_buckets' = num_buckets /\ Slots' = Slots /\ peer_count' = peer_count
           /\ \A b : (Before(b))' = Before(b)
           /\ \A b, o : (Place(b, o))' = Place(b, o)
           /\ \A start, s : (From(start, s))' = From(start, s)
<1>1. num_buckets' = num_buckets /\ Slots' = Slots
  BY DEF num_buckets, Slots
<1>2. peer_count' = peer_count
  BY <1>1 DEF peer_count
<1>3. \A b : (Before(b))' = Before(b)
  BY <1>1 DEF Before
<1>4. \A b, o : (Place(b, o))' = Place(b, o)
  BY <1>3 DEF Place
<1>5. \A start, s : (From(start, s))' = From(start, s)
  BY <1>2, <1>4 DEF From
<1>. QED
  BY <1>1, <1>2, <1>3, <1>4, <1>5

LEMMA SameReach ==
    ASSUME UNCHANGED <<shift, shifted_step>>
    PROVE  \A n : (Reach(n))' = Reach(n)
BY DEF Reach

\* Writing one more peer.
LEMMA WriteStep ==
    ASSUME NEW peer \in Slots, Write(peer), ReplyOK, wanted \in Nat, Filled < wanted,
           UNCHANGED <<size, seeders, wanted>>,
           \A i \in DOMAIN reply : reply[i] # peer
    PROVE  /\ ReplyOK' /\ Filled' = Filled + 1
           /\ \A i \in DOMAIN reply' :
                 reply'[i] = peer \/ (i \in DOMAIN reply /\ reply'[i] = reply[i])
<1> DEFINE there == IF peer \in seeders THEN r_end ELSE r
<1>1. /\ r \in 1..(wanted + 1) /\ r_end \in 0..wanted /\ r <= r_end
      /\ DOMAIN reply = (1..(r - 1)) \cup ((r_end + 1)..wanted)
      /\ \A i \in DOMAIN reply : reply[i] \in Slots /\ (reply[i] \in seeders <=> i >= r)
      /\ \A i, k \in DOMAIN reply : reply[i] = reply[k] => i = k
  BY DEF ReplyOK, Filled
<1>2. /\ reply' = [i \in DOMAIN reply \cup {there} |-> IF i = there THEN peer ELSE reply[i]]
      /\ peer \in seeders => r_end' = r_end - 1 /\ r' = r
      /\ peer \notin seeders => r' = r + 1 /\ r_end' = r_end
  BY DEF Write
<1>3. there \in Int /\ there \notin DOMAIN reply /\ r <= there /\ there <= r_end
  BY <1>1
<1>4. /\ DOMAIN reply' = DOMAIN reply \cup {there}
      /\ reply'[there] = peer
      /\ \A i \in DOMAIN reply : reply'[i] = reply[i]
  BY <1>2, <1>3
<1>5. Filled' = Filled + 1 /\ r' \in 1..(wanted + 1) /\ r_end' \in 0..wanted /\ r' <= r_end' + 1
  BY <1>1, <1>2 DEF Filled
<1>6. DOMAIN reply' = (1..(r' - 1)) \cup ((r_end' + 1)..wanted)
  <2>1. CASE peer \in seeders
    BY <2>1, <1>1, <1>2, <1>4
  <2>2. CASE peer \notin seeders
    BY <2>2, <1>1, <1>2, <1>4
  <2>. QED
    BY <2>1, <2>2
<1>7. Slots' = Slots /\ seeders' = seeders /\ wanted' = wanted
  BY SameSize
<1>8. \A i \in DOMAIN reply : i \in Int /\ (i >= r <=> i >= r')
  BY <1>1, <1>2, <1>3
<1>9. there >= r' <=> peer \in seeders
  BY <1>1, <1>2
<1>. HIDE DEF there
<1>10. \A i \in DOMAIN reply' : reply'[i] \in Slots' /\ (reply'[i] \in seeders' <=> i >= r')
  BY <1>1, <1>4, <1>7, <1>8, <1>9
<1>11. \A i, k \in DOMAIN reply' : reply'[i] = reply'[k] => i = k
  BY <1>1, <1>3, <1>4
<1>12. ReplyOK'
  BY <1>5, <1>6, <1>7, <1>10, <1>11 DEF ReplyOK
<1>. QED
  BY <1>4, <1>5, <1>12

-----------------------------------------------------------------------------
(* The steps keep the invariant *)

LEMMA SelectionInitially == SelectionInit => SelectionIInv
<1> SUFFICES ASSUME SelectionInit
             PROVE  SelectionIInv
  OBVIOUS
<1>1. /\ size \in Layouts /\ seeders \subseteq Slots /\ amount = wanted
      /\ shift = 1 /\ shifted_step = peer_count /\ bucket_index = 1 /\ bucket_offset = 0
      /\ DOMAIN reply = {} /\ r = 1 /\ r_end = wanted
  BY DEF SelectionInit
<1>2. peer_count \in Nat /\ peer_count < 2 * MAXPRECBIT /\ num_buckets \in Nat \ {0}
      /\ size[1] \in Nat
  BY <1>1, SlotFacts
<1>3. wanted \in 0..peer_count
  BY <1>2, AmountAssumption DEF SelectionInit
<1>4. /\ pc \in {"all", "scale", "done"}
      /\ pc = "done" => wanted = 0
      /\ pc = "all" => wanted = peer_count
      /\ pc = "scale" => wanted # 0
  BY DEF SelectionInit
<1>5. ReplyOK
  BY <1>1, <1>3, <1>2 DEF ReplyOK
<1>6. Filled = 0
  BY <1>1, <1>2, <1>3 DEF Filled
<1>7. pc = "all" => AllOK
  <2>1. Passed = {}
    BY <1>1, SlotFacts DEF Passed
  <2>2. Cardinality(Passed) = 0
    BY <2>1, FS_EmptySet
  <2>. QED
    BY <1>1, <1>2, <1>4, <1>6, <2>2 DEF AllOK
<1>8. pc = "scale" => Scaling
  BY <1>1, <1>2, <1>3, <1>4, <1>6 DEF Scaling
<1>9. shifted_step \in 0..(2 * MAXPRECBIT - 1)
  BY <1>1, <1>2, PrecisionAssumption
<1>. QED
  BY <1>1, <1>2, <1>3, <1>4, <1>5, <1>6, <1>7, <1>8, <1>9 DEF SelectionIInv

LEMMA AllKeeps == SelectionIInv /\ All => SelectionIInv'
<1> SUFFICES ASSUME SelectionIInv, All
             PROVE  SelectionIInv'
  OBVIOUS
<1>1. /\ size \in Layouts /\ seeders \subseteq Slots /\ wanted \in 0..peer_count /\ amount \in 0..wanted
      /\ shift \in Nat \ {0} /\ shifted_step \in 0..(2 * MAXPRECBIT - 1) /\ ReplyOK /\ AllOK
  BY DEF SelectionIInv, All
<1>2. /\ wanted = peer_count /\ bucket_index \in 1..num_buckets
      /\ bucket_offset \in 0..size[bucket_index] /\ Filled = Cardinality(Passed)
      /\ \A i \in DOMAIN reply : reply[i] \in Passed
  BY <1>1, SlotFacts DEF AllOK, All
<1>3. /\ size' = size /\ seeders' = seeders /\ wanted' = wanted /\ pc' = "all" /\ amount' = amount
      /\ shift' = shift /\ shifted_step' = shifted_step
  BY DEF All
<1>4. Slots' = Slots /\ num_buckets' = num_buckets /\ peer_count' = peer_count
  BY <1>3, SameSize
<1>5. /\ IsFiniteSet(Slots) /\ num_buckets \in Nat \ {0} /\ peer_count \in Nat
      /\ \A b \in 1..num_buckets : size[b] \in Nat
  BY <1>1, SlotFacts
<1>6. ReplyOK' /\ AllOK'
  <2>1. CASE bucket_offset < size[bucket_index]
    <3> DEFINE peer == <<bucket_index, bucket_offset>>
    <3>1. Write(peer) /\ bucket_offset' = bucket_offset + 1 /\ bucket_index' = bucket_index
      BY <2>1 DEF All
    <3>2. peer \in Slots /\ peer \notin Passed
      BY <2>1, <1>1, <1>2, SlotFacts DEF Passed
    <3>3. Passed' = Passed \cup {peer}
      <4>1. \A s \in Slots : s = peer <=> s[1] = bucket_index /\ s[2] = bucket_offset
        BY <1>1, SlotFacts
      <4>2. \A s \in Slots : s[2] \in Nat
        BY <1>1, SlotFacts
      <4>3. \A s \in Slots : s[2] < bucket_offset + 1 <=> s[2] < bucket_offset \/ s[2] = bucket_offset
        BY <4>2, <1>2
      <4>4. \A s : s \in Passed' <=> s \in Slots /\ (s[1] < bucket_index
                     \/ (s[1] = bucket_index /\ s[2] < bucket_offset + 1))
        BY <1>4, <3>1 DEF Passed
      <4>5. \A s : s \in Passed <=> s \in Slots /\ (s[1] < bucket_index
                     \/ (s[1] = bucket_index /\ s[2] < bucket_offset))
        BY DEF Passed
      <4>. HIDE DEF peer
      <4>. QED
        BY <3>2, <4>1, <4>3, <4>4, <4>5
    <3>. HIDE DEF peer
    <3>4. IsFiniteSet(Passed) /\ Cardinality(Passed) \in Nat
          /\ Cardinality(Passed \cup {peer}) = Cardinality(Passed) + 1
          /\ Cardinality(Passed \cup {peer}) <= Cardinality(Slots)
      <4>1. Passed \in SUBSET Slots /\ Passed \cup {peer} \in SUBSET Slots
        BY <3>2 DEF Passed
      <4>. QED
        BY <4>1, <1>5, <3>2, FS_Subset, FS_AddElement, FS_CardinalityType
    <3>5. Filled < wanted
      BY <3>4, <1>2, <1>5 DEF peer_count
    <3>6. wanted \in Nat /\ \A i \in DOMAIN reply : reply[i] # peer
      BY <1>2, <1>5, <3>2
    <3>7. /\ ReplyOK' /\ Filled' = Filled + 1
          /\ \A i \in DOMAIN reply' :
                reply'[i] = peer \/ (i \in DOMAIN reply /\ reply'[i] = reply[i])
      BY <1>1, <1>3, <3>1, <3>2, <3>5, <3>6, WriteStep
    <3>8. \A i \in DOMAIN reply' : reply'[i] \in Passed'
      BY <3>7, <3>3, <1>2
    <3>9. Filled' = Cardinality(Passed)'
      BY <3>7, <3>3, <3>4, <1>2
    <3>10. bucket_index' \in 1..(num_buckets' + 1)
           /\ bucket_offset' \in 0..(IF bucket_index' > num_buckets' THEN 0 ELSE size'[bucket_index'])
      BY <3>1, <2>1, <1>2, <1>3, <1>4, <1>5
    <3>. QED
      BY <3>7, <3>8, <3>9, <3>10, <1>2, <1>3, <1>4 DEF AllOK
  <2>2. CASE ~(bucket_offset < size[bucket_index])
    <3>1. bucket_index' = bucket_index + 1 /\ bucket_offset' = 0
          /\ reply' = reply /\ r' = r /\ r_end' = r_end
      BY <2>2 DEF All, written
    <3>2. ReplyOK' /\ Filled' = Filled
      BY <3>1, <1>1, <1>3, <1>4 DEF ReplyOK, Filled
    <3>3. Passed' = Passed
      <4>1. ASSUME NEW s \in Slots
            PROVE  (s[1] < bucket_index + 1 \/ (s[1] = bucket_index + 1 /\ s[2] < 0))
                     <=> (s[1] < bucket_index \/ (s[1] = bucket_index /\ s[2] < bucket_offset))
        <5>1. s[1] \in 1..num_buckets /\ s[2] \in Nat /\ s[2] < size[s[1]]
          BY <1>1, SlotFacts
        <5>2. bucket_offset = size[bucket_index] /\ bucket_offset \in Nat
          BY <1>2, <1>5, <2>2
        <5>. QED
          BY <5>1, <5>2, <1>2
      <4>. QED
        BY <4>1, <3>1, <1>4 DEF Passed
    <3>4. bucket_index' \in 1..(num_buckets' + 1)
          /\ bucket_offset' \in 0..(IF bucket_index' > num_buckets' THEN 0 ELSE size'[bucket_index'])
      BY <3>1, <1>2, <1>3, <1>4, <1>5
    <3>. QED
      BY <3>1, <3>2, <3>3, <3>4, <1>2, <1>3, <1>4 DEF AllOK
  <2>. QED
    BY <2>1, <2>2
<1>. QED
  BY <1>1, <1>3, <1>4, <1>6 DEF SelectionIInv

LEMMA AllEndKeeps == SelectionIInv /\ AllEnd => SelectionIInv'
<1> SUFFICES ASSUME SelectionIInv, AllEnd
             PROVE  SelectionIInv'
  OBVIOUS
<1>1. /\ size \in Layouts /\ seeders \subseteq Slots /\ wanted \in 0..peer_count /\ amount \in 0..wanted
      /\ shift \in Nat \ {0} /\ shifted_step \in 0..(2 * MAXPRECBIT - 1) /\ ReplyOK /\ AllOK
  BY DEF SelectionIInv, AllEnd
<1>2. /\ UNCHANGED <<size, seeders, wanted, amount, shift, shifted_step, bucket_index, bucket_offset,
                     reply, r, r_end>>
      /\ pc' = "done"
  BY DEF AllEnd, cursor, written
<1>3. Slots' = Slots /\ num_buckets' = num_buckets /\ peer_count' = peer_count
  BY <1>2, SameSize
<1>4. bucket_index = num_buckets + 1 /\ bucket_offset = 0 /\ num_buckets \in Nat \ {0}
      /\ peer_count \in Nat
  BY <1>1, SlotFacts DEF AllOK, AllEnd
<1>5. Passed = Slots
  BY <1>1, <1>4, SlotFacts DEF Passed
<1>6. Filled = wanted
  BY <1>1, <1>5 DEF AllOK, peer_count
<1>7. ReplyOK' /\ Filled' = wanted'
  BY <1>1, <1>2, <1>3, <1>6 DEF ReplyOK, Filled
<1>8. bucket_index' \in 1..(num_buckets' + 1) /\ bucket_offset' \in 0..(2 * peer_count')
  BY <1>2, <1>3, <1>4
<1>. QED
  BY <1>1, <1>2, <1>3, <1>7, <1>8 DEF SelectionIInv

LEMMA ScaleKeeps == SelectionIInv /\ Scale => SelectionIInv'
<1> SUFFICES ASSUME SelectionIInv, Scale
             PROVE  SelectionIInv'
  OBVIOUS
<1>1. /\ size \in Layouts /\ seeders \subseteq Slots /\ wanted \in 0..peer_count /\ amount \in 0..wanted
      /\ shift \in Nat \ {0} /\ shifted_step \in 0..(2 * MAXPRECBIT - 1) /\ ReplyOK /\ Scaling
  BY DEF SelectionIInv, Scale
<1>2. /\ UNCHANGED <<size, seeders, wanted, pc, amount, bucket_index, bucket_offset, reply, r, r_end>>
      /\ pc' = "scale" /\ shift' = 2 * shift /\ shifted_step' = 2 * shifted_step
      /\ (shifted_step \div MAXPRECBIT) % 2 = 0
  BY DEF Scale, cursor, written
<1>3. Slots' = Slots /\ num_buckets' = num_buckets /\ peer_count' = peer_count
  BY <1>2, SameSize
<1>4. shifted_step' \in 0..(2 * MAXPRECBIT - 1)
  <2>1. ASSUME shifted_step >= MAXPRECBIT
        PROVE  shifted_step \div MAXPRECBIT = 1
    <3>1. shifted_step \in Nat /\ MAXPRECBIT \in Nat \ {0} /\ 1 * MAXPRECBIT <= shifted_step
          /\ shifted_step < 2 * MAXPRECBIT
      BY <1>1, <2>1, PrecisionAssumption
    <3>. QED
      BY <3>1
  <2>2. shifted_step < MAXPRECBIT
    BY <2>1, <1>1, <1>2, PrecisionAssumption
  <2>. QED
    BY <2>2, <1>1, <1>2, PrecisionAssumption
<1>5. shift' \in Nat \ {0}
  BY <1>1, <1>2
<1>6. Scaling' /\ ReplyOK'
  <2>1. peer_count \in Nat
    BY <1>1, SlotFacts
  <2>2. peer_count * (2 * shift) = 2 * (peer_count * shift)
    BY <2>1, <1>1
  <2>. QED
    BY <2>2, <1>1, <1>2, <1>3 DEF Scaling, ReplyOK, Filled
<1>. QED
  BY <1>1, <1>2, <1>3, <1>4, <1>5, <1>6 DEF SelectionIInv

LEMMA BeginKeeps == SelectionIInv /\ Begin => SelectionIInv'
<1> SUFFICES ASSUME SelectionIInv, Begin
             PROVE  SelectionIInv'
  OBVIOUS
<1>1. /\ size \in Layouts /\ seeders \subseteq Slots /\ wanted \in 1..peer_count /\ amount = wanted
      /\ shift \in Nat \ {0} /\ shifted_step \in 0..(2 * MAXPRECBIT - 1) /\ ReplyOK
      /\ shifted_step = peer_count * shift /\ bucket_index = 1 /\ Filled = 0
  BY DEF SelectionIInv, Begin, Scaling
<1>2. /\ UNCHANGED <<size, seeders, wanted, amount, shift, bucket_index, reply, r, r_end>>
      /\ pc' = "pick" /\ shifted_step' = shifted_step \div wanted
      /\ bucket_offset' \in 0..(peer_count - 1)
  BY <1>1 DEF Begin, Step, written
<1>3. /\ Slots' = Slots /\ num_buckets' = num_buckets /\ peer_count' = peer_count
      /\ \A b, o : (Place(b, o))' = Place(b, o)
      /\ \A start, s : (From(start, s))' = From(start, s)
  BY <1>2, SameSize
<1>4. peer_count \in Nat /\ num_buckets \in Nat \ {0} /\ Before(1) = 0
  BY <1>1, SlotFacts, PlaceFacts
<1>5. /\ shifted_step \in Nat /\ wanted \in Nat \ {0} /\ shifted_step' \in Nat
      /\ wanted * shifted_step' <= shifted_step
      /\ wanted * shifted_step' \in Nat /\ shifted_step' <= wanted * shifted_step'
  <2>1. shifted_step \in Nat /\ wanted \in Nat \ {0}
    BY <1>1, <1>4
  <2>2. shifted_step' \in Nat /\ wanted * shifted_step' <= shifted_step
    BY <2>1, <1>2, Quotient
  <2>. QED
    BY <2>1, <2>2, ProductLeast
<1>6. shifted_step' >= shift
  <2>1. shift * wanted <= peer_count * shift
    BY <1>1, <1>4
  <2>2. shift <= shifted_step \div wanted
    BY <2>1, <1>1, <1>5, QuotientLeast
  <2>. QED
    BY <2>2, <1>1, <1>2, <1>5
<1>7. shifted_step' <= shifted_step
  <2>1. \A x, y, z \in Nat : x <= y /\ y <= z => x <= z
    OBVIOUS
  <2>. QED
    BY <1>5, <2>1, ZenonT(30)
<1>8. StepsOK'
  <2>1. (wanted * shifted_step') \div shift <= peer_count
    <3>1. wanted * shifted_step' \in Nat /\ wanted * shifted_step' <= peer_count * shift
      BY <1>1, <1>5
    <3>. QED
      BY <3>1, <1>1, <1>4, QuotientMost
  <2>. QED
    BY <2>1, <1>2, <1>3, <1>6 DEF StepsOK, Reach
<1>9. WalkOK'
  <2>1. Filled' = 0 /\ DOMAIN reply = {}
    BY <1>1, <1>2, <1>5 DEF Filled, ReplyOK
  <2>2. bucket_offset' \in 0..(peer_count' - 1) /\ bucket_offset' \in Nat
    BY <1>2, <1>3, <1>4
  <2>3. Place(1, bucket_offset') = bucket_offset'
    BY <1>4, <2>2 DEF Place
  <2>4. (Place(bucket_index, bucket_offset))' = bucket_offset'
    BY <2>3, <1>1, <1>2, <1>3 DEF Place
  <2>5. (Reach(wanted))' = (Reach(amount))' /\ (Reach(wanted))' \in Nat
    <3>1. amount' = wanted'
      BY <1>1, <1>2
    <3>2. wanted * shifted_step' \in Nat
      BY <1>5
    <3>3. (wanted * shifted_step') \div shift \in Nat
      BY <3>2, <1>1, Quotient
    <3>. QED
      BY <3>1, <3>3, <1>2 DEF Reach
  <2>6. (WalkFrom(bucket_offset, bucket_offset))'
    <3>1. bucket_offset' <= bucket_offset' + (Reach(wanted))' - (Reach(amount))'
      BY <2>2, <2>5
    <3>2. pc' # "walk" /\ DOMAIN reply' = {}
      BY <1>2, <2>1
    <3>. QED
      BY <2>2, <2>4, <3>1, <3>2 DEF WalkFrom
  <2>7. \E start \in 0..(peer_count' - 1) : \E now \in Nat : (WalkFrom(start, now))'
    BY <2>2, <2>6 DEF WalkFrom
  <2>8. /\ wanted' \in 1..peer_count' /\ bucket_index' \in 1..num_buckets' /\ bucket_offset' \in Nat
        /\ Filled' = wanted' - amount' - (IF pc' = "walk" THEN 1 ELSE 0)
    BY <1>1, <1>2, <1>3, <1>4, <2>1, <2>2
  <2>. QED
    BY <2>7, <2>8 DEF WalkOK
<1>10. ReplyOK'
  BY <1>1, <1>2, <1>3 DEF ReplyOK
<1>11. shifted_step' \in 0..(2 * MAXPRECBIT - 1)
  BY <1>1, <1>5, <1>7, PrecisionAssumption
<1>. QED
  BY <1>1, <1>2, <1>3, <1>4, <1>8, <1>9, <1>10, <1>11 DEF SelectionIInv

LEMMA AdvanceKeeps == SelectionIInv /\ Advance => SelectionIInv'
<1> SUFFICES ASSUME SelectionIInv, Advance
             PROVE  SelectionIInv'
  OBVIOUS
<1>1. /\ size \in Layouts /\ seeders \subseteq Slots /\ wanted \in 0..peer_count /\ amount \in 1..wanted
      /\ shift \in Nat \ {0} /\ shifted_step \in 0..(2 * MAXPRECBIT - 1) /\ ReplyOK
      /\ pc = "pick" /\ StepsOK /\ WalkOK
  BY DEF SelectionIInv, Advance
<1>2. /\ UNCHANGED <<size, seeders, wanted, shift, shifted_step, bucket_index, reply, r, r_end>>
      /\ pc' = "walk" /\ amount' = amount - 1
  BY DEF Advance, written
<1>3. /\ Slots' = Slots /\ num_buckets' = num_buckets /\ peer_count' = peer_count
      /\ \A b, o : (Place(b, o))' = Place(b, o)
      /\ \A start, s : (From(start, s))' = From(start, s)
  BY <1>2, SameSize
<1>4. peer_count \in Nat /\ num_buckets \in Nat \ {0}
  BY <1>1, SlotFacts
<1>5. PICK random \in 0..(diff - 1) : bucket_offset' = bucket_offset + 1 + random
  BY DEF Advance
<1>6. /\ \A n : (Reach(n))' = Reach(n)
      /\ Reach(wanted) \in Nat /\ Reach(amount) \in Nat /\ Reach(amount - 1) \in Nat
      /\ (Reach(wanted))' = Reach(wanted) /\ (Reach(amount))' = Reach(amount - 1)
  <2>1. wanted \in Nat /\ amount \in Nat /\ amount - 1 \in Nat /\ shifted_step \in Nat
    BY <1>1, <1>4, PrecisionAssumption
  <2>2. \A n : (Reach(n))' = Reach(n)
    BY <1>2, SameReach
  <2>3. (Reach(wanted))' = Reach(wanted) /\ (Reach(amount))' = Reach(amount - 1)
    BY <1>2 DEF Reach
  <2>. QED
    BY <2>1, <2>2, <2>3, <1>1, ReachFacts
<1>7. diff = Reach(amount) - Reach(amount - 1)
  BY DEF diff, Reach
<1>8. random \in Nat /\ random + 1 <= Reach(amount) - Reach(amount - 1)
  BY <1>5, <1>6, <1>7
<1>9. PICK start \in 0..(peer_count - 1), now \in Nat : WalkFrom(start, now)
  BY <1>1 DEF WalkOK
<1>10. bucket_index \in 1..num_buckets /\ bucket_offset \in Nat /\ Before(bucket_index) \in Nat
       /\ bucket_offset' \in Nat /\ wanted \in 1..peer_count /\ Filled = wanted - amount
  BY <1>1, <1>5, <1>8, PlaceFacts DEF WalkOK
<1>11. (Place(bucket_index, bucket_offset))' = Place(bucket_index, bucket_offset) + 1 + random
  <2>1. (Place(bucket_index, bucket_offset))' = Place(bucket_index, bucket_offset')
    BY <1>2, <1>3 DEF Place
  <2>2. Place(bucket_index, bucket_offset') = Place(bucket_index, bucket_offset) + 1 + random
    BY <1>5, <1>8, <1>10 DEF Place
  <2>. QED
    BY <2>1, <2>2
<1>12. Place(bucket_index, bucket_offset) \in Nat
  BY <1>10 DEF Place
<1>13. ASSUME NEW s \in Slots
       PROVE  From(start, s) \in Nat
  BY <1>1, <1>4, PlaceFacts DEF From
<1>14. (WalkFrom(start, now + 1 + random))'
  <2>1. /\ now \in {Place(bucket_index, bucket_offset),
                    Place(bucket_index, bucket_offset) + peer_count}
        /\ start <= now /\ now <= start + Reach(wanted) - Reach(amount)
        /\ \A i \in DOMAIN reply : From(start, reply[i]) <= now
    BY <1>1, <1>9 DEF WalkFrom
  <2>2. now + 1 + random \in {(Place(bucket_index, bucket_offset))',
                              (Place(bucket_index, bucket_offset))' + peer_count'}
    BY <2>1, <1>3, <1>4, <1>8, <1>11, <1>12
  <2>3. start < now + 1 + random
        /\ now + 1 + random <= start + (Reach(wanted))' - (Reach(amount))'
    BY <2>1, <1>6, <1>8, <1>9
  <2>4. \A i \in DOMAIN reply' : (From(start, reply[i]))' < now + 1 + random
    <3>1. ASSUME NEW i \in DOMAIN reply
          PROVE  From(start, reply[i]) < now + 1 + random
      <4>1. reply[i] \in Slots
        BY <1>1 DEF ReplyOK
      <4>2. From(start, reply[i]) \in Nat /\ From(start, reply[i]) <= now
        BY <4>1, <1>13, <2>1
      <4>. QED
        BY <4>2, <1>8, <1>9
    <3>2. reply' = reply
      BY <1>2
    <3>3. \A i : (From(start, reply[i]))' = From(start, reply[i])
      BY <1>2, <1>3 DEF From, Place
    <3>. QED
      BY <3>1, <3>2, <3>3
  <2>5. start <= now + 1 + random
    BY <2>3, <1>8, <1>9
  <2>. QED
    BY <1>2, <2>2, <2>3, <2>4, <2>5 DEF WalkFrom
<1>15. WalkOK'
  <2>1. now + 1 + random \in Nat /\ start \in 0..(peer_count' - 1)
    BY <1>3, <1>8, <1>9
  <2>2. Filled' = Filled
    BY <1>2 DEF Filled
  <2>3. /\ wanted' \in 1..peer_count' /\ bucket_index' \in 1..num_buckets' /\ bucket_offset' \in Nat
        /\ Filled' = wanted' - amount' - (IF pc' = "walk" THEN 1 ELSE 0)
    BY <1>1, <1>2, <1>3, <1>10, <2>2
  <2>. QED
    BY <1>14, <2>1, <2>3 DEF WalkOK
<1>16. StepsOK' /\ ReplyOK'
  BY <1>1, <1>2, <1>3, <1>6 DEF StepsOK, ReplyOK
<1>17. amount' \in 0..wanted'
  BY <1>1, <1>2, <1>4
<1>. QED
  BY <1>1, <1>2, <1>3, <1>15, <1>16, <1>17 DEF SelectionIInv

LEMMA WalkOnKeeps == SelectionIInv /\ WalkOn => SelectionIInv'
<1> SUFFICES ASSUME SelectionIInv, WalkOn
             PROVE  SelectionIInv'
  OBVIOUS
<1>1. /\ size \in Layouts /\ seeders \subseteq Slots /\ wanted \in 0..peer_count /\ amount \in 0..wanted
      /\ shift \in Nat \ {0} /\ shifted_step \in 0..(2 * MAXPRECBIT - 1) /\ ReplyOK
      /\ pc = "walk" /\ StepsOK /\ WalkOK
  BY DEF SelectionIInv, WalkOn
<1>2. /\ UNCHANGED <<size, seeders, wanted, pc, amount, shift, shifted_step, reply, r, r_end>>
      /\ bucket_offset >= size[bucket_index]
      /\ bucket_offset' = bucket_offset - size[bucket_index]
      /\ bucket_index' = NextBucket(bucket_index)
  BY DEF WalkOn, written
<1>3. /\ Slots' = Slots /\ num_buckets' = num_buckets /\ peer_count' = peer_count
      /\ \A b, o : (Place(b, o))' = Place(b, o)
      /\ \A start, s : (From(start, s))' = From(start, s)
  BY <1>2, SameSize
<1>4. peer_count \in Nat /\ num_buckets \in Nat \ {0}
  BY <1>1, SlotFacts
<1>5. /\ bucket_index \in 1..num_buckets /\ bucket_offset \in Nat /\ wanted \in 1..peer_count
      /\ Before(bucket_index) \in Nat /\ size[bucket_index] \in Nat
  BY <1>1, PlaceFacts, SlotFacts DEF WalkOK
<1>6. bucket_offset' \in Nat /\ bucket_index' \in 1..num_buckets
  BY <1>2, <1>4, <1>5, NextBucketFacts
<1>7. Reach(wanted) \in Nat /\ Reach(amount) \in Nat /\ Reach(wanted) <= peer_count
  <2>1. wanted \in Nat /\ amount \in Nat /\ shifted_step \in Nat
    BY <1>1, <1>4, PrecisionAssumption
  <2>. QED
    BY <2>1, <1>1, ReachFacts DEF StepsOK
<1>8. PICK start \in 0..(peer_count - 1), now \in Nat : WalkFrom(start, now)
  BY <1>1 DEF WalkOK
<1>9. /\ now \in {Place(bucket_index, bucket_offset), Place(bucket_index, bucket_offset) + peer_count}
      /\ start < now /\ now <= start + Reach(wanted) - Reach(amount)
      /\ \A i \in DOMAIN reply : From(start, reply[i]) < now
  BY <1>1, <1>8 DEF WalkFrom
<1>10. now <= 2 * peer_count - 1
  BY <1>4, <1>7, <1>8, <1>9
<1>11. (Place(bucket_index, bucket_offset))' = Place(bucket_index', bucket_offset')
  BY <1>3 DEF Place
<1>12. now \in {Place(bucket_index', bucket_offset'),
                Place(bucket_index', bucket_offset') + peer_count}
  <2>1. CASE bucket_index < num_buckets
    <3>1. bucket_index' = bucket_index + 1
      BY <2>1, <1>2, <1>4, <1>5, NextBucketFacts
    <3>2. Before(bucket_index + 1) = Before(bucket_index) + size[bucket_index]
      BY <1>1, <1>5, PlaceFacts
    <3>3. Place(bucket_index', bucket_offset') = Place(bucket_index, bucket_offset)
      BY <3>1, <3>2, <1>2, <1>5 DEF Place
    <3>. QED
      BY <3>3, <1>9
  <2>2. CASE bucket_index = num_buckets
    <3>1. bucket_index' = 1
      BY <2>2, <1>2, <1>4, <1>5, NextBucketFacts
    <3>2. Before(bucket_index) + size[bucket_index] = peer_count /\ Before(1) = 0
      BY <2>2, <1>1, PlaceFacts
    <3>3. Place(bucket_index', bucket_offset') = bucket_offset'
      BY <3>1, <3>2, <1>6 DEF Place
    <3>4. Place(bucket_index, bucket_offset) = bucket_offset' + peer_count
      BY <3>2, <1>2, <1>5 DEF Place
    <3>5. now # Place(bucket_index, bucket_offset) + peer_count
      <4>1. \A n, p, o \in Nat : n <= 2 * p - 1 => n # (o + p) + p
        OBVIOUS
      <4>2. now # (bucket_offset' + peer_count) + peer_count
        BY <4>1, <1>4, <1>6, <1>10, ZenonT(30)
      <4>. QED
        BY <4>2, <3>4
    <3>. QED
      BY <3>3, <3>4, <3>5, <1>9
  <2>. QED
    BY <2>1, <2>2, <1>4, <1>5
<1>13. (WalkFrom(start, now))'
  <2>1. now \in {(Place(bucket_index, bucket_offset))',
                 (Place(bucket_index, bucket_offset))' + peer_count'}
    BY <1>3, <1>11, <1>12
  <2>2. (Reach(wanted))' = Reach(wanted) /\ (Reach(amount))' = Reach(amount)
    BY <1>2 DEF Reach
  <2>3. \A i \in DOMAIN reply' : (From(start, reply[i]))' < now
    <3>1. \A i : (From(start, reply[i]))' = From(start, reply[i])
      BY <1>2, <1>3 DEF From, Place
    <3>. QED
      BY <3>1, <1>2, <1>9
  <2>4. start <= now
    BY <1>8, <1>9
  <2>. QED
    BY <1>1, <1>2, <1>9, <2>1, <2>2, <2>3, <2>4 DEF WalkFrom
<1>14. WalkOK'
  <2>1. Filled' = Filled
    BY <1>2 DEF Filled
  <2>2. Filled = wanted - amount - (IF pc = "walk" THEN 1 ELSE 0)
    BY <1>1 DEF WalkOK
  <2>. QED
    BY <1>2, <1>3, <1>5, <1>6, <1>8, <1>13, <2>1, <2>2 DEF WalkOK
<1>15. StepsOK' /\ ReplyOK'
  BY <1>1, <1>2, <1>3 DEF StepsOK, ReplyOK, Reach
<1>. QED
  BY <1>1, <1>2, <1>3, <1>14, <1>15 DEF SelectionIInv

LEMMA PickKeeps == SelectionIInv /\ Pick => SelectionIInv'
<1> SUFFICES ASSUME SelectionIInv, Pick
             PROVE  SelectionIInv'
  OBVIOUS
<1> DEFINE peer == <<bucket_index, bucket_offset>>
<1>1. /\ size \in Layouts /\ seeders \subseteq Slots /\ wanted \in 0..peer_count /\ amount \in 0..wanted
      /\ shift \in Nat \ {0} /\ shifted_step \in 0..(2 * MAXPRECBIT - 1) /\ ReplyOK
      /\ pc = "walk" /\ StepsOK /\ WalkOK
  BY DEF SelectionIInv, Pick
<1>2. /\ UNCHANGED <<size, seeders, wanted, amount, shift, shifted_step, bucket_index, bucket_offset>>
      /\ pc' = "pick" /\ Write(peer) /\ bucket_offset < size[bucket_index]
  BY DEF Pick, cursor
<1>3. /\ Slots' = Slots /\ num_buckets' = num_buckets /\ peer_count' = peer_count
      /\ \A b, o : (Place(b, o))' = Place(b, o)
      /\ \A start, s : (From(start, s))' = From(start, s)
  BY <1>2, SameSize
<1>4. peer_count \in Nat /\ num_buckets \in Nat \ {0}
  BY <1>1, SlotFacts
<1>5. /\ bucket_index \in 1..num_buckets /\ bucket_offset \in Nat /\ wanted \in 1..peer_count
      /\ Filled = wanted - amount - 1
  BY <1>1 DEF WalkOK
<1>6. peer \in Slots /\ peer[1] = bucket_index /\ peer[2] = bucket_offset
  BY <1>1, <1>2, <1>5, SlotFacts
<1>. HIDE DEF peer
<1>7. Reach(wanted) \in Nat /\ Reach(amount) \in Nat /\ Reach(wanted) <= peer_count
  <2>1. wanted \in Nat /\ amount \in Nat /\ shifted_step \in Nat
    BY <1>1, <1>4, PrecisionAssumption
  <2>. QED
    BY <2>1, <1>1, ReachFacts DEF StepsOK
<1>8. PICK start \in 0..(peer_count - 1), now \in Nat : WalkFrom(start, now)
  BY <1>1 DEF WalkOK
<1>9. /\ now \in {Place(bucket_index, bucket_offset), Place(bucket_index, bucket_offset) + peer_count}
      /\ start < now /\ now <= start + Reach(wanted) - Reach(amount)
      /\ \A i \in DOMAIN reply : From(start, reply[i]) < now
  BY <1>1, <1>8 DEF WalkFrom
<1>10. From(start, peer) = now
  <2>1. Place(peer[1], peer[2]) \in 0..(peer_count - 1)
    BY <1>1, <1>6, PlaceFacts
  <2>2. now \in {Place(peer[1], peer[2]), Place(peer[1], peer[2]) + peer_count}
    BY <1>6, <1>9
  <2>3. now <= start + peer_count
    BY <1>4, <1>7, <1>8, <1>9
  <2>. QED
    BY <2>1, <2>2, <2>3, <1>4, <1>8, <1>9 DEF From
<1>11. \A i \in DOMAIN reply : reply[i] # peer
  <2>1. now \in Nat
    BY <1>8
  <2>. QED
    BY <2>1, <1>9, <1>10
<1>12. /\ ReplyOK' /\ Filled' = Filled + 1
       /\ \A i \in DOMAIN reply' : reply'[i] = peer \/ (i \in DOMAIN reply /\ reply'[i] = reply[i])
  <2>1. wanted \in Nat /\ Filled < wanted
    BY <1>1, <1>4, <1>5
  <2>. QED
    BY <2>1, <1>1, <1>2, <1>6, <1>11, WriteStep
<1>13. (WalkFrom(start, now))'
  <2>1. (Reach(wanted))' = Reach(wanted) /\ (Reach(amount))' = Reach(amount)
        /\ (Place(bucket_index, bucket_offset))' = Place(bucket_index, bucket_offset)
    BY <1>2, <1>3 DEF Reach, Place
  <2>2. \A i \in DOMAIN reply' : (From(start, reply[i]))' <= now
    <3>1. ASSUME NEW i \in DOMAIN reply'
          PROVE  From(start, reply'[i]) <= now
      <4>1. CASE reply'[i] = peer
        BY <4>1, <1>8, <1>10
      <4>2. CASE i \in DOMAIN reply /\ reply'[i] = reply[i]
        <5>1. reply[i] \in Slots
          BY <4>2, <1>1 DEF ReplyOK
        <5>2. From(start, reply[i]) \in Nat
          BY <5>1, <1>1, <1>4, PlaceFacts DEF From
        <5>. QED
          BY <4>2, <5>2, <1>8, <1>9
      <4>. QED
        BY <4>1, <4>2, <1>12
    <3>2. \A i : (From(start, reply[i]))' = From(start, reply'[i])
      BY <1>3 DEF From, Place
    <3>. QED
      BY <3>1, <3>2
  <2>3. start <= now
    BY <1>8, <1>9
  <2>. QED
    BY <1>2, <1>3, <1>9, <2>1, <2>2, <2>3 DEF WalkFrom
<1>14. WalkOK'
  <2>1. Filled' = wanted' - amount' - (IF pc' = "walk" THEN 1 ELSE 0)
    BY <1>1, <1>2, <1>4, <1>5, <1>12
  <2>. QED
    BY <2>1, <1>2, <1>3, <1>5, <1>8, <1>13 DEF WalkOK
<1>15. StepsOK'
  BY <1>1, <1>2, <1>3 DEF StepsOK, Reach
<1>. QED
  BY <1>1, <1>2, <1>3, <1>12, <1>14, <1>15 DEF SelectionIInv

LEMMA WalkBounds ==
    ASSUME size \in Layouts, wanted \in 0..peer_count, amount \in 0..wanted, shift \in Nat \ {0},
           shifted_step \in 0..(2 * MAXPRECBIT - 1), StepsOK, WalkOK
    PROVE  bucket_index \in 1..num_buckets /\ bucket_offset \in 0..(2 * peer_count)
<1>1. /\ peer_count \in Nat /\ num_buckets \in Nat \ {0}
      /\ bucket_index \in 1..num_buckets /\ bucket_offset \in Nat
      /\ Before(bucket_index) \in Nat
  BY SlotFacts, PlaceFacts DEF WalkOK
<1>2. wanted \in Nat /\ amount \in Nat /\ shifted_step \in Nat
  BY <1>1, PrecisionAssumption
<1>3. Reach(wanted) \in Nat /\ Reach(amount) \in Nat /\ Reach(wanted) <= peer_count
  BY <1>2, ReachFacts DEF StepsOK
<1>4. PICK start \in 0..(peer_count - 1), now \in Nat : WalkFrom(start, now)
  BY DEF WalkOK
<1>5. /\ now \in {Place(bucket_index, bucket_offset), Place(bucket_index, bucket_offset) + peer_count}
      /\ now <= start + Reach(wanted) - Reach(amount)
  BY <1>4 DEF WalkFrom
<1>6. now <= 2 * peer_count
  BY <1>1, <1>3, <1>4, <1>5
<1>7. Place(bucket_index, bucket_offset) \in Nat /\ bucket_offset <= Place(bucket_index, bucket_offset)
  BY <1>1 DEF Place
<1>. QED
  BY <1>1, <1>5, <1>6, <1>7

LEMMA PickEndKeeps == SelectionIInv /\ PickEnd => SelectionIInv'
<1> SUFFICES ASSUME SelectionIInv, PickEnd
             PROVE  SelectionIInv'
  OBVIOUS
<1>1. /\ size \in Layouts /\ seeders \subseteq Slots /\ wanted \in 0..peer_count /\ amount = 0
      /\ shift \in Nat \ {0} /\ shifted_step \in 0..(2 * MAXPRECBIT - 1) /\ ReplyOK
      /\ pc = "pick" /\ StepsOK /\ WalkOK
  BY DEF SelectionIInv, PickEnd
<1>2. /\ UNCHANGED <<size, seeders, wanted, amount, shift, shifted_step, bucket_index, bucket_offset,
                     reply, r, r_end>>
      /\ pc' = "done"
  BY DEF PickEnd, cursor, written
<1>3. Slots' = Slots /\ num_buckets' = num_buckets /\ peer_count' = peer_count
  BY <1>2, SameSize
<1>4. /\ peer_count \in Nat /\ num_buckets \in Nat \ {0}
      /\ bucket_index \in 1..num_buckets /\ bucket_offset \in Nat /\ Filled = wanted
      /\ Before(bucket_index) \in Nat
  BY <1>1, SlotFacts, PlaceFacts DEF WalkOK
<1>5. bucket_offset <= 2 * peer_count
  BY <1>1, <1>4, WalkBounds
<1>6. ReplyOK' /\ Filled' = wanted'
  BY <1>1, <1>2, <1>3, <1>4 DEF ReplyOK, Filled
<1>. QED
  BY <1>1, <1>2, <1>3, <1>4, <1>5, <1>6 DEF SelectionIInv

LEMMA StutterKeeps == SelectionIInv /\ UNCHANGED selectionVars => SelectionIInv'
<1> SUFFICES ASSUME SelectionIInv, UNCHANGED selectionVars
             PROVE  SelectionIInv'
  OBVIOUS
<1>1. UNCHANGED <<size, seeders, wanted, pc, amount, shift, shifted_step, bucket_index, bucket_offset,
                  reply, r, r_end>>
  BY DEF selectionVars, cursor, written
<1>2. Slots' = Slots /\ num_buckets' = num_buckets /\ peer_count' = peer_count
  BY <1>1, SameSize
<1>3. Filled' = Filled /\ Passed' = Passed /\ ReplyOK' = ReplyOK
  BY <1>1, <1>2 DEF Filled, Passed, ReplyOK
<1>4. AllOK' = AllOK /\ Scaling' = Scaling /\ StepsOK' = StepsOK
  BY <1>1, <1>2, <1>3 DEF AllOK, Scaling, StepsOK, Reach
<1>5. WalkOK => WalkOK'
  <2> SUFFICES ASSUME WalkOK
               PROVE  WalkOK'
    OBVIOUS
  <2>1. PICK start \in 0..(peer_count - 1), now \in Nat : WalkFrom(start, now)
    BY DEF WalkOK
  <2>2. /\ (Place(bucket_index, bucket_offset))' = Place(bucket_index, bucket_offset)
        /\ \A i : (From(start, reply[i]))' = From(start, reply[i])
        /\ (Reach(wanted))' = Reach(wanted) /\ (Reach(amount))' = Reach(amount)
    <3>1. \A b, o : (Place(b, o))' = Place(b, o)
      BY <1>1, SameSize
    <3>. QED
      BY <3>1, <1>1, <1>2 DEF From, Place, Reach
  <2>3. (WalkFrom(start, now))'
    BY <2>1, <2>2, <1>1, <1>2 DEF WalkFrom
  <2>. QED
    BY <2>1, <2>3, <1>1, <1>2, <1>3 DEF WalkOK
<1>. QED
  BY <1>1, <1>2, <1>3, <1>4, <1>5 DEF SelectionIInv

\* The inductive invariant of the selection of peers: how much of the reply is written at each
\* place of return_peers_for_torrent, and where the walk is.
THEOREM SelectionInvariance == SelectionSpec => []SelectionIInv
<1>1. SelectionInit => SelectionIInv
  BY SelectionInitially
<1>2. SelectionIInv /\ [SelectionNext]_selectionVars => SelectionIInv'
  <2> SUFFICES ASSUME SelectionIInv, [SelectionNext]_selectionVars
               PROVE  SelectionIInv'
    OBVIOUS
  <2>1. CASE All
    BY <2>1, AllKeeps
  <2>2. CASE AllEnd
    BY <2>2, AllEndKeeps
  <2>3. CASE Scale
    BY <2>3, ScaleKeeps
  <2>4. CASE Begin
    BY <2>4, BeginKeeps
  <2>5. CASE Advance
    BY <2>5, AdvanceKeeps
  <2>6. CASE WalkOn
    BY <2>6, WalkOnKeeps
  <2>7. CASE Pick
    BY <2>7, PickKeeps
  <2>8. CASE PickEnd
    BY <2>8, PickEndKeeps
  <2>9. CASE UNCHANGED selectionVars
    BY <2>9, StutterKeeps
  <2>. QED
    BY <2>1, <2>2, <2>3, <2>4, <2>5, <2>6, <2>7, <2>8, <2>9 DEF SelectionNext, Finished
<1>. QED
  BY <1>1, <1>2, PTL DEF SelectionSpec

\* What the inductive invariant is for.
LEMMA SelectionImplies == SelectionIInv => SelectionExact
<1> SUFFICES ASSUME SelectionIInv
             PROVE  SelectionExact
  OBVIOUS
<1>1. /\ size \in Layouts /\ seeders \subseteq Slots /\ wanted \in 0..peer_count
      /\ pc \in {"all", "scale", "pick", "walk", "done"} /\ amount \in 0..wanted
      /\ shift \in Nat \ {0} /\ shifted_step \in 0..(2 * MAXPRECBIT - 1)
  BY DEF SelectionIInv
<1>2. /\ r \in 1..(wanted + 1) /\ r_end \in 0..wanted /\ r <= r_end + 1
      /\ DOMAIN reply = (1..(r - 1)) \cup ((r_end + 1)..wanted)
      /\ \A i \in DOMAIN reply : reply[i] \in Slots /\ (reply[i] \in seeders <=> i >= r)
      /\ \A i, k \in DOMAIN reply : reply[i] = reply[k] => i = k
  BY DEF SelectionIInv, ReplyOK
<1>3. peer_count \in Nat /\ num_buckets \in Nat \ {0} /\ \A b \in 1..num_buckets : size[b] \in Nat
  BY <1>1, SlotFacts
<1>4. /\ bucket_index \in 1..(num_buckets + 1)
      /\ bucket_index > num_buckets => pc \in {"all", "done"}
      /\ bucket_offset \in 0..(2 * peer_count)
  <2>1. CASE pc = "all"
    <3>1. bucket_index \in 1..num_buckets => size[bucket_index] <= peer_count
      BY <1>1, <1>3, PlaceFacts
    <3>2. /\ bucket_index \in 1..(num_buckets + 1)
          /\ bucket_offset \in 0..(IF bucket_index > num_buckets THEN 0 ELSE size[bucket_index])
      BY <2>1 DEF SelectionIInv, AllOK
    <3>. QED
      BY <2>1, <3>1, <3>2, <1>3
  <2>2. CASE pc = "scale"
    <3>1. bucket_index = 1 /\ bucket_offset = 0
      BY <2>2 DEF SelectionIInv, Scaling
    <3>. QED
      BY <3>1, <1>3
  <2>3. CASE pc \in {"pick", "walk"}
    <3>1. StepsOK /\ WalkOK
      BY <2>3 DEF SelectionIInv
    <3>2. bucket_index \in 1..num_buckets /\ bucket_offset \in 0..(2 * peer_count)
      BY <3>1, <1>1, WalkBounds, ZenonT(30)
    <3>. QED
      BY <3>2, <1>3
  <2>4. CASE pc = "done"
    BY <2>4, <1>3 DEF SelectionIInv
  <2>. QED
    BY <2>1, <2>2, <2>3, <2>4, <1>1
<1>5. SelectionTypeOK
  <2>1. \A i \in DOMAIN reply : i \in 1..wanted
    BY <1>1, <1>2, <1>3
  <2>. QED
    BY <2>1, <1>1, <1>2, <1>4 DEF SelectionTypeOK
<1>6. PicksDistinct
  BY <1>2 DEF PicksDistinct
<1>7. RangeNotEmpty
  <2> SUFFICES ASSUME pc = "pick", amount > 0
               PROVE  diff > 0
    BY DEF RangeNotEmpty
  <2>1. amount - 1 \in Nat /\ amount \in Nat /\ amount = (amount - 1) + 1 /\ shifted_step \in Nat
    BY <1>1, <1>3, PrecisionAssumption
  <2>2. shifted_step >= shift
    BY DEF SelectionIInv, StepsOK
  <2>3. Reach(amount - 1) < Reach(amount) /\ Reach(amount - 1) \in Nat /\ Reach(amount) \in Nat
    BY <2>1, <2>2, <1>1, ReachFacts
  <2>4. diff = Reach(amount) - Reach(amount - 1)
    BY DEF diff, Reach
  <2>. QED
    BY <2>3, <2>4
<1>8. ReplyFull
  <2> SUFFICES ASSUME pc = "done"
               PROVE  DOMAIN reply = 1..wanted /\ \A i \in 1..wanted : reply[i] \in seeders <=> i >= r
    BY DEF ReplyFull
  <2>1. Filled = wanted
    BY DEF SelectionIInv
  <2>2. r_end = r - 1
    BY <2>1, <1>1, <1>2, <1>3 DEF Filled
  <2>3. DOMAIN reply = 1..wanted
    BY <2>2, <1>1, <1>2, <1>3
  <2>. QED
    BY <2>3, <1>2
<1>. QED
  BY <1>5, <1>6, <1>7, <1>8 DEF SelectionExact

\* Whatever the layout of the buckets, the peers that seed, the number asked for and the random
\* numbers: return_peers_for_torrent sends no peer twice, divides by no empty range, and leaves no
\* place of the reply unwritten.
THEOREM SelectionCorrect == SelectionSpec => []SelectionExact
BY SelectionInvariance, SelectionImplies, PTL

-----------------------------------------------------------------------------
(* UDP: the invariant *)

Datagram == [action : 0..255, event : 0..255, left : 0..255, size : 0..G_INBUF_SIZE,
             from : Senders, conn : Senders \cup {Magic}, hash : UdpTorrents, transaction : Nat]

Packet == [conn : Senders \cup {Magic, Mixed}, action : 0..255, transaction : Nat \cup {Mixed},
           hash : UdpTorrents \cup {Mixed}, left : 0..255, event : 0..255]

UdpPeer == [ip : Senders, seeding : BOOLEAN, received : BOOLEAN]

UdpAnswer == [action : Nat, transaction : Nat \cup {Mixed}, conn : Senders \cup {0},
              peers : SUBSET UdpPeer, count : Nat]

Worker == [state : {"receive", "handle", "send"}, in : Packet, remoteip : Senders \cup {0},
           byte_count : Nat, out : UdpAnswer]

UdpTypeOK ==
    /\ sent \in Seq(Datagram)
    /\ told \in SUBSET Senders
    /\ udp \in [UdpWorkers -> Worker]
    /\ swarms \in [UdpTorrents -> SUBSET UdpPeer]

\* Ids were told before they are used, and whoever is a peer has used its own.
IdsTold == \A d \in Sent : d.conn \in told \cup {Magic}
IdUsed(a) == a \in told /\ \E d \in Sent : d.conn = a
PeersProper ==
    \A t \in UdpTorrents : \A p \in swarms[t] :
        /\ IdUsed(p.ip)
        /\ \E d \in Sent : d.hash = t
        /\ p.received => \E d \in Sent : Announced(d, t, p.ip) /\ p.seeding = (d.left = 0)

\* What the last datagram was long enough for is in the buffer as it was sent.
Carried(d, u) ==
    /\ d.from = u.remoteip /\ d.size = u.byte_count
    /\ d.size >= 16 => d.conn = u.in.conn /\ d.action = u.in.action /\ d.transaction = u.in.transaction
    /\ d.size >= 98 => d.hash = u.in.hash /\ d.left = u.in.left /\ d.event = u.in.event

\* An id or a hash in a worker's buffer that is not put together was sent.
Received(u) ==
    /\ u.in.conn # Mixed => \E d \in Sent : d.conn = u.in.conn
    /\ u.in.hash # Mixed => \E d \in Sent : d.hash = u.in.hash
    /\ u.state # "receive" =>
         /\ u.remoteip \in Senders
         /\ u.byte_count # ErrorSize => \E d \in Sent : Carried(d, u)

\* The answer a worker is about to send is to what is in its buffer.
Answered(u) ==
    u.state = "send" =>
      /\ u.out.count <= 75
      /\ u.out.action = CONNECT => u.out.conn = u.remoteip
      /\ u.out.action \in {ANNOUNCE, SCRAPE} =>
           /\ u.byte_count >= 16
           /\ u.in.action = u.out.action /\ u.in.conn = u.remoteip
           /\ u.in.transaction = u.out.transaction
           /\ u.out.peers # {} => u.byte_count >= 98
           /\ \A p \in u.out.peers :
                 p.received => \E e \in Sent : Announced(e, u.in.hash, p.ip)

UdpIInv ==
    /\ UdpTypeOK
    /\ IdsTold
    /\ PeersProper
    /\ \A w \in UdpWorkers : Received(udp[w]) /\ Answered(udp[w])

LEMMA UdpInitial == UdpInit => UdpIInv
<1>. SUFFICES ASSUME UdpInit PROVE UdpIInv
  OBVIOUS
<1>1. Sent = {}
  BY DEF UdpInit, Sent
<1>2. ASSUME NEW w \in UdpWorkers
      PROVE  udp[w] \in Worker /\ Received(udp[w]) /\ Answered(udp[w])
  <2>1. PICK in \in Leftovers : udp[w] = [state |-> "receive", in |-> in, remoteip |-> 0,
                                          byte_count |-> 0, out |-> NoAnswer]
    BY DEF UdpInit
  <2>2. in \in Packet /\ in.conn = Mixed /\ in.hash = Mixed
    BY UdpAssumption DEF Leftovers, Packet
  <2>3. NoAnswer \in UdpAnswer
    BY DEF NoAnswer, UdpAnswer
  <2>. QED
    BY <2>1, <2>2, <2>3 DEF Worker, Received, Answered
<1>3. UdpTypeOK
  <2>1. udp \in [UdpWorkers -> Worker]
    BY <1>2 DEF UdpInit
  <2>. QED
    BY <2>1 DEF UdpInit, UdpTypeOK
<1>4. IdsTold /\ PeersProper
  BY <1>1 DEF UdpInit, IdsTold, PeersProper
<1>. QED
  BY <1>2, <1>3, <1>4 DEF UdpIInv

\* What was sent has its type.
LEMMA SentTyped == UdpTypeOK => Sent \subseteq Datagram
BY DEF UdpTypeOK, Sent

LEMMA ClientSendStep == UdpIInv /\ (\E a \in Senders : ClientSend(a)) => UdpIInv'
<1>. SUFFICES ASSUME UdpIInv, NEW a \in Senders, ClientSend(a) PROVE UdpIInv'
  OBVIOUS
<1>1. PICK d \in Datagrams(a) : sent' = Append(sent, d)
  BY DEF ClientSend
<1>2. d \in Datagram /\ d.conn \in told \cup {Magic}
  <2>1. Len(sent) + 1 \in Nat /\ told \subseteq Senders
    BY DEF UdpIInv, UdpTypeOK
  <2>2. PICK k \in UdpKinds, id \in told \cup {Magic}, t \in UdpTorrents :
           d = [action |-> k.action, event |-> k.event, left |-> k.left, size |-> k.size,
                from |-> a, conn |-> id, hash |-> t, transaction |-> Len(sent) + 1]
    BY DEF Datagrams
  <2>3. /\ k.action \in 0..255 /\ k.event \in 0..255 /\ k.left \in 0..255
        /\ k.size \in 0..G_INBUF_SIZE
    <3>1. k \in [action : 0..255, event : 0..255, left : 0..255, size : 0..G_INBUF_SIZE]
      BY UdpAssumption
    <3>. QED
      BY <3>1
  <2>. QED
    BY <2>1, <2>2, <2>3 DEF Datagram
<1>3. sent' \in Seq(Datagram) /\ Sent' = Sent \cup {d}
  <2>1. sent \in Seq(Datagram) /\ Len(sent) \in Nat /\ DOMAIN sent = 1..Len(sent)
    BY DEF UdpIInv, UdpTypeOK
  <2>2. /\ sent' \in Seq(Datagram) /\ DOMAIN sent' = 1..(Len(sent) + 1)
        /\ sent'[Len(sent) + 1] = d
        /\ \A i \in 1..Len(sent) : sent'[i] = sent[i]
    BY <1>1, <1>2, <2>1
  <2>. QED
    BY <2>1, <2>2 DEF Sent
<1>4. UNCHANGED <<told, udp, swarms>>
  BY DEF ClientSend
<1>5. UdpTypeOK' /\ IdsTold'
  BY <1>2, <1>3, <1>4 DEF UdpIInv, UdpTypeOK, IdsTold
<1>6. PeersProper'
  BY <1>3, <1>4 DEF UdpIInv, PeersProper, IdUsed
<1>7. \A w \in UdpWorkers : (Received(udp[w]) /\ Answered(udp[w]))'
  BY <1>3, <1>4 DEF UdpIInv, Received, Answered
<1>. QED
  BY <1>5, <1>6, <1>7 DEF UdpIInv

\* The steps of a worker change its own state only, and no datagram that was sent.
LEMMA WorkerFrame ==
    ASSUME UdpIInv, NEW w \in UdpWorkers, NEW u \in Worker, udp' = [udp EXCEPT ![w] = u],
           UNCHANGED sent, told \subseteq told', told' \in SUBSET Senders,
           Received(u), Answered(u),
           swarms' \in [UdpTorrents -> SUBSET UdpPeer], PeersProper'
    PROVE  UdpIInv'
<1>1. Sent' = Sent
  BY DEF Sent
<1>2. UdpTypeOK' /\ IdsTold'
  BY <1>1 DEF UdpIInv, UdpTypeOK, IdsTold
<1>3. \A v \in UdpWorkers : udp'[v] = IF v = w THEN u ELSE udp[v]
  BY DEF UdpIInv, UdpTypeOK
<1>4. ASSUME NEW v \in UdpWorkers
      PROVE  (Received(udp[v]) /\ Answered(udp[v]))'
  <2>1. CASE v = w
    BY <1>1, <1>3, <2>1 DEF Received, Answered
  <2>2. CASE v # w
    <3>1. udp'[v] = udp[v] /\ Received(udp[v]) /\ Answered(udp[v])
      BY <1>3, <2>2 DEF UdpIInv
    <3>. QED
      BY <1>1, <3>1 DEF Received, Answered
  <2>. QED
    BY <2>1, <2>2
<1>. QED
  BY <1>2, <1>4 DEF UdpIInv

\* A worker's record once some of its fields are set.
LEMMA WorkerFields ==
    ASSUME UdpIInv, NEW w \in UdpWorkers
    PROVE  /\ udp[w] \in Worker /\ Received(udp[w]) /\ Answered(udp[w]) /\ udp[w].in \in Packet
           /\ udp[w].state # "receive" => udp[w].remoteip \in Senders
BY DEF UdpIInv, UdpTypeOK, Worker, Received

\* A datagram in the buffer over what was there: it is there as a whole if it is long enough, and
\* an id or a hash is the old one or the new one or put together.
LEMMA Overlaid ==
    ASSUME NEW d \in Datagram, NEW in \in Packet
    PROVE  LET new == Overwritten(in, d) IN
           /\ new \in Packet
           /\ new.conn \in {d.conn, in.conn, Mixed} /\ new.hash \in {d.hash, in.hash, Mixed}
           /\ d.size >= 16 => /\ new.conn = d.conn /\ new.action = d.action
                              /\ new.transaction = d.transaction
           /\ d.size >= 98 => new.hash = d.hash /\ new.left = d.left /\ new.event = d.event
<1> DEFINE n == Overwritten(in, d)
<1>1. /\ d.size \in Nat /\ d.action \in 0..255 /\ d.left \in 0..255 /\ d.event \in 0..255
      /\ d.conn \in Senders \cup {Magic} /\ d.hash \in UdpTorrents /\ d.transaction \in Nat
  BY DEF Datagram
<1>2. /\ in.conn \in Senders \cup {Magic, Mixed} /\ in.action \in 0..255
      /\ in.transaction \in Nat \cup {Mixed} /\ in.hash \in UdpTorrents \cup {Mixed}
      /\ in.left \in 0..255 /\ in.event \in 0..255
  BY DEF Packet
<1>3. /\ n.conn \in {d.conn, in.conn, Mixed} /\ n.hash \in {d.hash, in.hash, Mixed}
      /\ n.transaction \in {d.transaction, in.transaction, Mixed}
      /\ n.action \in {d.action, in.action} /\ n.left \in {d.left, in.left}
      /\ n.event \in {d.event, in.event}
  BY DEF Overwritten, Part, Number
<1>4. n \in Packet
  <2>1. n = [conn |-> n.conn, action |-> n.action, transaction |-> n.transaction,
             hash |-> n.hash, left |-> n.left, event |-> n.event]
    BY DEF Overwritten
  <2>. HIDE DEF n
  <2>. QED
    BY <1>1, <1>2, <1>3, <2>1 DEF Packet
<1>5. d.size >= 16 => n.conn = d.conn /\ n.action = d.action /\ n.transaction = d.transaction
  BY <1>1 DEF Overwritten, Part, Number
<1>6. d.size >= 98 => n.hash = d.hash /\ n.left = d.left /\ n.event = d.event
  BY <1>1 DEF Overwritten, Part, Number
<1>. QED
  BY <1>3, <1>4, <1>5, <1>6

LEMMA ReceiveStep ==
    ASSUME UdpIInv, NEW w \in UdpWorkers, Receive(w)
    PROVE  UdpIInv'
<1>1. udp[w] \in Worker /\ Received(udp[w]) /\ PeersProper /\ udp[w].in \in Packet
  BY WorkerFields DEF UdpIInv
<1>2. PICK u : /\ udp' = [udp EXCEPT ![w] = u]
               /\ \/ \E d \in Sent : u = [udp[w] EXCEPT !.state = "handle",
                                                       !.in = Overwritten(udp[w].in, d),
                                                       !.remoteip = d.from, !.byte_count = d.size]
                  \/ \E a \in Senders : u = [udp[w] EXCEPT !.state = "handle", !.remoteip = a,
                                                          !.byte_count = ErrorSize]
  BY DEF Receive
<1>3. u \in Worker /\ u.state = "handle" /\ Received(u)
  <2>1. CASE \E d \in Sent : u = [udp[w] EXCEPT !.state = "handle",
                                                !.in = Overwritten(udp[w].in, d),
                                                !.remoteip = d.from, !.byte_count = d.size]
    <3>1. PICK d \in Sent : u = [udp[w] EXCEPT !.state = "handle",
                                              !.in = Overwritten(udp[w].in, d),
                                              !.remoteip = d.from, !.byte_count = d.size]
      BY <2>1
    <3>2. d \in Datagram /\ d.from \in Senders /\ d.size \in Nat
      <4>1. d \in Datagram
        BY SentTyped DEF UdpIInv
      <4>. QED
        BY <4>1 DEF Datagram
    <3> DEFINE n == Overwritten(udp[w].in, d)
    <3>3. /\ n \in Packet
          /\ n.conn \in {d.conn, udp[w].in.conn, Mixed} /\ n.hash \in {d.hash, udp[w].in.hash, Mixed}
          /\ d.size >= 16 => n.conn = d.conn /\ n.action = d.action /\ n.transaction = d.transaction
          /\ d.size >= 98 => n.hash = d.hash /\ n.left = d.left /\ n.event = d.event
      BY <1>1, <3>2, Overlaid
    <3>. HIDE DEF n
    <3>4. /\ u \in Worker
          /\ u.state = "handle" /\ u.in = n /\ u.remoteip = d.from /\ u.byte_count = d.size
      BY <1>1, <3>1, <3>2, <3>3 DEF Worker, n
    <3>5. Carried(d, u)
      BY <3>3, <3>4 DEF Carried
    <3>. QED
      BY <1>1, <3>2, <3>3, <3>4, <3>5 DEF Received
  <2>2. CASE \E a \in Senders : u = [udp[w] EXCEPT !.state = "handle", !.remoteip = a,
                                                   !.byte_count = ErrorSize]
    <3>1. PICK a \in Senders : u = [udp[w] EXCEPT !.state = "handle", !.remoteip = a,
                                                 !.byte_count = ErrorSize]
      BY <2>2
    <3>2. ErrorSize \in Nat
      BY DEF ErrorSize
    <3>3. /\ u \in Worker /\ u.state = "handle" /\ u.in = udp[w].in /\ u.remoteip = a
          /\ u.byte_count = ErrorSize
      BY <1>1, <3>1, <3>2 DEF Worker
    <3>. QED
      BY <1>1, <3>3 DEF Received
  <2>. QED
    BY <1>2, <2>1, <2>2
<1>4. Answered(u)
  BY <1>3 DEF Answered
<1>5. UNCHANGED <<sent, told, swarms>> /\ PeersProper'
  <2>1. UNCHANGED <<sent, told, swarms>>
    BY DEF Receive
  <2>. QED
    BY <1>1, <2>1 DEF PeersProper, IdUsed, Sent
<1>. QED
  BY <1>2, <1>3, <1>4, <1>5, WorkerFrame DEF UdpIInv, UdpTypeOK

\* The worker answers with a, or is done and waits.
LEMMA AnswerStep ==
    ASSUME UdpIInv, NEW w \in UdpWorkers, udp[w].state # "receive", NEW a \in UdpAnswer,
           Answers(w, a), Answered([udp[w] EXCEPT !.state = "send", !.out = a]),
           UNCHANGED <<sent, told>>,
           swarms' \in [UdpTorrents -> SUBSET UdpPeer], PeersProper'
    PROVE  UdpIInv'
<1> DEFINE u == [udp[w] EXCEPT !.state = "send", !.out = a]
<1>1. udp[w] \in Worker /\ Received(udp[w])
  BY WorkerFields
<1>2. /\ u \in Worker /\ u.state = "send" /\ u.in = udp[w].in
      /\ u.remoteip = udp[w].remoteip /\ u.byte_count = udp[w].byte_count
  BY <1>1 DEF Worker
<1>3. udp' = [udp EXCEPT ![w] = u]
  BY DEF Answers, UdpIInv, UdpTypeOK
<1>4. told \in SUBSET Senders /\ told' = told /\ sent' = sent /\ Answered(u)
  BY DEF UdpIInv, UdpTypeOK
<1>. HIDE DEF u
<1>5. Received(u)
  BY <1>1, <1>2 DEF Received, Carried
<1>. QED
  BY <1>2, <1>3, <1>4, <1>5, WorkerFrame

LEMMA DoneStep ==
    ASSUME UdpIInv, NEW w \in UdpWorkers, udp' = Done(w), UNCHANGED <<sent, swarms>>,
           told \subseteq told', told' \in SUBSET Senders
    PROVE  UdpIInv'
<1> DEFINE u == [udp[w] EXCEPT !.state = "receive", !.remoteip = 0, !.byte_count = 0,
                               !.out = NoAnswer]
<1>1. udp[w] \in Worker /\ Received(udp[w])
  BY WorkerFields
<1>2. NoAnswer \in UdpAnswer
  BY DEF NoAnswer, UdpAnswer
<1>3. u \in Worker /\ u.state = "receive" /\ u.in = udp[w].in
  BY <1>1, <1>2 DEF Worker
<1>4. udp' = [udp EXCEPT ![w] = u]
  BY DEF Done, UdpIInv, UdpTypeOK
<1>. HIDE DEF u
<1>5. Received(u) /\ Answered(u)
  BY <1>1, <1>3 DEF Received, Answered
<1>6. PeersProper'
  BY DEF UdpIInv, PeersProper, IdUsed, Sent
<1>7. swarms' \in [UdpTorrents -> SUBSET UdpPeer]
  BY DEF UdpIInv, UdpTypeOK
<1>. QED
  BY <1>3, <1>4, <1>5, <1>6, <1>7, WorkerFrame

\* What an answer needs that returns no peers.
LEMMA PlainAnswer ==
    ASSUME UdpIInv, NEW w \in UdpWorkers, udp[w].state # "receive", NEW a \in UdpAnswer,
           Answers(w, a), UNCHANGED <<sent, told, swarms>>,
           a.count <= 75, a.action = CONNECT => a.conn = udp[w].remoteip,
           a.action = SCRAPE => /\ udp[w].in.action = SCRAPE /\ udp[w].byte_count >= 16
                                /\ udp[w].in.conn = udp[w].remoteip
                                /\ udp[w].in.transaction = a.transaction,
           a.action # ANNOUNCE, a.peers = {}
    PROVE  UdpIInv'
<1> DEFINE u == [udp[w] EXCEPT !.state = "send", !.out = a]
<1>1. udp[w] \in Worker
  BY WorkerFields
<1>2. /\ u.out = a /\ u.in = udp[w].in /\ u.remoteip = udp[w].remoteip
      /\ u.byte_count = udp[w].byte_count
  BY <1>1 DEF Worker
<1>3. Answered(u)
  <2>. HIDE DEF u
  <2>. QED
    BY <1>2 DEF Answered
<1>4. PeersProper'
  BY DEF UdpIInv, PeersProper, IdUsed, Sent
<1>5. swarms' \in [UdpTorrents -> SUBSET UdpPeer]
  BY DEF UdpIInv, UdpTypeOK
<1>. QED
  BY <1>3, <1>4, <1>5, AnswerStep

LEMMA IgnoreStep ==
    ASSUME UdpIInv, NEW w \in UdpWorkers, Ignore(w)
    PROVE  UdpIInv'
<1>1. udp' = Done(w) /\ UNCHANGED <<sent, told, swarms>>
  BY DEF Ignore
<1>2. told' \in SUBSET Senders /\ told \subseteq told'
  BY <1>1 DEF UdpIInv, UdpTypeOK
<1>. QED
  BY <1>1, <1>2, DoneStep

LEMMA SendAnswerStep ==
    ASSUME UdpIInv, NEW w \in UdpWorkers, SendAnswer(w)
    PROVE  UdpIInv'
<1>1. udp[w].state = "send" /\ udp' = Done(w) /\ UNCHANGED <<sent, swarms>>
  BY DEF SendAnswer
<1>2. udp[w].remoteip \in Senders /\ Answered(udp[w]) /\ told \in SUBSET Senders
  BY <1>1, WorkerFields DEF UdpIInv, UdpTypeOK
<1>3. told' = told \/ (udp[w].out.action = CONNECT /\ told' = told \cup {udp[w].out.conn})
  BY DEF SendAnswer
<1>4. told \subseteq told' /\ told' \in SUBSET Senders
  BY <1>1, <1>2, <1>3 DEF Answered
<1>. QED
  BY <1>1, <1>4, DoneStep

\* The transaction of what is in a worker's buffer can be that of an answer.
LEMMA Transaction ==
    ASSUME UdpIInv, NEW w \in UdpWorkers
    PROVE  udp[w].in.transaction \in Nat \cup {Mixed}
BY WorkerFields DEF Packet

LEMMA MismatchStep ==
    ASSUME UdpIInv, NEW w \in UdpWorkers, Mismatch(w)
    PROVE  UdpIInv'
<1> DEFINE a == [NoAnswer EXCEPT !.action = 3, !.transaction = udp[w].in.transaction]
<1>1. udp[w].state = "handle" /\ Answers(w, a) /\ UNCHANGED <<sent, told, swarms>>
  BY DEF Mismatch
<1>2. a \in UdpAnswer /\ a.action = 3 /\ a.count = 0 /\ a.peers = {}
  BY Transaction DEF NoAnswer, UdpAnswer
<1>. HIDE DEF a
<1>. QED
  BY <1>1, <1>2, PlainAnswer DEF CONNECT, ANNOUNCE, SCRAPE

LEMMA ConnectStep ==
    ASSUME UdpIInv, NEW w \in UdpWorkers, Connect(w)
    PROVE  UdpIInv'
<1> DEFINE a == [NoAnswer EXCEPT !.action = CONNECT, !.transaction = udp[w].in.transaction,
                                 !.conn = udp[w].remoteip]
<1>1. udp[w].state = "handle" /\ Answers(w, a) /\ UNCHANGED <<sent, told, swarms>>
  BY DEF Connect, udp_make_connectionid
<1>2. udp[w].remoteip \in Senders
  BY <1>1, WorkerFields
<1>3. a \in UdpAnswer /\ a.action = 0 /\ a.conn = udp[w].remoteip /\ a.count = 0 /\ a.peers = {}
  BY <1>2, Transaction DEF NoAnswer, CONNECT, UdpAnswer
<1>. HIDE DEF a
<1>. QED
  BY <1>1, <1>3, PlainAnswer DEF CONNECT, ANNOUNCE, SCRAPE

\* A scrape is answered for a number of torrents between 0 and 75, if its length is at least 16.
LEMMA ScrapeCount ==
    ASSUME NEW n \in Nat, n >= 16
    PROVE  scrape_count(n) \in 0..75
<1>1. (n - 16 + 19) \div 20 \in Nat
  OBVIOUS
<1>. QED
  BY <1>1 DEF scrape_count

LEMMA UdpScrapeStep ==
    ASSUME UdpIInv, NEW w \in UdpWorkers, UdpScrape(w)
    PROVE  UdpIInv'
<1> DEFINE a == [NoAnswer EXCEPT !.action = SCRAPE, !.transaction = udp[w].in.transaction,
                                 !.count = scrape_count(udp[w].byte_count)]
<1>1. /\ udp[w].state = "handle" /\ Answers(w, a) /\ UNCHANGED <<sent, told, swarms>>
      /\ udp[w].byte_count >= 16 /\ udp[w].in.action = SCRAPE
      /\ udp[w].in.conn = udp[w].remoteip
  BY DEF UdpScrape, ConnectionIdMatches, udp_make_connectionid, CONNECT, SCRAPE
<1>2. scrape_count(udp[w].byte_count) \in 0..75
  BY <1>1, WorkerFields, ScrapeCount DEF Worker
<1>3. /\ a \in UdpAnswer /\ a.action = 2 /\ a.transaction = udp[w].in.transaction
      /\ a.count \in 0..75 /\ a.peers = {}
  <2> DEFINE n == scrape_count(udp[w].byte_count)
  <2>1. n \in 0..75 /\ n \in Nat /\ udp[w].in.transaction \in Nat \cup {Mixed}
    BY <1>2, Transaction
  <2>. HIDE DEF n
  <2>2. a = [NoAnswer EXCEPT !.action = SCRAPE, !.transaction = udp[w].in.transaction,
                             !.count = n]
    BY DEF n
  <2>. HIDE DEF a
  <2>. QED
    BY <2>1, <2>2 DEF NoAnswer, SCRAPE, UdpAnswer
<1>. HIDE DEF a
<1>. QED
  BY <1>1, <1>3, PlainAnswer DEF CONNECT, ANNOUNCE, SCRAPE

\* The id in the buffer is that of the address the peer gets, whether the datagram came from there
\* or the receive failed; the rest of the announce is of the same datagram if one was received.
LEMMA UdpAnnounceStep ==
    ASSUME UdpIInv, NEW w \in UdpWorkers, UdpAnnounce(w)
    PROVE  UdpIInv'
<1> DEFINE u == udp[w]
           t == u.in.hash
           stopped == u.in.event = EVENT_STOPPED
           others == {p \in swarms[t] : p.ip # u.remoteip}
           peer == [ip |-> u.remoteip, seeding |-> u.in.left = 0,
                    received |-> u.byte_count # ErrorSize]
           after == IF stopped THEN others ELSE others \cup {peer}
           answer_peers == IF t \in UdpTorrents /\ ~stopped THEN after ELSE {}
           a == [NoAnswer EXCEPT !.action = ANNOUNCE, !.transaction = u.in.transaction,
                                 !.peers = answer_peers]
<1>1. /\ u.state = "handle" /\ Answers(w, a) /\ UNCHANGED <<sent, told>>
      /\ swarms' = IF t \in UdpTorrents THEN [swarms EXCEPT ![t] = after] ELSE swarms
      /\ u.in.action = ANNOUNCE /\ u.in.conn = u.remoteip /\ u.byte_count >= 98
  <2>1. /\ u.state = "handle" /\ u.byte_count >= 98 /\ UNCHANGED <<sent, told>>
        /\ u.in.action = ANNOUNCE /\ ConnectionIdMatches(u)
    BY DEF UdpAnnounce
  <2>2. swarms' = IF t \in UdpTorrents THEN [swarms EXCEPT ![t] = after] ELSE swarms
    BY Zenon DEF UdpAnnounce
  <2>3. Answers(w, a)
    BY Zenon DEF UdpAnnounce
  <2>. QED
    BY <2>1, <2>2, <2>3 DEF ConnectionIdMatches, udp_make_connectionid, CONNECT, ANNOUNCE
<1>2. u \in Worker /\ Received(u) /\ u.remoteip \in Senders /\ IdUsed(u.remoteip)
  <2>1. u \in Worker /\ Received(u) /\ u.remoteip \in Senders
    BY <1>1, WorkerFields
  <2>2. PICK d \in Sent : d.conn = u.remoteip
    BY <1>1, <2>1, UdpAssumption DEF Received
  <2>3. u.remoteip \in told
    BY <2>1, <2>2, UdpAssumption DEF UdpIInv, IdsTold
  <2>. QED
    BY <2>1, <2>2, <2>3 DEF IdUsed
<1>3. swarms \in [UdpTorrents -> SUBSET UdpPeer]
  BY DEF UdpIInv, UdpTypeOK
<1>4. t \in UdpTorrents => after \in SUBSET UdpPeer
  <2>1. peer \in UdpPeer
    BY <1>2 DEF UdpPeer
  <2>2. t \in UdpTorrents => others \subseteq UdpPeer
    BY <1>3
  <2>. QED
    BY <2>1, <2>2
<1>5. swarms' \in [UdpTorrents -> SUBSET UdpPeer]
  BY <1>1, <1>3, <1>4
<1>6. ASSUME t \in UdpTorrents, NEW p \in after
      PROVE  /\ IdUsed(p.ip)
             /\ \E d \in Sent : d.hash = t
             /\ p.received => \E d \in Sent : Announced(d, t, p.ip) /\ p.seeding = (d.left = 0)
  <2>1. CASE p \in others
    BY <1>6, <2>1 DEF UdpIInv, PeersProper
  <2>2. CASE p = peer /\ ~stopped
    <3>1. \E d \in Sent : d.hash = t
      BY <1>2, <1>6, UdpAssumption DEF Received
    <3>2. p.ip = u.remoteip /\ p.seeding = (u.in.left = 0) /\ p.received = (u.byte_count # ErrorSize)
      BY <2>2
    <3>3. ASSUME u.byte_count # ErrorSize
          PROVE  \E d \in Sent : Announced(d, t, u.remoteip) /\ (d.left = 0) = (u.in.left = 0)
      <4>1. PICK d \in Sent : Carried(d, u)
        BY <1>1, <1>2, <3>3 DEF Received
      <4>. QED
        BY <1>1, <1>2, <2>2, <4>1 DEF Carried, Announced, Worker
    <3>. HIDE DEF peer, t
    <3>. QED
      BY <1>2, <3>1, <3>2, <3>3
  <2>. QED
    BY <1>6, <2>1, <2>2
<1>7. PeersProper'
  <2>1. \A s \in UdpTorrents : swarms'[s] = IF s = t THEN after ELSE swarms[s]
    BY <1>1, <1>3
  <2>2. Sent' = Sent /\ told' = told
    BY <1>1 DEF Sent
  <2>. HIDE DEF after
  <2>. QED
    BY <1>6, <2>1, <2>2 DEF UdpIInv, PeersProper, IdUsed
<1>8. answer_peers \in SUBSET UdpPeer
  BY <1>4
<1>9. ASSUME NEW p \in answer_peers, p.received PROVE \E e \in Sent : Announced(e, t, p.ip)
  BY <1>6, <1>9
<1>. HIDE DEF answer_peers, after, others, peer, stopped
<1>10. /\ a \in UdpAnswer /\ a.action = 1 /\ a.transaction = u.in.transaction /\ a.count = 0
       /\ a.peers = answer_peers
  BY <1>8, Transaction DEF NoAnswer, ANNOUNCE, UdpAnswer
<1>. HIDE DEF a
<1>11. Answered([u EXCEPT !.state = "send", !.out = a])
  <2> DEFINE v == [u EXCEPT !.state = "send", !.out = a]
  <2>1. v.out = a /\ v.in = u.in /\ v.remoteip = u.remoteip /\ v.byte_count = u.byte_count
    BY <1>2 DEF Worker
  <2>2. u.byte_count >= 16
    BY <1>1, <1>2 DEF Worker
  <2>. HIDE DEF v
  <2>3. Answered(v)
    BY <1>1, <1>2, <1>9, <1>10, <2>1, <2>2 DEF Answered, CONNECT, ANNOUNCE
  <2>. QED
    BY <2>3 DEF v
<1>. QED
  BY <1>1, <1>5, <1>7, <1>10, <1>11, AnswerStep

-----------------------------------------------------------------------------

\* What the workers hold and what was sent agree at every step, for any number of each and whatever
\* a datagram leaves of older ones in the buffer it is received into.
THEOREM UdpInvariance == UdpSpec => []UdpIInv
<1>1. UdpIInv /\ [UdpNext]_udpVars => UdpIInv'
  <2>1. UdpIInv /\ UNCHANGED udpVars => UdpIInv'
    BY DEF udpVars, UdpIInv, UdpTypeOK, IdsTold, PeersProper, IdUsed, Received, Answered, Sent
  <2>. QED
    BY <2>1, ClientSendStep, ReceiveStep, IgnoreStep, MismatchStep, ConnectStep, UdpAnnounceStep,
       UdpScrapeStep, SendAnswerStep
    DEF UdpNext
<1>. QED
  BY UdpInitial, <1>1, PTL DEF UdpSpec

\* handle_udp6 keeps its clients apart, however many workers serve the socket, whatever is lost,
\* doubled or reordered and however short datagrams are: whoever is a peer has sent the id told to
\* it, and an answer to a datagram that was received is to its sender, of its transaction and with
\* peers of its torrent.  When a receive failed the answer still is to an address whose id was sent.
THEOREM ClientsApart == UdpSpec => []UdpExact
<1>1. UdpIInv => PeersAnnounced
  BY DEF UdpIInv, PeersProper, IdUsed, PeersAnnounced
<1>2. UdpIInv => AnswersOwn
  <2>. SUFFICES ASSUME UdpIInv, NEW w \in UdpWorkers, udp[w].state = "send",
                       udp[w].out.action \in {ANNOUNCE, SCRAPE}
                PROVE  \E d \in Sent :
                         /\ d.conn = udp[w].remoteip
                         /\ udp[w].byte_count # ErrorSize =>
                              /\ d.action = udp[w].out.action /\ d.from = udp[w].remoteip
                              /\ d.transaction = udp[w].out.transaction
                              /\ \A p \in udp[w].out.peers :
                                    p.received => \E e \in Sent : Announced(e, d.hash, p.ip)
    BY DEF AnswersOwn
  <2>1. Received(udp[w]) /\ Answered(udp[w]) /\ udp[w].remoteip \in Senders
    BY WorkerFields DEF UdpIInv
  <2>2. CASE udp[w].byte_count = ErrorSize
    <3>1. udp[w].in.conn = udp[w].remoteip
      BY <2>1 DEF Answered
    <3>. QED
      BY <2>1, <2>2, <3>1, UdpAssumption DEF Received
  <2>3. CASE udp[w].byte_count # ErrorSize
    <3>1. PICK d \in Sent : Carried(d, udp[w])
      BY <2>1, <2>3 DEF Received
    <3>2. /\ d.size >= 16 /\ d.conn = udp[w].remoteip /\ d.from = udp[w].remoteip
          /\ d.action = udp[w].out.action /\ d.transaction = udp[w].out.transaction
      BY <2>1, <3>1 DEF Carried, Answered
    <3>3. udp[w].out.peers # {} => d.hash = udp[w].in.hash
      BY <2>1, <3>1 DEF Carried, Answered
    <3>4. \A p \in udp[w].out.peers :
             p.received => \E e \in Sent : Announced(e, d.hash, p.ip)
      BY <2>1, <3>3 DEF Answered
    <3>. QED
      BY <3>2, <3>4
  <2>. QED
    BY <2>2, <2>3
<1>3. UdpIInv => AnswersBounded
  BY DEF UdpIInv, Answered, AnswersBounded, udp_make_connectionid
<1>. QED
  BY UdpInvariance, <1>1, <1>2, <1>3, PTL DEF UdpExact

-----------------------------------------------------------------------------
(* A full scrape: chunks of memory *)

Chunk == [data : Seq(Nat), iov_len : Nat, pages : Nat, from : Nat]

\* Where the next byte of the last chunk stands among all bytes.
End(chunks) == Final(chunks).from + Used(chunks)

\* A chunk holds what stands there in p, in its own pages.
ChunkOK(chunks, i, p) ==
    /\ Len(chunks[i].data) <= OT_SCRAPE_CHUNK_SIZE
    /\ Len(chunks[i].data) <= chunks[i].pages * PageSize
    /\ i < Len(chunks) => chunks[i].iov_len = Len(chunks[i].data)
    /\ chunks[i].from = IF i = 1 THEN 0 ELSE chunks[i - 1].from + Len(chunks[i - 1].data)
    /\ StandsAt(chunks[i].data, chunks[i].from, p)

\* The bytes of the first k chunks.
BytesTo(chunks, k) == UNION {{i} \X (1..chunks[i].iov_len) : i \in 1..k}

Counted(chunks, k, n) == IsFiniteSet(BytesTo(chunks, k)) /\ Cardinality(BytesTo(chunks, k)) = n

ChunksOK(chunks, p) ==
    /\ chunks \in Seq(Chunk) /\ Len(chunks) >= 1
    /\ \A i \in 1..Len(chunks) : ChunkOK(chunks, i, p)
    /\ Counted(chunks, Len(chunks) - 1, Final(chunks).from)

\* The last chunk has all its pages, and behind it come what zlib holds and its input.
StoreOK(chunks, h, in, p) ==
    /\ ChunksOK(chunks, p)
    /\ Final(chunks).pages = Pages(OT_SCRAPE_CHUNK_SIZE)
    /\ h \in Seq(Nat) /\ in \in Seq(Nat) /\ p \in Seq(Nat)
    /\ StandsAt(h, End(chunks), p)
    /\ StandsAt(in, End(chunks) + Len(h), p)
    /\ Len(p) = End(chunks) + Len(h) + Len(in)

\* What is assumed of the sizes.
LEMMA SizesTyped ==
    /\ OT_SCRAPE_CHUNK_SIZE \in Nat /\ OT_SCRAPE_MAXENTRYLEN \in Nat /\ PageSize \in Nat
    /\ PageSize > 0 /\ OT_SCRAPE_MAXENTRYLEN > 1 /\ OT_SCRAPE_CHUNK_SIZE > 2 * OT_SCRAPE_MAXENTRYLEN
    /\ BucketCount \in Nat /\ BucketCount > 0
  BY ScrapeAssumption DEF ScrapeAssumption

\* The pages of a chunk hold it all.
LEMMA PagesWhole ==
    /\ Pages(OT_SCRAPE_CHUNK_SIZE) \in Nat
    /\ Pages(OT_SCRAPE_CHUNK_SIZE) * PageSize = OT_SCRAPE_CHUNK_SIZE
  <1>1. \A c \in Nat, d \in Nat \ {0} : c % d = 0 => (c \div d) \in Nat /\ (c \div d) * d = c
    OBVIOUS
  <1>2. OT_SCRAPE_CHUNK_SIZE \in Nat /\ PageSize \in Nat \ {0} /\ OT_SCRAPE_CHUNK_SIZE % PageSize = 0
    BY ScrapeAssumption DEF ScrapeAssumption
  <1> QED
    BY <1>1, <1>2, Zenon DEF Pages

\* The pages up to the one behind the last that is full hold what is written.
LEMMA PagesEnough ==
    ASSUME NEW n \in Nat
    PROVE  /\ 1 + Pages(n) \in Nat
           /\ n <= (1 + Pages(n)) * PageSize
  <1>1. \A c \in Nat, d \in Nat \ {0} : (1 + (c \div d)) \in Nat /\ c <= (1 + (c \div d)) * d
    <2> SUFFICES ASSUME NEW c \in Nat, NEW d \in Nat \ {0}
                 PROVE  (1 + (c \div d)) \in Nat /\ c <= (1 + (c \div d)) * d
      OBVIOUS
    <2>1. (c \div d) \in Nat /\ (c % d) \in 0..(d - 1)
      OBVIOUS
    <2>2. c = d * (c \div d) + (c % d)
      OBVIOUS
    <2>3. \A q \in Nat, e \in Nat, f \in Nat : f <= e => e * q + f <= (1 + q) * e
      OBVIOUS
    <2>4. d * (c \div d) + (c % d) <= (1 + (c \div d)) * d
      <3>1. (c % d) \in Nat /\ (c % d) <= d /\ d \in Nat
        BY <2>1
      <3> QED
        BY <2>1, <2>3, <3>1, ZenonT(30)
    <2> QED
      BY <2>1, <2>2, <2>4
  <1>2. PageSize \in Nat \ {0}
    BY SizesTyped
  <1> QED
    BY <1>1, <1>2, Zenon DEF Pages

\* What stands in a sequence stands in a longer one that begins with it.
LEMMA StandsOn ==
    ASSUME NEW b \in Seq(Nat), NEW f \in Nat, NEW p \in Seq(Nat), NEW q \in Seq(Nat), StandsAt(b, f, p)
    PROVE  StandsAt(b, f, p \o q)
  <1>1. Len(b) \in Nat /\ Len(p) \in Nat /\ Len(q) \in Nat
    BY LenProperties
  <1>2. /\ Len(p \o q) = Len(p) + Len(q)
        /\ \A i \in 1..(Len(p) + Len(q)) : (p \o q)[i] = IF i <= Len(p) THEN p[i] ELSE q[i - Len(p)]
    BY ConcatProperties
  <1> QED
    BY <1>1, <1>2 DEF StandsAt

\* Two parts, one behind the other, stand as one.
LEMMA StandsTogether ==
    ASSUME NEW b \in Seq(Nat), NEW c \in Seq(Nat), NEW f \in Nat, NEW p \in Seq(Nat),
           StandsAt(b, f, p), StandsAt(c, f + Len(b), p)
    PROVE  b \o c \in Seq(Nat) /\ Len(b \o c) = Len(b) + Len(c) /\ StandsAt(b \o c, f, p)
  <1>1. Len(b) \in Nat /\ Len(c) \in Nat /\ Len(p) \in Nat
    BY LenProperties
  <1>2. /\ b \o c \in Seq(Nat)
        /\ Len(b \o c) = Len(b) + Len(c)
        /\ \A i \in 1..(Len(b) + Len(c)) : (b \o c)[i] = IF i <= Len(b) THEN b[i] ELSE c[i - Len(b)]
    BY ConcatProperties
  <1>3. ASSUME NEW i \in 1..(Len(b) + Len(c))
        PROVE  (b \o c)[i] = p[f + i]
    <2>1. CASE i <= Len(b)
      BY <1>1, <1>2, <2>1 DEF StandsAt
    <2>2. CASE i > Len(b)
      <3>1. (i - Len(b)) \in 1..Len(c) /\ f + Len(b) + (i - Len(b)) = f + i
        BY <1>1, <2>2
      <3> QED
        BY <1>1, <1>2, <2>2, <3>1 DEF StandsAt
    <2> QED
      BY <1>1, <2>1, <2>2
  <1> QED
    BY <1>1, <1>2, <1>3 DEF StandsAt

\* A part of what stands there stands where it is.
LEMMA StandsInPart ==
    ASSUME NEW b \in Seq(Nat), NEW f \in Nat, NEW p \in Seq(Nat), StandsAt(b, f, p),
           NEW m \in Nat, NEW n \in m..Len(b)
    PROVE  /\ SubSeq(b, m + 1, n) \in Seq(Nat)
           /\ Len(SubSeq(b, m + 1, n)) = n - m
           /\ StandsAt(SubSeq(b, m + 1, n), f + m, p)
  <1>1. Len(b) \in Nat /\ Len(p) \in Nat /\ n \in Nat /\ m <= n /\ n <= Len(b)
    BY LenProperties
  <1>2. \A i \in (m + 1)..n : b[i] \in Nat
    BY <1>1, ElementOfSeq
  <1>3. /\ SubSeq(b, m + 1, n) \in Seq(Nat)
        /\ Len(SubSeq(b, m + 1, n)) = IF m + 1 <= n THEN n - (m + 1) + 1 ELSE 0
        /\ \A i \in 1..(n - (m + 1) + 1) : SubSeq(b, m + 1, n)[i] = b[(m + 1) + i - 1]
    BY <1>2, SubSeqProperties
  <1>4. Len(SubSeq(b, m + 1, n)) = n - m
    BY <1>3
  <1>5. \A i \in 1..(n - m) : SubSeq(b, m + 1, n)[i] = p[f + m + i]
    <2> SUFFICES ASSUME NEW i \in 1..(n - m)
                 PROVE  SubSeq(b, m + 1, n)[i] = p[f + m + i]
      OBVIOUS
    <2>1. (m + 1) + i - 1 = m + i /\ m + i \in 1..Len(b) /\ f + (m + i) = f + m + i
          /\ i \in 1..(n - (m + 1) + 1)
      BY <1>1
    <2> QED
      BY <1>3, <2>1 DEF StandsAt
  <1>6. (f + m) + (n - m) <= Len(p)
    <2>1. f + Len(b) <= Len(p)
      BY DEF StandsAt
    <2> QED
      BY <1>1, <2>1
  <1>7. StandsAt(SubSeq(b, m + 1, n), f + m, p)
    BY <1>4, <1>5, <1>6 DEF StandsAt
  <1> QED
    BY <1>3, <1>4, <1>7

\* The types of what chunks are made of.
LEMMA ChunkFacts ==
    ASSUME NEW chunks \in Seq(Chunk), Len(chunks) >= 1
    PROVE  /\ Len(chunks) \in Nat
           /\ \A i \in 1..Len(chunks) :
                /\ chunks[i] \in Chunk
                /\ chunks[i].data \in Seq(Nat) /\ Len(chunks[i].data) \in Nat
                /\ chunks[i].iov_len \in Nat /\ chunks[i].pages \in Nat /\ chunks[i].from \in Nat
           /\ Used(chunks) \in Nat /\ Final(chunks).from \in Nat /\ End(chunks) \in Nat
  <1>1. Len(chunks) \in Nat
    BY LenProperties
  <1>2. ASSUME NEW i \in 1..Len(chunks)
        PROVE  /\ chunks[i] \in Chunk
               /\ chunks[i].data \in Seq(Nat) /\ Len(chunks[i].data) \in Nat
               /\ chunks[i].iov_len \in Nat /\ chunks[i].pages \in Nat /\ chunks[i].from \in Nat
    <2>1. chunks[i] \in Chunk
      BY ElementOfSeq
    <2>2. chunks[i].data \in Seq(Nat)
      BY <2>1 DEF Chunk
    <2> QED
      BY <2>1, <2>2, LenProperties DEF Chunk
  <1>3. Len(chunks) \in 1..Len(chunks)
    BY <1>1
  <1> QED
    BY <1>1, <1>2, <1>3 DEF Used, Final, End

\* What Written, iovec_fixlast and iovec_increase do to the chunks.
LEMMA WrittenFields ==
    ASSUME NEW chunks \in Seq(Chunk), Len(chunks) >= 1, NEW bytes \in Seq(Nat)
    PROVE  LET new == Written(chunks, bytes)
               n == Len(chunks)
           IN /\ new \in Seq(Chunk) /\ Len(new) = n
              /\ \A i \in 1..n : i # n => new[i] = chunks[i]
              /\ new[n].data = chunks[n].data \o bytes
              /\ new[n].iov_len = chunks[n].iov_len
              /\ new[n].pages = chunks[n].pages
              /\ new[n].from = chunks[n].from
  <1> DEFINE n == Len(chunks)
             c == [chunks[n] EXCEPT !.data = @ \o bytes]
  <1>1. n \in 1..Len(chunks) /\ chunks[n] \in Chunk /\ chunks[n].data \in Seq(Nat)
    BY ChunkFacts
  <1>2. (chunks[n].data \o bytes) \in Seq(Nat)
    BY <1>1, ConcatProperties
  <1>3. c \in Chunk /\ c.data = chunks[n].data \o bytes /\ c.iov_len = chunks[n].iov_len
        /\ c.pages = chunks[n].pages /\ c.from = chunks[n].from
    BY <1>1, <1>2 DEF Chunk
  <1>4. Written(chunks, bytes) = [chunks EXCEPT ![n] = c]
    BY DEF Written
  <1> HIDE DEF c
  <1>5. /\ [chunks EXCEPT ![n] = c] \in Seq(Chunk)
        /\ Len([chunks EXCEPT ![n] = c]) = Len(chunks)
        /\ \A j \in 1..Len(chunks) : [chunks EXCEPT ![n] = c][j] = IF j = n THEN c ELSE chunks[j]
    BY <1>1, <1>3, ExceptSeq
  <1> QED
    BY <1>1, <1>3, <1>4, <1>5

LEMMA FixedFields ==
    ASSUME NEW chunks \in Seq(Chunk), Len(chunks) >= 1
    PROVE  LET new == iovec_fixlast(chunks)
               n == Len(chunks)
               pages == 1 + Pages(Used(chunks))
           IN /\ new \in Seq(Chunk) /\ Len(new) = n
              /\ \A i \in 1..n : i # n => new[i] = chunks[i]
              /\ new[n].data = chunks[n].data
              /\ new[n].iov_len = Len(chunks[n].data)
              /\ new[n].pages = IF chunks[n].pages < pages THEN chunks[n].pages ELSE pages
              /\ new[n].from = chunks[n].from
  <1> DEFINE n == Len(chunks)
             m == 1 + Pages(Used(chunks))
             q == IF chunks[n].pages < m THEN chunks[n].pages ELSE m
             c == [chunks[n] EXCEPT !.iov_len = Used(chunks), !.pages = q]
  <1>1. n \in 1..Len(chunks) /\ chunks[n] \in Chunk /\ Used(chunks) \in Nat /\ chunks[n].pages \in Nat
    BY ChunkFacts
  <1>2. q \in Nat
    BY <1>1, PagesEnough
  <1>3. Used(chunks) = Len(chunks[n].data)
    BY DEF Used, Final
  <1>4. iovec_fixlast(chunks) = [chunks EXCEPT ![n] = c]
    BY DEF iovec_fixlast
  <1>5. c \in Chunk /\ c.data = chunks[n].data /\ c.iov_len = Used(chunks)
        /\ c.pages = q /\ c.from = chunks[n].from
    <2> HIDE DEF q
    <2> QED
      BY <1>1, <1>2 DEF Chunk
  <1> HIDE DEF c
  <1>6. /\ [chunks EXCEPT ![n] = c] \in Seq(Chunk)
        /\ Len([chunks EXCEPT ![n] = c]) = Len(chunks)
        /\ \A j \in 1..Len(chunks) : [chunks EXCEPT ![n] = c][j] = IF j = n THEN c ELSE chunks[j]
    BY <1>1, <1>5, ExceptSeq
  <1> QED
    BY <1>1, <1>3, <1>4, <1>5, <1>6

\* The chunk that iovec_increase adds.
NewChunk(from) ==
    [data |-> <<>>, iov_len |-> OT_SCRAPE_CHUNK_SIZE, pages |-> Pages(OT_SCRAPE_CHUNK_SIZE), from |-> from]

\* It is a chunk, and the one that is appended.
LEMMA NewChunkFields ==
    ASSUME NEW from \in Nat
    PROVE  NewChunk(from) \in Chunk
  <1>1. <<>> \in Seq(Nat)
    BY EmptySeq
  <1> QED
    BY <1>1, SizesTyped, PagesWhole DEF NewChunk, Chunk

LEMMA IncreasedFields ==
    ASSUME NEW chunks \in Seq(Chunk), Len(chunks) >= 1
    PROVE  LET new == iovec_increase(chunks)
               n == Len(chunks)
           IN /\ new \in Seq(Chunk) /\ Len(new) = n + 1
              /\ \A i \in 1..n : new[i] = chunks[i]
              /\ new[n + 1] = NewChunk(End(chunks))
  <1>1. chunks # <<>> /\ End(chunks) \in Nat
    BY ChunkFacts, EmptySeq
  <1>2. NewChunk(End(chunks)) \in Chunk
    BY <1>1, NewChunkFields
  <1>3. iovec_increase(chunks) = Append(chunks, NewChunk(End(chunks)))
    BY <1>1 DEF iovec_increase, NewChunk, End
  <1> QED
    BY <1>2, <1>3, AppendProperties

-----------------------------------------------------------------------------

\* The bytes of the first chunks depend on their iov_len only.
LEMMA BytesSame ==
    ASSUME NEW one, NEW two, NEW k \in Nat, NEW n,
           \A i \in 1..k : one[i].iov_len = two[i].iov_len, Counted(one, k, n)
    PROVE  Counted(two, k, n)
  <1>1. BytesTo(one, k) = BytesTo(two, k)
    BY DEF BytesTo
  <1> QED
    BY <1>1 DEF Counted

\* Numbers from 1.
LEMMA CountTo ==
    ASSUME NEW m \in Nat
    PROVE  IsFiniteSet(1..m) /\ Cardinality(1..m) = m
  <1>1. IsFiniteSet(1..m) /\ Cardinality(1..m) = IF 1 > m THEN 0 ELSE m - 1 + 1
    BY FS_Interval
  <1> QED
    BY <1>1

\* One chunk more.
LEMMA BytesMore ==
    ASSUME NEW chunks, NEW k \in Nat, NEW n \in Nat, Counted(chunks, k, n), chunks[k + 1].iov_len \in Nat
    PROVE  Counted(chunks, k + 1, n + chunks[k + 1].iov_len)
  <1> DEFINE len == chunks[k + 1].iov_len
             last == {k + 1} \X (1..len)
  <1>1. IsFiniteSet(last) /\ Cardinality(last) = len
    <2>1. IsFiniteSet({k + 1}) /\ Cardinality({k + 1}) = 1
      BY FS_Singleton
    <2>2. IsFiniteSet(1..len) /\ Cardinality(1..len) = len
      BY CountTo
    <2>3. IsFiniteSet({k + 1} \X (1..len))
          /\ Cardinality({k + 1} \X (1..len)) = Cardinality({k + 1}) * Cardinality(1..len)
      BY <2>1, <2>2, FS_Product
    <2> QED
      BY <2>1, <2>2, <2>3
  <1>2. BytesTo(chunks, k + 1) = BytesTo(chunks, k) \cup last
    <2>1. 1..(k + 1) = (1..k) \cup {k + 1}
      OBVIOUS
    <2> QED
      BY <2>1, Zenon DEF BytesTo
  <1>3. BytesTo(chunks, k) \cap last = {}
    <2>1. (k + 1) \notin 1..k
      OBVIOUS
    <2> QED
      BY <2>1 DEF BytesTo
  <1> HIDE DEF last
  <1>4. /\ IsFiniteSet(BytesTo(chunks, k) \cup last)
        /\ Cardinality(BytesTo(chunks, k) \cup last)
             = Cardinality(BytesTo(chunks, k)) + Cardinality(last) - Cardinality(BytesTo(chunks, k) \cap last)
    BY <1>1, FS_Union DEF Counted
  <1>5. Cardinality({}) = 0
    BY FS_EmptySet
  <1>6. len \in Nat /\ Cardinality(BytesTo(chunks, k)) = n
    BY DEF Counted
  <1> HIDE DEF len
  <1>7. Cardinality(BytesTo(chunks, k) \cup last) = n + len
    <2>1. Cardinality(BytesTo(chunks, k) \cap last) = 0
      BY <1>3, <1>5, Zenon
    <2> QED
      BY <1>1, <1>4, <1>6, <2>1
  <1>8. Counted(chunks, k + 1, n + len)
    BY <1>2, <1>4, <1>7 DEF Counted
  <1> QED
    BY <1>8 DEF len

\* No chunk has no bytes.
LEMMA BytesNone ==
    ASSUME NEW chunks
    PROVE  Counted(chunks, 0, 0)
  <1>1. BytesTo(chunks, 0) = {}
    BY DEF BytesTo
  <1> QED
    BY <1>1, FS_EmptySet DEF Counted

-----------------------------------------------------------------------------

\* What ChunkOK says of a chunk depends on it and the one before it.
LEMMA ChunkSame ==
    ASSUME NEW one, NEW two, NEW i \in Nat \ {0}, NEW p, ChunkOK(one, i, p),
           two[i].data = one[i].data, two[i].pages = one[i].pages, two[i].from = one[i].from,
           i < Len(two) => two[i].iov_len = Len(two[i].data),
           i > 1 => two[i - 1].from = one[i - 1].from /\ two[i - 1].data = one[i - 1].data
    PROVE  ChunkOK(two, i, p)
  BY DEF ChunkOK

\* What is printed behind p disturbs no chunk.
LEMMA ChunksKeep ==
    ASSUME NEW chunks, NEW p \in Seq(Nat), NEW q \in Seq(Nat), ChunksOK(chunks, p)
    PROVE  ChunksOK(chunks, p \o q)
  <1>1. chunks \in Seq(Chunk) /\ Len(chunks) >= 1
    BY DEF ChunksOK
  <1>2. ASSUME NEW i \in 1..Len(chunks)
        PROVE  ChunkOK(chunks, i, p \o q)
    <2>1. chunks[i].data \in Seq(Nat) /\ chunks[i].from \in Nat
      BY <1>1, ChunkFacts
    <2>2. StandsAt(chunks[i].data, chunks[i].from, p)
      BY DEF ChunksOK, ChunkOK
    <2>3. StandsAt(chunks[i].data, chunks[i].from, p \o q)
      BY <2>1, <2>2, StandsOn
    <2> QED
      BY <2>3 DEF ChunksOK, ChunkOK
  <1> QED
    BY <1>2 DEF ChunksOK

\* More bytes in the last chunk, which come next and have room.
LEMMA ChunksWritten ==
    ASSUME NEW chunks, NEW p \in Seq(Nat), NEW bytes \in Seq(Nat), ChunksOK(chunks, p),
           Final(chunks).pages = Pages(OT_SCRAPE_CHUNK_SIZE),
           Used(chunks) + Len(bytes) <= OT_SCRAPE_CHUNK_SIZE,
           StandsAt(bytes, End(chunks), p)
    PROVE  LET new == Written(chunks, bytes)
           IN /\ ChunksOK(new, p)
              /\ Final(new).pages = Pages(OT_SCRAPE_CHUNK_SIZE)
              /\ Used(new) = Used(chunks) + Len(bytes)
              /\ End(new) = End(chunks) + Len(bytes)
  <1> DEFINE new == Written(chunks, bytes)
             n == Len(chunks)
  <1>1. chunks \in Seq(Chunk) /\ n >= 1
    BY DEF ChunksOK
  <1>2. /\ n \in Nat
        /\ \A i \in 1..n :
             /\ chunks[i].data \in Seq(Nat) /\ Len(chunks[i].data) \in Nat
             /\ chunks[i].iov_len \in Nat /\ chunks[i].pages \in Nat /\ chunks[i].from \in Nat
    BY <1>1, ChunkFacts
  <1>3. /\ new \in Seq(Chunk) /\ Len(new) = n
        /\ \A i \in 1..n : i # n => new[i] = chunks[i]
        /\ new[n].data = chunks[n].data \o bytes
        /\ new[n].iov_len = chunks[n].iov_len
        /\ new[n].pages = chunks[n].pages
        /\ new[n].from = chunks[n].from
    BY <1>1, WrittenFields
  <1> HIDE DEF new
  <1>4. n \in 1..n /\ Len(bytes) \in Nat
    BY <1>1, <1>2, LenProperties
  <1>5. ChunkOK(chunks, n, p)
    BY <1>4 DEF ChunksOK
  <1>6. /\ new[n].data \in Seq(Nat)
        /\ Len(new[n].data) = Len(chunks[n].data) + Len(bytes)
        /\ StandsAt(new[n].data, new[n].from, p)
    <2>1. StandsAt(chunks[n].data, chunks[n].from, p) /\ StandsAt(bytes, chunks[n].from + Len(chunks[n].data), p)
      BY <1>5 DEF ChunkOK, End, Used, Final
    <2>2. chunks[n].data \in Seq(Nat) /\ chunks[n].from \in Nat
      BY <1>2, <1>4
    <2>3. /\ (chunks[n].data \o bytes) \in Seq(Nat)
          /\ Len(chunks[n].data \o bytes) = Len(chunks[n].data) + Len(bytes)
          /\ StandsAt(chunks[n].data \o bytes, chunks[n].from, p)
      BY <2>1, <2>2, StandsTogether
    <2> QED
      BY <1>3, <2>3, Zenon
  <1>7. ChunkOK(new, n, p)
    <2>1. Len(new[n].data) <= OT_SCRAPE_CHUNK_SIZE
      BY <1>6 DEF Used, Final
    <2>2. Len(new[n].data) <= new[n].pages * PageSize
      BY <1>3, <2>1, PagesWhole DEF Final
    <2>3. n > 1 => new[n - 1] = chunks[n - 1]
      <3>1. n > 1 => n - 1 \in 1..n /\ n - 1 # n
        BY <1>2
      <3> QED
        BY <1>3, <3>1
    <2>4. new[n].from = IF n = 1 THEN 0 ELSE new[n - 1].from + Len(new[n - 1].data)
      <3>1. chunks[n].from = IF n = 1 THEN 0 ELSE chunks[n - 1].from + Len(chunks[n - 1].data)
        BY <1>5 DEF ChunkOK
      <3>2. n # 1 => n > 1
        <4>1. n \in Nat /\ n >= 1
          BY <1>1, <1>2
        <4> HIDE DEF n
        <4> QED
          BY <4>1
      <3> QED
        BY <1>3, <2>3, <3>1, <3>2
    <2>5. ~(n < Len(new))
      BY <1>2, <1>3
    <2> QED
      BY <1>6, <2>1, <2>2, <2>4, <2>5 DEF ChunkOK
  <1>8. ASSUME NEW i \in 1..n, i # n
        PROVE  ChunkOK(new, i, p)
    <2>1. ChunkOK(chunks, i, p) /\ i \in Nat \ {0} /\ i < Len(chunks)
      BY <1>2, <1>8 DEF ChunksOK
    <2>2. new[i] = chunks[i] /\ (i > 1 => new[i - 1] = chunks[i - 1])
      <3>1. i > 1 => i - 1 \in 1..n /\ i - 1 # n
        BY <1>2, <2>1
      <3> QED
        BY <1>3, <1>8, <3>1
    <2>3. new[i].iov_len = Len(new[i].data)
      BY <2>1, <2>2 DEF ChunkOK
    <2> QED
      BY <2>1, <2>2, <2>3, ChunkSame
  <1>9. Counted(new, Len(new) - 1, Final(new).from)
    <2>1. Counted(chunks, n - 1, chunks[n].from) /\ n - 1 \in Nat
      BY <1>1, <1>2 DEF ChunksOK, Final
    <2>2. \A i \in 1..(n - 1) : chunks[i].iov_len = new[i].iov_len
      BY <1>2, <1>3
    <2>3. Counted(new, n - 1, chunks[n].from)
      BY <2>1, <2>2, BytesSame
    <2> QED
      BY <1>3, <2>3 DEF Final
  <1>10. ChunksOK(new, p)
    BY <1>1, <1>3, <1>7, <1>8, <1>9 DEF ChunksOK
  <1>11. Used(new) = Used(chunks) + Len(bytes) /\ Final(new).pages = Final(chunks).pages
    BY <1>3, <1>6 DEF Used, Final
  <1>12. End(new) = End(chunks) + Len(bytes)
    <2>1. Used(chunks) \in Nat /\ chunks[n].from \in Nat
      BY <1>2, <1>4 DEF Used, Final
    <2>2. End(new) = chunks[n].from + Used(new) /\ End(chunks) = chunks[n].from + Used(chunks)
      BY <1>3 DEF End, Final
    <2> QED
      BY <1>4, <1>11, <2>1, <2>2
  <1> QED
    BY <1>10, <1>11, <1>12 DEF new

\* The last chunk is shortened to what is written: now all chunks have their length.
LEMMA ChunksFixed ==
    ASSUME NEW chunks, NEW p \in Seq(Nat), ChunksOK(chunks, p)
    PROVE  LET new == iovec_fixlast(chunks)
           IN /\ ChunksOK(new, p)
              /\ Len(new) = Len(chunks) /\ End(new) = End(chunks)
              /\ new[Len(new)].iov_len = Len(new[Len(new)].data)
              /\ Counted(new, Len(new), End(new))
  <1> DEFINE new == iovec_fixlast(chunks)
             n == Len(chunks)
             pages == 1 + Pages(Used(chunks))
  <1>1. chunks \in Seq(Chunk) /\ n >= 1
    BY DEF ChunksOK
  <1>2. /\ n \in Nat
        /\ \A i \in 1..n :
             /\ chunks[i].data \in Seq(Nat) /\ Len(chunks[i].data) \in Nat
             /\ chunks[i].iov_len \in Nat /\ chunks[i].pages \in Nat /\ chunks[i].from \in Nat
    BY <1>1, ChunkFacts
  <1>3. /\ new \in Seq(Chunk) /\ Len(new) = n
        /\ \A i \in 1..n : i # n => new[i] = chunks[i]
        /\ new[n].data = chunks[n].data
        /\ new[n].iov_len = Len(chunks[n].data)
        /\ new[n].pages = IF chunks[n].pages < pages THEN chunks[n].pages ELSE pages
        /\ new[n].from = chunks[n].from
    BY <1>1, FixedFields
  <1> HIDE DEF new
  <1>4. n \in 1..n
    BY <1>1, <1>2
  <1>5. ChunkOK(chunks, n, p)
    BY <1>4 DEF ChunksOK
  <1>6. ChunkOK(new, n, p)
    <2>1. Len(new[n].data) <= new[n].pages * PageSize
      <3>1. CASE chunks[n].pages < pages
        BY <1>3, <1>5, <3>1 DEF ChunkOK
      <3>2. CASE ~(chunks[n].pages < pages)
        <4>1. new[n].pages = 1 + Pages(Len(chunks[n].data))
          BY <1>3, <3>2 DEF Used, Final
        <4> QED
          BY <1>2, <1>3, <1>4, <4>1, PagesEnough
      <3> QED
        BY <3>1, <3>2
    <2>2. n > 1 => new[n - 1] = chunks[n - 1]
      <3>1. n > 1 => n - 1 \in 1..n /\ n - 1 # n
        BY <1>2
      <3> QED
        BY <1>3, <3>1
    <2>3. new[n].from = IF n = 1 THEN 0 ELSE new[n - 1].from + Len(new[n - 1].data)
      BY <1>2, <1>3, <1>4, <1>5, <2>2 DEF ChunkOK
    <2> QED
      BY <1>3, <1>5, <2>1, <2>3 DEF ChunkOK
  <1>7. ASSUME NEW i \in 1..n, i # n
        PROVE  ChunkOK(new, i, p)
    <2>1. ChunkOK(chunks, i, p) /\ i \in Nat \ {0} /\ i < Len(chunks)
      BY <1>2, <1>7 DEF ChunksOK
    <2>2. new[i] = chunks[i] /\ (i > 1 => new[i - 1] = chunks[i - 1])
      <3>1. i > 1 => i - 1 \in 1..n /\ i - 1 # n
        BY <1>2, <2>1
      <3> QED
        BY <1>3, <1>7, <3>1
    <2>3. new[i].iov_len = Len(new[i].data)
      BY <2>1, <2>2 DEF ChunkOK
    <2> QED
      BY <2>1, <2>2, <2>3, ChunkSame
  <1>8. Counted(new, n - 1, new[n].from) /\ n - 1 \in Nat
    <2>1. Counted(chunks, n - 1, chunks[n].from) /\ n - 1 \in Nat
      BY <1>1, <1>2 DEF ChunksOK, Final
    <2>2. \A i \in 1..(n - 1) : chunks[i].iov_len = new[i].iov_len
      BY <1>2, <1>3
    <2> QED
      BY <1>3, <2>1, <2>2, BytesSame
  <1>9. ChunksOK(new, p)
    BY <1>1, <1>3, <1>6, <1>7, <1>8 DEF ChunksOK, Final
  <1>10. End(new) = End(chunks) /\ End(new) = new[n].from + new[n].iov_len
    BY <1>3 DEF End, Used, Final
  <1>11. Counted(new, n, new[n].from + new[n].iov_len)
    <2>1. new[n].iov_len \in Nat /\ new[n].from \in Nat /\ (n - 1) + 1 = n
      BY <1>2, <1>3, <1>4
    <2> QED
      BY <1>8, <2>1, BytesMore
  <1> QED
    BY <1>3, <1>9, <1>10, <1>11 DEF new

\* A chunk more, behind the last one that is shortened.
LEMMA ChunksIncreased ==
    ASSUME NEW chunks, NEW p \in Seq(Nat), ChunksOK(chunks, p)
    PROVE  LET new == iovec_increase(iovec_fixlast(chunks))
           IN /\ ChunksOK(new, p)
              /\ Final(new).pages = Pages(OT_SCRAPE_CHUNK_SIZE)
              /\ Used(new) = 0 /\ End(new) = End(chunks)
  <1> DEFINE old == iovec_fixlast(chunks)
             new == iovec_increase(old)
             n == Len(old)
  <1>1. /\ ChunksOK(old, p)
        /\ End(old) = End(chunks)
        /\ old[n].iov_len = Len(old[n].data)
        /\ Counted(old, n, End(old))
    BY ChunksFixed
  <1> HIDE DEF old
  <1>2. old \in Seq(Chunk) /\ n >= 1
    BY <1>1 DEF ChunksOK
  <1>3. /\ new \in Seq(Chunk) /\ Len(new) = n + 1
        /\ \A i \in 1..n : new[i] = old[i]
        /\ new[n + 1] = NewChunk(End(old))
    BY <1>2, IncreasedFields
  <1> HIDE DEF new
  <1>4. /\ n \in Nat /\ End(old) \in Nat
        /\ \A i \in 1..n :
             /\ old[i].data \in Seq(Nat) /\ Len(old[i].data) \in Nat
             /\ old[i].iov_len \in Nat /\ old[i].pages \in Nat /\ old[i].from \in Nat
    BY <1>2, ChunkFacts
  <1>5. /\ new[n + 1].data = <<>> /\ Len(new[n + 1].data) = 0
        /\ new[n + 1].pages = Pages(OT_SCRAPE_CHUNK_SIZE)
        /\ new[n + 1].from = End(old)
    BY <1>3, EmptySeq DEF NewChunk
  <1>6. End(old) = old[n].from + Len(old[n].data) /\ n \in 1..n
    BY <1>2, <1>4 DEF End, Used, Final
  <1>7. ChunkOK(new, n + 1, p)
    <2>1. StandsAt(<<>>, End(old), p)
      <3>1. StandsAt(old[n].data, old[n].from, p)
        BY <1>1, <1>6 DEF ChunksOK, ChunkOK
      <3>2. Len(<<>>) = 0 /\ 1..0 = {} /\ Len(p) \in Nat
        BY LenProperties, EmptySeq
      <3> QED
        BY <1>4, <1>6, <3>1, <3>2 DEF StandsAt
    <2>2. n + 1 # 1 /\ (n + 1) - 1 = n
      BY <1>2, <1>4
    <2>3. new[n + 1].from = IF n + 1 = 1 THEN 0 ELSE new[(n + 1) - 1].from + Len(new[(n + 1) - 1].data)
      BY <1>3, <1>5, <1>6, <2>2
    <2>4. 0 <= OT_SCRAPE_CHUNK_SIZE /\ 0 <= Pages(OT_SCRAPE_CHUNK_SIZE) * PageSize
      BY SizesTyped, PagesWhole
    <2>5. ~(n + 1 < Len(new))
      BY <1>3, <1>4
    <2> QED
      BY <1>5, <2>1, <2>3, <2>4, <2>5 DEF ChunkOK
  <1>8. ASSUME NEW i \in 1..n
        PROVE  ChunkOK(new, i, p)
    <2>1. ChunkOK(old, i, p) /\ i \in Nat \ {0}
      BY <1>1, <1>4 DEF ChunksOK
    <2>2. new[i] = old[i] /\ (i > 1 => new[i - 1] = old[i - 1])
      BY <1>3, <1>4
    <2>3. old[i].iov_len = Len(old[i].data)
      <3>1. CASE i = n
        BY <1>1, <3>1
      <3>2. CASE i # n
        BY <1>4, <2>1, <3>2 DEF ChunkOK
      <3> QED
        BY <3>1, <3>2
    <2> QED
      BY <2>1, <2>2, <2>3, ChunkSame
  <1>9. Counted(new, n, End(old))
    <2>1. \A i \in 1..n : old[i].iov_len = new[i].iov_len
      BY <1>3
    <2> QED
      BY <1>1, <1>4, <2>1, BytesSame
  <1>10. ChunksOK(new, p)
    <2>1. Len(new) >= 1 /\ Len(new) - 1 = n
      BY <1>3, <1>4
    <2>2. \A i \in 1..Len(new) : i = n + 1 \/ i \in 1..n
      BY <1>3, <1>4
    <2>3. Final(new).from = End(old)
      BY <1>3, <1>5 DEF Final
    <2> QED
      BY <1>3, <1>7, <1>8, <1>9, <2>1, <2>2, <2>3 DEF ChunksOK
  <1>11. Final(new).pages = Pages(OT_SCRAPE_CHUNK_SIZE) /\ Used(new) = 0 /\ End(new) = End(old)
    BY <1>3, <1>4, <1>5 DEF Final, Used, End
  <1> QED
    BY <1>1, <1>10, <1>11 DEF new, old

\* The first chunk.
LEMMA ChunksBegin ==
    ASSUME NEW p \in Seq(Nat)
    PROVE  LET new == iovec_increase(<<>>)
           IN /\ ChunksOK(new, p)
              /\ Final(new).pages = Pages(OT_SCRAPE_CHUNK_SIZE)
              /\ Used(new) = 0 /\ End(new) = 0
  <1> DEFINE new == iovec_increase(<<>>)
  <1>1. new = Append(<<>>, NewChunk(0))
    BY DEF iovec_increase, NewChunk
  <1>2. new \in Seq(Chunk) /\ Len(new) = 1 /\ new[1] = NewChunk(0)
    <2>1. <<>> \in Seq(Chunk) /\ Len(<<>>) = 0 /\ NewChunk(0) \in Chunk
      BY NewChunkFields, EmptySeq
    <2>2. /\ Append(<<>>, NewChunk(0)) \in Seq(Chunk)
          /\ Len(Append(<<>>, NewChunk(0))) = Len(<<>>) + 1
          /\ Append(<<>>, NewChunk(0))[Len(<<>>) + 1] = NewChunk(0)
      BY <2>1, AppendProperties
    <2>3. Len(<<>>) + 1 = 1
      BY <2>1
    <2> QED
      BY <1>1, <2>2, <2>3, Zenon
  <1> HIDE DEF new
  <1>3. /\ new[1].data = <<>> /\ Len(new[1].data) = 0
        /\ new[1].pages = Pages(OT_SCRAPE_CHUNK_SIZE) /\ new[1].from = 0
    BY <1>2, EmptySeq DEF NewChunk
  <1>4. Len(p) \in Nat
    BY LenProperties
  <1>5. ChunkOK(new, 1, p)
    <2>1. StandsAt(<<>>, 0, p)
      BY <1>4, EmptySeq DEF StandsAt
    <2>2. 0 <= OT_SCRAPE_CHUNK_SIZE /\ 0 <= Pages(OT_SCRAPE_CHUNK_SIZE) * PageSize
      BY SizesTyped, PagesWhole
    <2> QED
      BY <1>2, <1>3, <2>1, <2>2 DEF ChunkOK
  <1>6. Final(new).from = 0 /\ Final(new).pages = Pages(OT_SCRAPE_CHUNK_SIZE) /\ Used(new) = 0 /\ End(new) = 0
    BY <1>2, <1>3 DEF Final, Used, End
  <1>7. Counted(new, 0, 0)
    BY BytesNone
  <1>8. ChunksOK(new, p)
    BY <1>2, <1>5, <1>6, <1>7 DEF ChunksOK
  <1> QED
    BY <1>6, <1>8 DEF new

-----------------------------------------------------------------------------
(* A full scrape: the answer in its chunks, in zlib and in compress_buffer *)

\* A sequence is empty if its length is 0.
LEMMA EmptySequence ==
    /\ <<>> \in Seq(Nat) /\ Len(<<>>) = 0
    /\ \A s \in Seq(Nat) : Len(s) \in Nat /\ (s = <<>> <=> Len(s) = 0)
  <1>1. <<>> \in Seq(Nat) /\ Len(<<>>) = 0 /\ \A s \in Seq(Nat) : s # <<>> => Len(s) \in Nat \ {0}
    BY EmptySeq
  <1>2. \A s \in Seq(Nat) : Len(s) \in Nat
    BY LenProperties
  <1> QED
    BY <1>1, <1>2

\* Nothing stands anywhere up to the end.
LEMMA StandsNothing ==
    ASSUME NEW f \in Nat, NEW p \in Seq(Nat), f <= Len(p)
    PROVE  StandsAt(<<>>, f, p)
  BY EmptySequence DEF StandsAt

\* The types of the parts of a store.
LEMMA StoreTyped ==
    ASSUME NEW chunks, NEW h, NEW in, NEW p, StoreOK(chunks, h, in, p)
    PROVE  /\ chunks \in Seq(Chunk) /\ Len(chunks) >= 1 /\ chunks # <<>>
           /\ Used(chunks) \in Nat /\ End(chunks) \in Nat /\ Used(chunks) <= OT_SCRAPE_CHUNK_SIZE
           /\ h \in Seq(Nat) /\ Len(h) \in Nat /\ in \in Seq(Nat) /\ Len(in) \in Nat
           /\ p \in Seq(Nat) /\ Len(p) \in Nat
  <1>1. chunks \in Seq(Chunk) /\ Len(chunks) >= 1
    BY DEF StoreOK, ChunksOK
  <1>2. Used(chunks) \in Nat /\ End(chunks) \in Nat /\ Len(chunks) \in Nat
    BY <1>1, ChunkFacts
  <1>3. ChunkOK(chunks, Len(chunks), p)
    BY <1>1, <1>2 DEF StoreOK, ChunksOK
  <1>4. chunks # <<>>
    BY <1>1, EmptySequence
  <1>5. h \in Seq(Nat) /\ in \in Seq(Nat) /\ p \in Seq(Nat)
    BY DEF StoreOK
  <1> QED
    BY <1>1, <1>2, <1>3, <1>4, <1>5, EmptySequence DEF ChunkOK, Used, Final

\* What is printed goes to the buffer that zlib is given to read.
LEMMA StorePrinted ==
    ASSUME NEW chunks, NEW h, NEW in, NEW p, StoreOK(chunks, h, in, p), NEW bytes \in Seq(Nat)
    PROVE  StoreOK(chunks, h, in \o bytes, p \o bytes)
  <1>1. /\ End(chunks) \in Nat
        /\ h \in Seq(Nat) /\ Len(h) \in Nat /\ in \in Seq(Nat) /\ Len(in) \in Nat
        /\ p \in Seq(Nat) /\ Len(p) \in Nat
    BY StoreTyped
  <1>2. Len(bytes) \in Nat
    BY LenProperties
  <1>3. ChunksOK(chunks, p \o bytes)
    BY <1>1, ChunksKeep DEF StoreOK
  <1>4. /\ p \o bytes \in Seq(Nat) /\ Len(p \o bytes) = Len(p) + Len(bytes)
        /\ \A i \in 1..(Len(p) + Len(bytes)) : (p \o bytes)[i] = IF i <= Len(p) THEN p[i] ELSE bytes[i - Len(p)]
    BY <1>1, ConcatProperties
  <1>5. StandsAt(bytes, Len(p), p \o bytes)
    <2>1. ASSUME NEW i \in 1..Len(bytes)
          PROVE  bytes[i] = (p \o bytes)[Len(p) + i]
      <3>1. Len(p) + i \in 1..(Len(p) + Len(bytes)) /\ ~(Len(p) + i <= Len(p)) /\ (Len(p) + i) - Len(p) = i
        BY <1>1, <1>2
      <3> QED
        BY <1>4, <3>1
    <2> QED
      BY <1>1, <1>2, <1>4, <2>1 DEF StandsAt
  <1>6. StandsAt(h, End(chunks), p \o bytes)
    BY <1>1, StandsOn DEF StoreOK
  <1>7. StandsAt(in, End(chunks) + Len(h), p \o bytes) /\ End(chunks) + Len(h) \in Nat
    <2>1. End(chunks) + Len(h) \in Nat /\ StandsAt(in, End(chunks) + Len(h), p)
      BY <1>1 DEF StoreOK
    <2> QED
      BY <1>1, <2>1, StandsOn
  <1>8. (End(chunks) + Len(h)) + Len(in) = Len(p)
    BY <1>1 DEF StoreOK
  <1>9. /\ in \o bytes \in Seq(Nat) /\ Len(in \o bytes) = Len(in) + Len(bytes)
        /\ StandsAt(in \o bytes, End(chunks) + Len(h), p \o bytes)
    <2>1. StandsAt(bytes, (End(chunks) + Len(h)) + Len(in), p \o bytes)
      BY <1>5, <1>8
    <2> QED
      BY <1>1, <1>4, <1>7, <2>1, StandsTogether
  <1>10. Len(p \o bytes) = End(chunks) + Len(h) + Len(in \o bytes)
    <2> DEFINE e == End(chunks) + Len(h)
               x == Len(p \o bytes)
               y == Len(in \o bytes)
    <2>1. e \in Nat /\ e + Len(in) = Len(p) /\ x = Len(p) + Len(bytes) /\ y = Len(in) + Len(bytes)
      BY <1>1, <1>4, <1>8, <1>9
    <2>2. Len(p) \in Nat /\ Len(in) \in Nat /\ Len(bytes) \in Nat /\ x \in Nat /\ y \in Nat
      BY <1>1, <1>2, <2>1
    <2> HIDE DEF e, x, y
    <2>3. x = e + y
      BY <2>1, <2>2
    <2> QED
      BY <2>3 DEF e, x, y
  <1> QED
    BY <1>1, <1>3, <1>4, <1>6, <1>9, <1>10 DEF StoreOK

\* zlib writes the first part of what it has and is given, keeps the second and leaves the rest.
LEMMA StoreDeflated ==
    ASSUME NEW chunks, NEW h, NEW in, NEW p, StoreOK(chunks, h, in, p),
           NEW n \in Nat, NEW unread \in Nat, unread <= Len(in),
           Used(chunks) + n <= OT_SCRAPE_CHUNK_SIZE, n + unread <= Len(h \o in)
    PROVE  LET all == h \o in
               new == Written(chunks, SubSeq(all, 1, n))
               rest == SubSeq(all, n + 1, Len(all) - unread)
               left == SubSeq(all, Len(all) - unread + 1, Len(all))
           IN /\ StoreOK(new, rest, left, p)
              /\ Used(new) = Used(chunks) + n
              /\ Len(rest) = Len(all) - unread - n /\ Len(left) = unread
              /\ Len(all) \in Nat
  <1> DEFINE all == h \o in
             new == Written(chunks, SubSeq(all, 1, n))
             rest == SubSeq(all, n + 1, Len(all) - unread)
             left == SubSeq(all, Len(all) - unread + 1, Len(all))
  <1>1. /\ End(chunks) \in Nat /\ Used(chunks) \in Nat
        /\ h \in Seq(Nat) /\ Len(h) \in Nat /\ in \in Seq(Nat) /\ Len(in) \in Nat
        /\ p \in Seq(Nat) /\ Len(p) \in Nat
    BY StoreTyped
  <1>2. all \in Seq(Nat) /\ Len(all) = Len(h) + Len(in) /\ StandsAt(all, End(chunks), p)
    BY <1>1, StandsTogether DEF StoreOK
  <1>3. Len(p) = End(chunks) + Len(all)
    BY <1>1, <1>2 DEF StoreOK
  <1> DEFINE m == Len(all) - unread
  <1>4. /\ Len(all) \in Nat /\ m \in Nat /\ n <= m /\ m <= Len(all) /\ n <= Len(all)
        /\ 0 \in Nat /\ n \in 0..Len(all) /\ m \in n..Len(all) /\ Len(all) \in m..Len(all)
    BY <1>1, <1>2
  <1> HIDE DEF all
  <1>5. all \in Seq(Nat) /\ End(chunks) \in Nat /\ p \in Seq(Nat) /\ StandsAt(all, End(chunks), p)
        /\ 0 \in Nat /\ n \in Nat /\ m \in Nat
        /\ n \in 0..Len(all) /\ m \in n..Len(all) /\ Len(all) \in m..Len(all)
    BY <1>1, <1>2, <1>4
  <1>6. /\ SubSeq(all, 1, n) \in Seq(Nat) /\ Len(SubSeq(all, 1, n)) = n
        /\ StandsAt(SubSeq(all, 1, n), End(chunks), p)
    <2>1. /\ SubSeq(all, 0 + 1, n) \in Seq(Nat) /\ Len(SubSeq(all, 0 + 1, n)) = n - 0
          /\ StandsAt(SubSeq(all, 0 + 1, n), End(chunks) + 0, p)
      BY <1>5, StandsInPart, ZenonT(30)
    <2>2. 0 + 1 = 1 /\ n - 0 = n /\ End(chunks) + 0 = End(chunks)
      BY <1>1
    <2> QED
      BY <2>1, <2>2
  <1>7. /\ rest \in Seq(Nat) /\ Len(rest) = m - n
        /\ StandsAt(rest, End(chunks) + n, p)
    <2> HIDE DEF m
    <2>1. /\ SubSeq(all, n + 1, m) \in Seq(Nat) /\ Len(SubSeq(all, n + 1, m)) = m - n
          /\ StandsAt(SubSeq(all, n + 1, m), End(chunks) + n, p)
      BY <1>5, StandsInPart, ZenonT(30)
    <2> QED
      BY <2>1 DEF m
  <1>8. /\ left \in Seq(Nat) /\ Len(left) = unread
        /\ StandsAt(left, End(chunks) + m, p)
    <2>1. Len(all) - m = unread
      BY <1>4
    <2> HIDE DEF m
    <2>2. /\ SubSeq(all, m + 1, Len(all)) \in Seq(Nat) /\ Len(SubSeq(all, m + 1, Len(all))) = Len(all) - m
          /\ StandsAt(SubSeq(all, m + 1, Len(all)), End(chunks) + m, p)
      BY <1>5, StandsInPart, ZenonT(30)
    <2> QED
      BY <2>1, <2>2 DEF m
  <1>9. /\ ChunksOK(new, p)
        /\ Final(new).pages = Pages(OT_SCRAPE_CHUNK_SIZE)
        /\ Used(new) = Used(chunks) + n
        /\ End(new) = End(chunks) + n
    BY <1>1, <1>6, ChunksWritten DEF StoreOK
  <1> HIDE DEF new, rest, left
  <1>10. (End(chunks) + n) + Len(rest) = End(chunks) + m
        /\ Len(p) = (End(chunks) + n) + Len(rest) + Len(left)
    <2>1. Len(rest) = m - n /\ Len(left) = unread /\ m = Len(all) - unread
      BY <1>7, <1>8
    <2>2. (End(chunks) + n) + Len(rest) = End(chunks) + m
      BY <1>1, <1>4, <2>1
    <2>3. End(chunks) + m + unread = Len(p)
      BY <1>1, <1>3, <1>4
    <2> QED
      BY <2>1, <2>2, <2>3
  <1>11. StoreOK(new, rest, left, p)
    BY <1>1, <1>7, <1>8, <1>9, <1>10 DEF StoreOK
  <1>12. Len(rest) = Len(all) - unread - n
    BY <1>4, <1>7
  <1> QED
    BY <1>4, <1>8, <1>9, <1>11, <1>12 DEF new, rest, left, all

\* Without zlib what is printed goes to the last chunk.
LEMMA StoreWritten ==
    ASSUME NEW chunks, NEW p, StoreOK(chunks, <<>>, <<>>, p), NEW bytes \in Seq(Nat),
           Used(chunks) + Len(bytes) <= OT_SCRAPE_CHUNK_SIZE
    PROVE  LET new == Written(chunks, bytes)
           IN /\ StoreOK(new, <<>>, <<>>, p \o bytes)
              /\ Used(new) = Used(chunks) + Len(bytes)
  <1> DEFINE q == p \o bytes
             new == Written(chunks, bytes)
  <1>1. StoreOK(chunks, <<>>, <<>> \o bytes, q)
    BY StorePrinted
  <1>2. <<>> \o bytes = bytes
    BY ConcatEmptySeq
  <1>3. StoreOK(chunks, <<>>, bytes, q)
    BY <1>1, <1>2
  <1> HIDE DEF q
  <1>4. End(chunks) \in Nat /\ Used(chunks) \in Nat /\ Len(bytes) \in Nat /\ q \in Seq(Nat) /\ Len(q) \in Nat
    BY <1>3, StoreTyped
  <1>5. StandsAt(bytes, End(chunks), q) /\ Len(q) = End(chunks) + Len(bytes)
    <2>1. End(chunks) + 0 = End(chunks)
      BY <1>4
    <2> QED
      BY <1>3, <2>1, EmptySequence DEF StoreOK
  <1>6. /\ ChunksOK(new, q)
        /\ Final(new).pages = Pages(OT_SCRAPE_CHUNK_SIZE)
        /\ Used(new) = Used(chunks) + Len(bytes)
        /\ End(new) = End(chunks) + Len(bytes)
    BY <1>3, <1>4, <1>5, ChunksWritten DEF StoreOK
  <1> HIDE DEF new
  <1>7. StoreOK(new, <<>>, <<>>, q)
    <2>1. End(new) = Len(q) /\ End(new) + 0 = End(new) /\ End(new) + 0 + 0 = End(new) /\ Len(q) <= Len(q)
      BY <1>4, <1>5, <1>6
    <2>2. StandsAt(<<>>, End(new), q)
      BY <1>4, <2>1, StandsNothing
    <2> QED
      BY <1>4, <1>6, <2>1, <2>2, EmptySequence DEF StoreOK
  <1> QED
    BY <1>6, <1>7 DEF new, q

\* A chunk more changes nothing of what is stored.
LEMMA StoreIncreased ==
    ASSUME NEW chunks, NEW h, NEW in, NEW p, StoreOK(chunks, h, in, p)
    PROVE  LET new == iovec_increase(iovec_fixlast(chunks))
           IN StoreOK(new, h, in, p) /\ Used(new) = 0
  <1> DEFINE new == iovec_increase(iovec_fixlast(chunks))
  <1>1. /\ ChunksOK(new, p)
        /\ Final(new).pages = Pages(OT_SCRAPE_CHUNK_SIZE)
        /\ Used(new) = 0 /\ End(new) = End(chunks)
    BY ChunksIncreased DEF StoreOK
  <1> HIDE DEF new
  <1>2. StoreOK(new, h, in, p)
    BY <1>1 DEF StoreOK
  <1> QED
    BY <1>1, <1>2 DEF new

\* Nothing is in the first chunk.
LEMMA StoreBegun ==
    LET new == iovec_increase(<<>>)
    IN StoreOK(new, <<>>, <<>>, <<>>) /\ Used(new) = 0
  <1> DEFINE new == iovec_increase(<<>>)
  <1>1. /\ ChunksOK(new, <<>>)
        /\ Final(new).pages = Pages(OT_SCRAPE_CHUNK_SIZE)
        /\ Used(new) = 0 /\ End(new) = 0
    BY ChunksBegin, EmptySequence
  <1> HIDE DEF new
  <1>2. StandsAt(<<>>, 0, <<>>)
    <2>1. 0 \in Nat /\ 0 <= Len(<<>>)
      BY EmptySequence
    <2> QED
      BY <2>1, StandsNothing, EmptySequence, Zenon
  <1>3. StoreOK(new, <<>>, <<>>, <<>>)
    BY <1>1, <1>2, EmptySequence DEF StoreOK
  <1> QED
    BY <1>1, <1>3 DEF new

\* A call of deflate.
LEMMA DeflateStep ==
    ASSUME NEW chunks, NEW in, NEW p, NEW finish \in BOOLEAN,
           StoreOK(chunks, held, in, p), Deflate(chunks, in, finish)
    PROVE  /\ StoreOK(iovector', held', input', p)
           /\ Len(input') <= Len(in)
           /\ input' # <<>> => Used(iovector') = OT_SCRAPE_CHUNK_SIZE
           /\ finish /\ held' # <<>> => Used(iovector') = OT_SCRAPE_CHUNK_SIZE
  <1> DEFINE all == held \o in
             room == OT_SCRAPE_CHUNK_SIZE - Used(chunks)
  <1>1. PICK n \in 0..Len(all), unread \in 0..Len(in) :
          /\ n <= room /\ n + unread <= Len(all)
          /\ unread > 0 => n = room
          /\ finish => n = room \/ n = Len(all)
          /\ iovector' = Written(chunks, SubSeq(all, 1, n))
          /\ held' = SubSeq(all, n + 1, Len(all) - unread)
          /\ input' = SubSeq(all, Len(all) - unread + 1, Len(all))
    BY DEF Deflate
  <1>2. Used(chunks) \in Nat /\ OT_SCRAPE_CHUNK_SIZE \in Nat /\ Len(in) \in Nat
    BY StoreTyped, SizesTyped
  <1>3. n \in Nat /\ unread \in Nat /\ unread <= Len(in) /\ Used(chunks) + n <= OT_SCRAPE_CHUNK_SIZE
    BY <1>1, <1>2
  <1>4. /\ StoreOK(iovector', held', input', p)
        /\ Used(iovector') = Used(chunks) + n
        /\ Len(held') = Len(all) - unread - n /\ Len(input') = unread
        /\ Len(all) \in Nat
    BY <1>1, <1>3, StoreDeflated
  <1>5. /\ held' \in Seq(Nat) /\ input' \in Seq(Nat)
        /\ (input' = <<>> <=> Len(input') = 0) /\ (held' = <<>> <=> Len(held') = 0)
    BY <1>4, StoreTyped, EmptySequence
  <1> HIDE DEF all
  <1>6. n = room => Used(iovector') = OT_SCRAPE_CHUNK_SIZE
    BY <1>2, <1>3, <1>4
  <1>7. input' # <<>> => Used(iovector') = OT_SCRAPE_CHUNK_SIZE
    BY <1>1, <1>3, <1>4, <1>5, <1>6
  <1>8. ASSUME finish, held' # <<>>
        PROVE  Used(iovector') = OT_SCRAPE_CHUNK_SIZE
    <2>1. n # Len(all)
      BY <1>1, <1>3, <1>4, <1>5, <1>8
    <2> QED
      BY <1>1, <1>6, <1>8, <2>1
  <1> QED
    BY <1>3, <1>4, <1>7, <1>8

-----------------------------------------------------------------------------
(* A full scrape: what is listed *)

\* How many bytes of p belong to t.
BytesIn(p, t) == Cardinality({i \in DOMAIN p : p[i] = t})

\* It is a number.
LEMMA BytesInTyped ==
    ASSUME NEW p \in Seq(Nat), NEW t
    PROVE  BytesIn(p, t) \in Nat /\ IsFiniteSet({i \in DOMAIN p : p[i] = t})
  <1>1. IsFiniteSet(DOMAIN p)
    BY LenProperties, CountTo
  <1>2. IsFiniteSet({i \in DOMAIN p : p[i] = t})
    BY <1>1, FS_Subset
  <1> QED
    BY <1>2, FS_CardinalityType DEF BytesIn

\* What is printed of others.
LEMMA BytesOfOthers ==
    ASSUME NEW p \in Seq(Nat), NEW bytes \in Seq(Nat), NEW t, \A i \in 1..Len(bytes) : bytes[i] # t
    PROVE  BytesIn(p \o bytes, t) = BytesIn(p, t)
  <1>1. Len(p) \in Nat /\ Len(bytes) \in Nat /\ DOMAIN p = 1..Len(p)
    BY LenProperties
  <1>2. /\ p \o bytes \in Seq(Nat) /\ Len(p \o bytes) = Len(p) + Len(bytes)
        /\ \A i \in 1..(Len(p) + Len(bytes)) : (p \o bytes)[i] = IF i <= Len(p) THEN p[i] ELSE bytes[i - Len(p)]
    BY ConcatProperties
  <1>3. DOMAIN (p \o bytes) = 1..(Len(p) + Len(bytes))
    BY <1>2, LenProperties
  <1> DEFINE q == p \o bytes
  <1> HIDE DEF q
  <1>4. /\ DOMAIN q = 1..(Len(p) + Len(bytes))
        /\ \A i \in 1..(Len(p) + Len(bytes)) : q[i] = IF i <= Len(p) THEN p[i] ELSE bytes[i - Len(p)]
    BY <1>2, <1>3 DEF q
  <1>5. \A i \in DOMAIN q : q[i] = t <=> i \in DOMAIN p /\ p[i] = t
    BY <1>1, <1>4
  <1>6. DOMAIN p \subseteq DOMAIN q
    BY <1>1, <1>4
  <1>7. {i \in DOMAIN q : q[i] = t} = {i \in DOMAIN p : p[i] = t}
    BY <1>5, <1>6
  <1> QED
    BY <1>7 DEF BytesIn, q

\* What is printed of t itself.
LEMMA BytesOfOwn ==
    ASSUME NEW p \in Seq(Nat), NEW bytes \in Seq(Nat), NEW t, \A i \in 1..Len(bytes) : bytes[i] = t
    PROVE  BytesIn(p \o bytes, t) = BytesIn(p, t) + Len(bytes)
  <1>1. Len(p) \in Nat /\ Len(bytes) \in Nat /\ DOMAIN p = 1..Len(p)
    BY LenProperties
  <1>2. /\ p \o bytes \in Seq(Nat) /\ Len(p \o bytes) = Len(p) + Len(bytes)
        /\ \A i \in 1..(Len(p) + Len(bytes)) : (p \o bytes)[i] = IF i <= Len(p) THEN p[i] ELSE bytes[i - Len(p)]
    BY ConcatProperties
  <1>3. DOMAIN (p \o bytes) = 1..(Len(p) + Len(bytes))
    BY <1>2, LenProperties
  <1> DEFINE q == p \o bytes
             old == {i \in DOMAIN p : p[i] = t}
             more == (Len(p) + 1)..(Len(p) + Len(bytes))
  <1> HIDE DEF q
  <1>4. /\ DOMAIN q = 1..(Len(p) + Len(bytes))
        /\ \A i \in 1..(Len(p) + Len(bytes)) : q[i] = IF i <= Len(p) THEN p[i] ELSE bytes[i - Len(p)]
    BY <1>2, <1>3 DEF q
  <1>5. \A i \in DOMAIN q : q[i] = t <=> i \in old \/ i \in more
    BY <1>1, <1>4
  <1>6. old \subseteq DOMAIN q /\ more \subseteq DOMAIN q
    BY <1>1, <1>4
  <1>7. {i \in DOMAIN q : q[i] = t} = old \cup more
    BY <1>5, <1>6
  <1>8. old \cap more = {}
    BY <1>1
  <1>9. IsFiniteSet(old) /\ Cardinality(old) = BytesIn(p, t) /\ BytesIn(p, t) \in Nat
    BY BytesInTyped DEF BytesIn
  <1>10. IsFiniteSet(more) /\ Cardinality(more) = Len(bytes)
    <2>1. Len(p) + 1 \in Int /\ Len(p) + Len(bytes) \in Int
      BY <1>1
    <2>2. /\ IsFiniteSet(more)
          /\ Cardinality(more) = IF Len(p) + 1 > Len(p) + Len(bytes) THEN 0
                                 ELSE (Len(p) + Len(bytes)) - (Len(p) + 1) + 1
      BY <2>1, FS_Interval
    <2> QED
      BY <1>1, <2>2
  <1> HIDE DEF old, more
  <1>11. Cardinality(old \cup more) = Cardinality(old) + Cardinality(more) - Cardinality(old \cap more)
    BY <1>9, <1>10, FS_Union
  <1>12. Cardinality(old \cap more) = 0
    BY <1>8, FS_EmptySet, Zenon
  <1>13. Cardinality(old \cup more) = BytesIn(p, t) + Len(bytes)
    BY <1>1, <1>9, <1>10, <1>11, <1>12
  <1> QED
    BY <1>7, <1>13 DEF BytesIn, q

-----------------------------------------------------------------------------
\* The bytes of entries, openings and closings.
LEMMA EntryFacts ==
    ASSUME NEW t \in Scraped
    PROVE  /\ t \in Nat /\ t # 0 /\ EntryLen[t] \in Nat /\ EntryLen[t] + 1 <= OT_SCRAPE_MAXENTRYLEN
           /\ EntryBucket[t] \in 1..BucketCount /\ EntryBucket[t] \in Nat
           /\ Entry(t) \in Seq(Nat) /\ Len(Entry(t)) = EntryLen[t]
           /\ \A i \in 1..Len(Entry(t)) : Entry(t)[i] = t
  <1>1. /\ t \in Nat /\ t # 0 /\ EntryLen[t] \in 1..(OT_SCRAPE_MAXENTRYLEN - 1)
        /\ EntryBucket[t] \in 1..BucketCount /\ BucketCount \in Nat
    BY ScrapeAssumption DEF ScrapeAssumption
  <1>2. EntryLen[t] \in Nat /\ EntryLen[t] + 1 <= OT_SCRAPE_MAXENTRYLEN /\ EntryBucket[t] \in Nat
    BY <1>1, SizesTyped
  <1>3. Entry(t) \in [1..EntryLen[t] -> Nat] /\ \A i \in 1..EntryLen[t] : Entry(t)[i] = t
    BY <1>1 DEF Entry
  <1>4. Entry(t) \in Seq(Nat)
    BY <1>2, <1>3, SeqDef
  <1>5. Len(Entry(t)) = EntryLen[t]
    BY <1>2, <1>3, <1>4, LenProperties
  <1> QED
    BY <1>1, <1>2, <1>3, <1>4, <1>5

\* A 0 is of no torrent.
LEMMA FrameFacts ==
    /\ <<0>> \in Seq(Nat) /\ Len(<<0>>) = 1 /\ <<0>>[1] = 0
    /\ \A t \in Scraped : \A i \in 1..Len(<<0>>) : <<0>>[i] # t
  <1>1. <<0>> \in Seq(Nat) /\ Len(<<0>>) = 1 /\ <<0>>[1] = 0
    OBVIOUS
  <1>2. 0 \notin Scraped
    BY ScrapeAssumption DEF ScrapeAssumption
  <1> QED
    BY <1>1, <1>2

\* What a frame prints: an opening or closing or nothing.
Frames == {<<>>, <<0>>}

\* That is at most one byte.
LEMMA FramePrinted ==
    ASSUME NEW f \in Frames
    PROVE  /\ f \in Seq(Nat) /\ Len(f) \in Nat /\ Len(f) <= 1
           /\ \A t \in Scraped : \A i \in 1..Len(f) : f[i] # t
  <1>1. CASE f = <<>>
    BY <1>1, EmptySequence
  <1>2. CASE f = <<0>>
    BY <1>2, FrameFacts
  <1> QED
    BY <1>1, <1>2 DEF Frames

-----------------------------------------------------------------------------
\* Something is printed.
LEMMA OutputStep ==
    ASSUME NEW bytes \in Seq(Nat), NEW finish \in BOOLEAN,
           StoreOK(iovector, held, input, printed), Output(bytes, finish), mode \in Modes,
           Len(input) + Len(bytes) <= OT_SCRAPE_MAXENTRYLEN,
           ~mode.gzip => held = <<>> /\ input = <<>> /\ Used(iovector) + Len(bytes) <= OT_SCRAPE_CHUNK_SIZE
    PROVE  /\ StoreOK(iovector', held', input', printed')
           /\ printed' = printed \o bytes
           /\ Len(input') <= OT_SCRAPE_MAXENTRYLEN
           /\ ~mode.gzip => held' = <<>> /\ input' = <<>>
           /\ input' # <<>> => Used(iovector') = OT_SCRAPE_CHUNK_SIZE
           /\ finish /\ held' # <<>> => Used(iovector') = OT_SCRAPE_CHUNK_SIZE
  <1>1. printed' = printed \o bytes
    BY DEF Output
  <1>2. /\ Len(input) \in Nat /\ input \in Seq(Nat) /\ Len(bytes) \in Nat
        /\ OT_SCRAPE_MAXENTRYLEN \in Nat
    BY StoreTyped, LenProperties, SizesTyped
  <1>3. CASE mode.gzip
    <2>1. Deflate(iovector, input \o bytes, finish)
      BY <1>3 DEF Output
    <2>2. StoreOK(iovector, held, input \o bytes, printed')
      BY <1>1, StorePrinted
    <2>3. /\ StoreOK(iovector', held', input', printed')
          /\ Len(input') <= Len(input \o bytes)
          /\ input' # <<>> => Used(iovector') = OT_SCRAPE_CHUNK_SIZE
          /\ finish /\ held' # <<>> => Used(iovector') = OT_SCRAPE_CHUNK_SIZE
      BY <2>1, <2>2, DeflateStep
    <2>4. Len(input \o bytes) = Len(input) + Len(bytes)
      BY <1>2, ConcatProperties
    <2>5. Len(input') \in Nat
      BY <2>3, StoreTyped
    <2>6. Len(input') <= OT_SCRAPE_MAXENTRYLEN
      BY <1>2, <2>3, <2>4, <2>5
    <2> QED
      BY <1>1, <1>3, <2>3, <2>6
  <1>4. CASE ~mode.gzip
    <2>1. iovector' = Written(iovector, bytes) /\ input' = <<>> /\ held' = <<>>
      BY <1>4 DEF Output
    <2>2. StoreOK(iovector, <<>>, <<>>, printed)
      BY <1>4
    <2>3. StoreOK(iovector', <<>>, <<>>, printed \o bytes)
      BY <1>4, <2>1, <2>2, StoreWritten
    <2>4. Len(input') = 0 /\ 0 <= OT_SCRAPE_MAXENTRYLEN
      BY <1>2, <2>1, EmptySequence
    <2> QED
      BY <1>1, <2>1, <2>3, <2>4
  <1> QED
    BY <1>3, <1>4

\* Another chunk.
LEMMA IncreaseStep ==
    ASSUME NEW finish \in BOOLEAN,
           StoreOK(iovector, held, input, printed), fullscrape_increase(finish), mode \in Modes,
           ~mode.gzip => held = <<>> /\ input = <<>>
    PROVE  \/ /\ iovector' = <<>> /\ at' = "made"
              /\ re' = re /\ input' = input /\ held' = held
           \/ /\ StoreOK(iovector', held', input', printed)
              /\ at' = at
              /\ re' \in 1..(OT_SCRAPE_CHUNK_SIZE - OT_SCRAPE_MAXENTRYLEN)
              /\ Len(input') <= Len(input)
              /\ ~mode.gzip => held' = <<>> /\ input' = <<>>
              /\ input' # <<>> => Used(iovector') = OT_SCRAPE_CHUNK_SIZE
              /\ finish /\ held' # <<>> => Used(iovector') = OT_SCRAPE_CHUNK_SIZE
  <1>1. CASE iovector' = <<>> /\ at' = "made" /\ UNCHANGED <<re, input, held>>
    BY <1>1
  <1>2. CASE /\ IF mode.gzip THEN Deflate(iovec_increase(iovec_fixlast(iovector)), input, finish)
                ELSE iovector' = iovec_increase(iovec_fixlast(iovector)) /\ UNCHANGED <<input, held>>
             /\ re' = OT_SCRAPE_CHUNK_SIZE - OT_SCRAPE_MAXENTRYLEN - (IF mode.gzip THEN OT_SCRAPE_MAXENTRYLEN ELSE 0)
             /\ UNCHANGED at
    <2> DEFINE chunks == iovec_increase(iovec_fixlast(iovector))
    <2>1. StoreOK(chunks, held, input, printed)
      BY StoreIncreased
    <2>2. re' \in 1..(OT_SCRAPE_CHUNK_SIZE - OT_SCRAPE_MAXENTRYLEN)
      BY <1>2, SizesTyped
    <2>3. Len(input) \in Nat
      BY StoreTyped
    <2> HIDE DEF chunks
    <2>4. CASE mode.gzip
      <3>1. Deflate(chunks, input, finish)
        BY <1>2, <2>4 DEF chunks
      <3>2. /\ StoreOK(iovector', held', input', printed)
            /\ Len(input') <= Len(input)
            /\ input' # <<>> => Used(iovector') = OT_SCRAPE_CHUNK_SIZE
            /\ finish /\ held' # <<>> => Used(iovector') = OT_SCRAPE_CHUNK_SIZE
        BY <2>1, <3>1, DeflateStep
      <3> QED
        BY <1>2, <2>2, <2>4, <3>2
    <2>5. CASE ~mode.gzip
      <3>1. iovector' = chunks /\ input' = input /\ held' = held
        BY <1>2, <2>5 DEF chunks
      <3>2. StoreOK(iovector', held', input', printed) /\ Len(input') <= Len(input)
        BY <2>1, <2>3, <3>1
      <3> QED
        BY <1>2, <2>2, <2>5, <3>1, <3>2
    <2> QED
      BY <2>4, <2>5
  <1> QED
    BY <1>1, <1>2 DEF fullscrape_increase

-----------------------------------------------------------------------------
(* A full scrape: the invariant *)

\* The type invariant.
ScrapeTypeOK ==
    /\ torrents \subseteq Scraped /\ throughout \subseteq torrents
    /\ mode \in Modes
    /\ at \in {"idle", "lock", "bucket", "room", "close", "finish", "made", "stopped"}
    /\ bucket \in Nat /\ done \in Nat
    /\ printed \in Seq(Nat)
    /\ Len(input) <= OT_SCRAPE_MAXENTRYLEN
    /\ at = "idle" => iovector = <<>>

\* The answer is being made; it is made, and not for want of memory given up.
Working == at \in {"lock", "bucket", "room", "close", "finish", "stopped"}
Whole == at = "made" /\ iovector # <<>>

\* The bucket that is walked, and after the last one the number behind it.
PlaceOK ==
    /\ at \in {"lock", "bucket", "room"} => bucket \in 1..BucketCount
    /\ at = "lock" => done = 0
    /\ at \in {"close", "finish"} \/ Whole => bucket = BucketCount + 1

\* Nothing is lost while the worker prints.
StoredOK == Working => StoreOK(iovector, held, input, printed)

\* There is room for what is printed next: below the watermark in the chunk, and in
\* compress_buffer, which zlib leaves something in only if the chunk is full.
RoomOK ==
    /\ Working => re \in 1..(OT_SCRAPE_CHUNK_SIZE - (IF mode.gzip THEN 0 ELSE OT_SCRAPE_MAXENTRYLEN))
    /\ Working /\ ~mode.gzip => held = <<>> /\ input = <<>>
    /\ at \in {"lock", "bucket", "close"} => IF mode.gzip THEN Len(input) <= 1 ELSE Used(iovector) < re
    /\ at \in {"room", "finish"} /\ input # <<>> => Used(iovector) = OT_SCRAPE_CHUNK_SIZE
    /\ at = "finish" /\ held # <<>> => Used(iovector) = OT_SCRAPE_CHUNK_SIZE

\* All chunks of an answer have their length, and together that of the answer.
MadeOK ==
    Whole =>
      /\ held = <<>> /\ input = <<>>
      /\ ChunksOK(iovector, printed)
      /\ Counted(iovector, Len(iovector), Len(printed))
      /\ End(iovector) = Len(printed)

\* The dictionary is opened, and closed at the end.
FramedOK ==
    (Working \/ Whole) /\ mode.framed =>
      /\ Len(printed) >= 1 /\ printed[1] = 0
      /\ at \in {"finish", "made"} => printed[Len(printed)] = 0

\* What is listed so far, by where the worker is.
Listed(t) ==
    /\ BytesOf(t) \in {0, EntryLen[t]}
    /\ at = "lock" /\ EntryBucket[t] >= bucket => BytesOf(t) = 0
    /\ at \in {"bucket", "room"} =>
         /\ EntryBucket[t] > bucket => BytesOf(t) = 0
         /\ EntryBucket[t] = bucket =>
              BytesOf(t) = IF t \in torrents /\ tor_offset(t) < done THEN EntryLen[t] ELSE 0
    /\ (at \in {"lock", "bucket", "room", "close", "finish"} \/ Whole) /\ EntryBucket[t] < bucket
         /\ t \in throughout => BytesOf(t) = EntryLen[t]

ListedOK == \A t \in Scraped : Listed(t)

ScrapeIInv ==
    ScrapeTypeOK /\ PlaceOK /\ StoredOK /\ RoomOK /\ MadeOK /\ FramedOK /\ ListedOK

-----------------------------------------------------------------------------

\* Torrents of one bucket have places of their own in its vector.
LEMMA OffsetFacts ==
    ASSUME torrents \subseteq Scraped, NEW t \in torrents
    PROVE  /\ tor_offset(t) \in Nat
           /\ tor_offset(t) < Cardinality(InBucket(EntryBucket[t]))
           /\ \A u \in torrents : u # t /\ EntryBucket[u] = EntryBucket[t] => tor_offset(u) # tor_offset(t)
  <1> DEFINE S == InBucket(EntryBucket[t])
  <1>1. S \in SUBSET Nat /\ IsFiniteSet(S)
    <2>1. Scraped \in SUBSET Nat /\ IsFiniteSet(Scraped)
      BY ScrapeAssumption DEF ScrapeAssumption
    <2>2. S \in SUBSET Scraped
      BY DEF InBucket
    <2> QED
      BY <2>1, <2>2, FS_Subset
  <1>2. t \in S /\ \A u \in torrents : EntryBucket[u] = EntryBucket[t] => u \in S /\ tor_offset(u) = Rank(S, u)
    BY DEF InBucket, tor_offset, Rank
  <1>3. tor_offset(t) = Rank(S, t)
    BY <1>2
  <1> HIDE DEF S
  <1>4. /\ \A v \in S : Rank(S, v) \in Nat /\ Rank(S, v) < Cardinality(S)
        /\ \A v, u \in S : v # u => Rank(S, v) # Rank(S, u)
    BY <1>1, RankFacts
  <1> QED
    BY <1>2, <1>3, <1>4 DEF S

\* What is listed of a torrent is a number.
LEMMA BytesTyped ==
    ASSUME ScrapeTypeOK, NEW t
    PROVE  BytesOf(t) \in Nat /\ BytesOf(t) = BytesIn(printed, t)
  BY BytesInTyped DEF ScrapeTypeOK, BytesOf, BytesIn

\* What is listed follows from what is printed.
LEMMA BytesPrinted ==
    ASSUME NEW t
    PROVE  BytesOf(t)' = BytesIn(printed', t) /\ BytesOf(t) = BytesIn(printed, t)
  BY DEF BytesOf, BytesIn

\* It stays if nothing is printed, and places if no torrent comes or goes.
LEMMA SamePrinted ==
    ASSUME printed' = printed, NEW t
    PROVE  BytesOf(t)' = BytesOf(t)
  BY DEF BytesOf

LEMMA SameOffset ==
    ASSUME torrents' = torrents, NEW t
    PROVE  tor_offset(t)' = tor_offset(t)
  BY DEF tor_offset, InBucket

-----------------------------------------------------------------------------
(* A full scrape: the steps keep the invariant *)

LEMMA ScrapeInitially == ScrapeInit => ScrapeIInv
  <1> SUFFICES ASSUME ScrapeInit PROVE ScrapeIInv
    OBVIOUS
  <1>1. at = "idle" /\ iovector = <<>> /\ printed = <<>> /\ ~Working /\ ~Whole
    BY DEF ScrapeInit, Working, Whole
  <1>2. ScrapeTypeOK
    <2>1. 0 <= OT_SCRAPE_MAXENTRYLEN
      BY SizesTyped
    <2> QED
      BY <2>1, EmptySequence DEF ScrapeInit, ScrapeTypeOK
  <1>3. \A t \in Scraped : BytesOf(t) = 0
    <2>1. DOMAIN <<>> = {}
      OBVIOUS
    <2>2. \A t : {i \in DOMAIN printed : printed[i] = t} = {}
      BY <1>1, <2>1
    <2> QED
      BY <2>2, FS_EmptySet DEF BytesOf
  <1> QED
    BY <1>1, <1>2, <1>3 DEF ScrapeIInv, PlaceOK, StoredOK, RoomOK, MadeOK, FramedOK, ListedOK, Listed

\* A task is taken.
LEMMA StartStep == ScrapeIInv /\ Start => ScrapeIInv'
  <1> SUFFICES ASSUME ScrapeIInv, Start PROVE ScrapeIInv'
    OBVIOUS
  <1> DEFINE opening == IF mode'.framed THEN Opening ELSE <<>>
  <1>1. /\ ScrapeTypeOK
        /\ mode' \in Modes /\ bucket' = 1 /\ done' = 0 /\ held' = <<>> /\ throughout' = torrents
        /\ torrents' = torrents
    BY DEF ScrapeIInv, Start
  <1>2. torrents' \subseteq Scraped /\ throughout' \subseteq torrents'
    BY <1>1 DEF ScrapeTypeOK
  <1>3. /\ OT_SCRAPE_CHUNK_SIZE \in Nat /\ OT_SCRAPE_MAXENTRYLEN \in Nat
        /\ OT_SCRAPE_MAXENTRYLEN > 1 /\ OT_SCRAPE_CHUNK_SIZE > 2 * OT_SCRAPE_MAXENTRYLEN
        /\ BucketCount \in Nat /\ BucketCount > 0
    BY SizesTyped
  <1>4. opening \in Frames /\ opening \in Seq(Nat) /\ Len(opening) \in Nat /\ Len(opening) <= 1
        /\ \A t \in Scraped : \A i \in 1..Len(opening) : opening[i] # t
    <2>1. opening \in Frames
      BY DEF Frames, Opening
    <2> HIDE DEF opening
    <2> QED
      BY <2>1, FramePrinted
  <1>5. CASE /\ printed' = opening
             /\ input' = IF mode'.gzip THEN opening ELSE <<>>
             /\ iovector' = Written(iovec_increase(<<>>), IF mode'.gzip THEN <<>> ELSE opening)
             /\ re' = OT_SCRAPE_CHUNK_SIZE - (IF mode'.gzip THEN 0 ELSE OT_SCRAPE_MAXENTRYLEN)
             /\ at' = "lock"
    <2>1. mode'.framed => Len(opening) >= 1 /\ opening[1] = 0
      BY FrameFacts DEF Opening
    <2> HIDE DEF opening
    <2> DEFINE chunks == iovec_increase(<<>>)
    <2>2. StoreOK(chunks, <<>>, <<>>, <<>>) /\ Used(chunks) = 0
      BY StoreBegun
    <2> HIDE DEF chunks
    <2>3. <<>> \o opening = opening /\ <<>> \o <<>> = <<>> /\ <<>> \in Seq(Nat) /\ Len(<<>>) = 0
      BY <1>4, ConcatEmptySeq, EmptySequence
    <2>4. /\ StoreOK(iovector', held', input', printed')
          /\ Used(iovector') <= 1
          /\ ~mode'.gzip => input' = <<>>
          /\ Len(input') \in Nat /\ Len(input') <= 1
      <3>1. CASE mode'.gzip
        <4>1. iovector' = Written(chunks, <<>>) /\ input' = opening
          BY <1>5, <3>1 DEF chunks
        <4>2. Used(chunks) + Len(<<>>) <= OT_SCRAPE_CHUNK_SIZE
          BY <1>3, <2>2, <2>3
        <4>3. StoreOK(iovector', <<>>, <<>>, <<>> \o <<>>) /\ Used(iovector') = Used(chunks) + Len(<<>>)
          BY <2>2, <2>3, <4>1, <4>2, StoreWritten
        <4>4. StoreOK(iovector', <<>>, <<>>, <<>>)
          BY <2>3, <4>3
        <4>5. StoreOK(iovector', <<>>, <<>> \o opening, <<>> \o opening)
          BY <1>4, <4>4, StorePrinted
        <4>6. StoreOK(iovector', held', input', printed')
          BY <1>1, <1>5, <2>3, <4>1, <4>5
        <4>7. Used(iovector') <= 1
          BY <2>2, <2>3, <4>3
        <4> QED
          BY <1>4, <3>1, <4>1, <4>6, <4>7
      <3>2. CASE ~mode'.gzip
        <4>1. iovector' = Written(chunks, opening) /\ input' = <<>>
          BY <1>5, <3>2 DEF chunks
        <4>2. Used(chunks) + Len(opening) <= OT_SCRAPE_CHUNK_SIZE
          BY <1>3, <1>4, <2>2
        <4>3. StoreOK(iovector', <<>>, <<>>, <<>> \o opening) /\ Used(iovector') = Used(chunks) + Len(opening)
          BY <1>4, <2>2, <4>1, <4>2, StoreWritten
        <4>4. StoreOK(iovector', held', input', printed')
          BY <1>1, <1>5, <2>3, <4>1, <4>3
        <4>5. Used(iovector') <= 1 /\ Len(input') \in Nat /\ Len(input') <= 1
          BY <1>4, <2>2, <2>3, <4>1, <4>3
        <4> QED
          BY <4>1, <4>4, <4>5
      <3> QED
        BY <3>1, <3>2
    <2>5. Used(iovector') \in Nat /\ Used(iovector') <= 1 /\ Len(input') \in Nat /\ Len(input') <= 1
      BY <2>4, StoreTyped, Zenon
    <2>6. Working' /\ ~Whole'
      BY <1>5 DEF Working, Whole
    <2>7. ScrapeTypeOK'
      <3>1. Len(input') <= OT_SCRAPE_MAXENTRYLEN
        BY <1>3, <2>5
      <3> QED
        BY <1>1, <1>2, <1>4, <1>5, <3>1 DEF ScrapeTypeOK
    <2>8. PlaceOK'
      <3>1. bucket' \in 1..BucketCount
        BY <1>1, <1>3
      <3> QED
        BY <1>1, <1>5, <2>6, <3>1 DEF PlaceOK
    <2>9. StoredOK'
      BY <2>4 DEF StoredOK
    <2>10. RoomOK'
      <3>1. re' \in 1..(OT_SCRAPE_CHUNK_SIZE - (IF mode'.gzip THEN 0 ELSE OT_SCRAPE_MAXENTRYLEN))
        BY <1>3, <1>5
      <3>2. IF mode'.gzip THEN Len(input') <= 1 ELSE Used(iovector') < re'
        <4>1. ~mode'.gzip => re' = OT_SCRAPE_CHUNK_SIZE - OT_SCRAPE_MAXENTRYLEN
          BY <1>5
        <4>2. ~mode'.gzip => Used(iovector') < re'
          BY <1>3, <2>5, <4>1
        <4>3. Len(input') <= 1
          BY <2>5
        <4> QED
          BY <4>2, <4>3
      <3> QED
        BY <1>1, <1>5, <2>4, <3>1, <3>2 DEF RoomOK
    <2>11. MadeOK' /\ FramedOK'
      BY <1>5, <2>1, <2>6 DEF MadeOK, FramedOK
    <2>12. ListedOK'
      <3> SUFFICES ASSUME NEW t \in Scraped PROVE Listed(t)'
        BY DEF ListedOK
      <3>1. BytesOf(t)' = 0
        <4>1. {i \in DOMAIN opening : opening[i] = t} = {}
          BY <1>4, LenProperties
        <4> QED
          BY <1>5, <4>1, FS_EmptySet DEF BytesOf
      <3>2. ~(EntryBucket[t] < bucket')
        BY <1>1, EntryFacts
      <3> QED
        BY <1>5, <3>1, <3>2 DEF Listed
    <2> QED
      BY <2>7, <2>8, <2>9, <2>10, <2>11, <2>12 DEF ScrapeIInv
  <1>6. CASE /\ iovector' = <<>> /\ input' = <<>> /\ printed' = <<>> /\ re' = 0
             /\ at' = "made"
    <2>1. ~Working' /\ ~Whole'
      BY <1>6 DEF Working, Whole
    <2>2. ScrapeTypeOK'
      <3>1. Len(input') <= OT_SCRAPE_MAXENTRYLEN
        BY <1>3, <1>6, EmptySequence
      <3> QED
        BY <1>1, <1>2, <1>6, <3>1, EmptySequence DEF ScrapeTypeOK
    <2>3. ListedOK'
      <3> SUFFICES ASSUME NEW t \in Scraped PROVE Listed(t)'
        BY DEF ListedOK
      <3>1. BytesOf(t)' = 0
        <4>1. DOMAIN <<>> = {}
          OBVIOUS
        <4>2. {i \in DOMAIN printed' : printed'[i] = t} = {}
          BY <1>6, <4>1
        <4> QED
          BY <4>2, FS_EmptySet DEF BytesOf
      <3> QED
        BY <1>6, <2>1, <3>1 DEF Listed
    <2> QED
      BY <1>6, <2>1, <2>2, <2>3 DEF ScrapeIInv, PlaceOK, StoredOK, RoomOK, MadeOK, FramedOK
  <1> QED
    BY <1>5, <1>6 DEF Start

LEMMA LockStep == ScrapeIInv /\ Lock => ScrapeIInv'
  <1> SUFFICES ASSUME ScrapeIInv, Lock PROVE ScrapeIInv'
    OBVIOUS
  <1>1. /\ at = "lock" /\ at' = "bucket"
        /\ torrents' = torrents /\ mode' = mode /\ bucket' = bucket /\ done' = done
        /\ iovector' = iovector /\ re' = re /\ input' = input /\ held' = held
        /\ printed' = printed /\ throughout' = throughout
    BY DEF Lock
  <1>2. ScrapeTypeOK /\ PlaceOK /\ StoredOK /\ RoomOK /\ MadeOK /\ FramedOK /\ ListedOK
    BY DEF ScrapeIInv
  <1>3. Working /\ Working' /\ ~Whole /\ ~Whole'
    BY <1>1 DEF Working, Whole
  <1>4. ScrapeTypeOK' /\ PlaceOK' /\ StoredOK' /\ MadeOK'
    BY <1>1, <1>2, <1>3 DEF ScrapeTypeOK, PlaceOK, StoredOK, MadeOK
  <1>5. RoomOK'
    BY <1>1, <1>2, <1>3 DEF RoomOK
  <1>6. FramedOK'
    BY <1>1, <1>2, <1>3 DEF FramedOK
  <1>7. ASSUME NEW t \in Scraped
        PROVE  Listed(t)'
    <2>1. BytesOf(t)' = BytesOf(t) /\ tor_offset(t)' = tor_offset(t)
      BY <1>1, SamePrinted, SameOffset
    <2>2. Listed(t)
      BY <1>2 DEF ListedOK
    <2>3. EntryBucket[t] \in Nat /\ bucket \in Nat /\ done = 0
      BY <1>1, <1>2, EntryFacts DEF ScrapeTypeOK, PlaceOK
    <2>4. t \in torrents => tor_offset(t) \in Nat
      BY <1>2, OffsetFacts DEF ScrapeTypeOK
    <2>5. BytesOf(t)' \in {0, EntryLen[t]}
      BY <2>1, <2>2 DEF Listed
    <2>6. EntryBucket[t] >= bucket => BytesOf(t)' = 0
      BY <1>1, <2>1, <2>2 DEF Listed
    <2>7. EntryBucket[t] < bucket /\ t \in throughout => BytesOf(t)' = EntryLen[t]
      BY <1>1, <2>1, <2>2 DEF Listed
    <2>8. ~(t \in torrents /\ tor_offset(t)' < done)
      BY <2>1, <2>3, <2>4
    <2> QED
      BY <1>1, <1>3, <2>3, <2>5, <2>6, <2>7, <2>8 DEF Listed
  <1> QED
    BY <1>4, <1>5, <1>6, <1>7 DEF ScrapeIInv, ListedOK

\* What is printed behind p leaves its first byte.
LEMMA FirstStays ==
    ASSUME NEW p \in Seq(Nat), NEW bytes \in Seq(Nat), Len(p) >= 1
    PROVE  /\ Len(p \o bytes) >= 1 /\ (p \o bytes)[1] = p[1]
  <1>1. Len(p) \in Nat /\ Len(bytes) \in Nat
    BY LenProperties
  <1>2. /\ Len(p \o bytes) = Len(p) + Len(bytes)
        /\ \A i \in 1..(Len(p) + Len(bytes)) : (p \o bytes)[i] = IF i <= Len(p) THEN p[i] ELSE bytes[i - Len(p)]
    BY ConcatProperties
  <1>3. 1 \in 1..(Len(p) + Len(bytes)) /\ 1 <= Len(p)
    BY <1>1
  <1>4. Len(p) + Len(bytes) >= 1
    BY <1>1
  <1> QED
    BY <1>2, <1>3, <1>4

LEMMA PrintEntryStep == ScrapeIInv /\ PrintEntry => ScrapeIInv'
  <1> SUFFICES ASSUME ScrapeIInv, PrintEntry PROVE ScrapeIInv'
    OBVIOUS
  <1>1. /\ at = "bucket" /\ at' = "room" /\ done' = done + 1
        /\ torrents' = torrents /\ mode' = mode /\ bucket' = bucket
        /\ re' = re /\ throughout' = throughout
    BY DEF PrintEntry
  <1>2. ScrapeTypeOK /\ PlaceOK /\ StoredOK /\ RoomOK /\ MadeOK /\ FramedOK /\ ListedOK
    BY DEF ScrapeIInv
  <1>3. Working /\ Working' /\ ~Whole /\ ~Whole'
    BY <1>1 DEF Working, Whole
  <1>4. PICK u \in InBucket(bucket) : tor_offset(u) = done /\ Output(Entry(u), FALSE)
    BY DEF PrintEntry
  <1>5. u \in torrents /\ u \in Scraped /\ EntryBucket[u] = bucket
    BY <1>2 DEF InBucket, ScrapeTypeOK
  <1>6. /\ u \in Nat /\ EntryLen[u] \in Nat /\ EntryLen[u] + 1 <= OT_SCRAPE_MAXENTRYLEN
        /\ Entry(u) \in Seq(Nat) /\ Len(Entry(u)) = EntryLen[u]
        /\ \A i \in 1..Len(Entry(u)) : Entry(u)[i] = u
    BY <1>5, EntryFacts
  <1>7. /\ OT_SCRAPE_CHUNK_SIZE \in Nat /\ OT_SCRAPE_MAXENTRYLEN \in Nat
        /\ OT_SCRAPE_MAXENTRYLEN > 1 /\ OT_SCRAPE_CHUNK_SIZE > 2 * OT_SCRAPE_MAXENTRYLEN
    BY SizesTyped
  <1>8. /\ StoreOK(iovector, held, input, printed)
        /\ Used(iovector) \in Nat /\ Len(input) \in Nat
    BY <1>2, <1>3, StoreTyped DEF StoredOK
  <1>9. /\ mode.gzip => Len(input) <= 1
        /\ ~mode.gzip => Used(iovector) < re /\ held = <<>> /\ input = <<>>
        /\ re \in 1..(OT_SCRAPE_CHUNK_SIZE - (IF mode.gzip THEN 0 ELSE OT_SCRAPE_MAXENTRYLEN))
    BY <1>1, <1>2, <1>3 DEF RoomOK
  <1>10. Len(input) + Len(Entry(u)) <= OT_SCRAPE_MAXENTRYLEN
    <2>1. Len(input) <= 1
      BY <1>9, EmptySequence
    <2> QED
      BY <1>6, <1>7, <1>8, <2>1
  <1>11. ~mode.gzip => Used(iovector) + Len(Entry(u)) <= OT_SCRAPE_CHUNK_SIZE
    <2>1. ~mode.gzip => re \in 1..(OT_SCRAPE_CHUNK_SIZE - OT_SCRAPE_MAXENTRYLEN) /\ Used(iovector) < re
      BY <1>9
    <2> QED
      BY <1>6, <1>7, <1>8, <2>1
  <1>12. /\ StoreOK(iovector', held', input', printed')
         /\ printed' = printed \o Entry(u)
         /\ Len(input') <= OT_SCRAPE_MAXENTRYLEN
         /\ ~mode.gzip => held' = <<>> /\ input' = <<>>
         /\ input' # <<>> => Used(iovector') = OT_SCRAPE_CHUNK_SIZE
    <2>1. mode \in Modes /\ FALSE \in BOOLEAN
      BY <1>2 DEF ScrapeTypeOK
    <2>2. ~mode.gzip =>
            held = <<>> /\ input = <<>> /\ Used(iovector) + Len(Entry(u)) <= OT_SCRAPE_CHUNK_SIZE
      BY <1>9, <1>11
    <2> QED
      BY <1>4, <1>6, <1>8, <1>10, <2>1, <2>2, OutputStep
  <1>13. printed \in Seq(Nat) /\ printed' \in Seq(Nat) /\ iovector' # <<>>
    BY <1>2, <1>12, StoreTyped DEF ScrapeTypeOK
  <1>14. ScrapeTypeOK'
    <2>1. done' \in Nat
      BY <1>1, <1>2 DEF ScrapeTypeOK
    <2> QED
      BY <1>1, <1>2, <1>12, <1>13, <2>1 DEF ScrapeTypeOK
  <1>15. PlaceOK' /\ StoredOK' /\ MadeOK'
    BY <1>1, <1>2, <1>3, <1>12 DEF PlaceOK, StoredOK, MadeOK
  <1>16. RoomOK'
    BY <1>1, <1>9, <1>12 DEF RoomOK
  <1>17. FramedOK'
    <2>1. Len(printed) >= 1 => Len(printed') >= 1 /\ printed'[1] = printed[1]
      BY <1>6, <1>12, <1>13, FirstStays
    <2> QED
      BY <1>1, <1>2, <1>3, <2>1 DEF FramedOK
  <1>18. ASSUME NEW t \in Scraped
         PROVE  Listed(t)'
    <2>1. BytesOf(t)' = BytesIn(printed', t) /\ BytesOf(t) = BytesIn(printed, t) /\ BytesOf(t) \in Nat
      BY <1>2, BytesPrinted, BytesTyped
    <2>2. tor_offset(t)' = tor_offset(t)
      BY <1>1, SameOffset
    <2>3. Listed(t)
      BY <1>2 DEF ListedOK
    <2>4. bucket \in Nat /\ done \in Nat /\ EntryBucket[t] \in Nat
      BY <1>2, EntryFacts DEF ScrapeTypeOK
    <2>5. CASE t = u
      <3>1. ~(tor_offset(u) < done) /\ tor_offset(u) < done + 1
        BY <1>4, <2>4
      <3>2. BytesOf(t) = 0
        BY <1>1, <1>5, <2>3, <2>5, <3>1 DEF Listed
      <3>3. BytesOf(t)' = BytesIn(printed, t) + EntryLen[t]
        BY <1>6, <1>12, <1>13, <2>1, <2>5, BytesOfOwn
      <3>4. BytesOf(t)' = EntryLen[t]
        BY <1>6, <2>1, <2>5, <3>2, <3>3
      <3>5. ~(EntryBucket[t] > bucket)
        BY <1>5, <2>4, <2>5
      <3> QED
        BY <1>1, <1>5, <2>2, <2>5, <3>1, <3>4, <3>5 DEF Listed
    <2>6. CASE t # u
      <3>1. BytesOf(t)' = BytesOf(t)
        <4>1. \A i \in 1..Len(Entry(u)) : Entry(u)[i] # t
          BY <1>6, <2>6
        <4> QED
          BY <1>6, <1>12, <1>13, <2>1, <4>1, BytesOfOthers
      <3>2. t \in torrents /\ EntryBucket[t] = bucket => (tor_offset(t) < done <=> tor_offset(t) < done + 1)
        <4> SUFFICES ASSUME t \in torrents, EntryBucket[t] = bucket
                     PROVE  tor_offset(t) < done <=> tor_offset(t) < done + 1
          OBVIOUS
        <4>1. tor_offset(t) \in Nat /\ tor_offset(t) # tor_offset(u)
          BY <1>2, <1>5, <2>6, OffsetFacts DEF ScrapeTypeOK
        <4> QED
          BY <1>4, <2>4, <4>1
      <3>3. BytesOf(t) \in {0, EntryLen[t]}
        BY <2>3 DEF Listed
      <3>4. EntryBucket[t] > bucket => BytesOf(t) = 0
        BY <1>1, <2>3 DEF Listed
      <3>5. EntryBucket[t] = bucket =>
              BytesOf(t) = IF t \in torrents /\ tor_offset(t) < done + 1 THEN EntryLen[t] ELSE 0
        BY <1>1, <2>3, <3>2 DEF Listed
      <3>6. EntryBucket[t] < bucket /\ t \in throughout => BytesOf(t) = EntryLen[t]
        BY <1>1, <2>3 DEF Listed
      <3> QED
        BY <1>1, <2>2, <3>1, <3>3, <3>4, <3>5, <3>6 DEF Listed
    <2> QED
      BY <2>5, <2>6
  <1> QED
    BY <1>14, <1>15, <1>16, <1>17, <1>18 DEF ScrapeIInv, ListedOK

LEMMA MakeRoomStep == ScrapeIInv /\ MakeRoom => ScrapeIInv'
  <1> SUFFICES ASSUME ScrapeIInv, MakeRoom PROVE ScrapeIInv'
    OBVIOUS
  <1>1. /\ at = "room"
        /\ torrents' = torrents /\ mode' = mode /\ bucket' = bucket /\ done' = done
        /\ printed' = printed /\ throughout' = throughout
    BY DEF MakeRoom
  <1>2. ScrapeTypeOK /\ PlaceOK /\ StoredOK /\ RoomOK /\ MadeOK /\ FramedOK /\ ListedOK
    BY DEF ScrapeIInv
  <1>3. Working /\ ~Whole
    BY <1>1 DEF Working, Whole
  <1>4. /\ StoreOK(iovector, held, input, printed)
        /\ Used(iovector) \in Nat /\ Len(input) \in Nat
    BY <1>2, <1>3, StoreTyped DEF StoredOK
  <1>5. /\ mode \in Modes /\ Len(input) <= OT_SCRAPE_MAXENTRYLEN
        /\ torrents' \subseteq Scraped /\ throughout' \subseteq torrents' /\ mode' \in Modes
        /\ bucket' \in Nat /\ done' \in Nat /\ printed' \in Seq(Nat)
    BY <1>1, <1>2 DEF ScrapeTypeOK
  <1>6. /\ re \in 1..(OT_SCRAPE_CHUNK_SIZE - (IF mode.gzip THEN 0 ELSE OT_SCRAPE_MAXENTRYLEN))
        /\ ~mode.gzip => held = <<>> /\ input = <<>>
        /\ input # <<>> => Used(iovector) = OT_SCRAPE_CHUNK_SIZE
    BY <1>1, <1>2, <1>3 DEF RoomOK
  <1>7. /\ OT_SCRAPE_CHUNK_SIZE \in Nat /\ OT_SCRAPE_MAXENTRYLEN \in Nat
        /\ OT_SCRAPE_MAXENTRYLEN > 1 /\ OT_SCRAPE_CHUNK_SIZE > 2 * OT_SCRAPE_MAXENTRYLEN
    BY SizesTyped
  <1>8. \A t \in Scraped : Listed(t) /\ BytesOf(t)' = BytesOf(t) /\ tor_offset(t)' = tor_offset(t)
    BY <1>1, <1>2, SamePrinted, SameOffset DEF ListedOK
  <1>9. CASE fullscrape_increase(FALSE)
    <2>1. \/ /\ iovector' = <<>> /\ at' = "made"
             /\ re' = re /\ input' = input /\ held' = held
          \/ /\ StoreOK(iovector', held', input', printed)
             /\ at' = at
             /\ re' \in 1..(OT_SCRAPE_CHUNK_SIZE - OT_SCRAPE_MAXENTRYLEN)
             /\ Len(input') <= Len(input)
             /\ ~mode.gzip => held' = <<>> /\ input' = <<>>
             /\ input' # <<>> => Used(iovector') = OT_SCRAPE_CHUNK_SIZE
      <3>1. FALSE \in BOOLEAN
        OBVIOUS
      <3> QED
        BY <1>4, <1>5, <1>6, <1>9, <3>1, IncreaseStep
    <2>2. CASE /\ iovector' = <<>> /\ at' = "made"
               /\ re' = re /\ input' = input /\ held' = held
      <3>1. ~Working' /\ ~Whole'
        BY <2>2 DEF Working, Whole
      <3>2. ScrapeTypeOK'
        BY <1>5, <2>2 DEF ScrapeTypeOK
      <3>3. ListedOK'
        BY <1>8, <2>2, <3>1 DEF ListedOK, Listed
      <3> QED
        BY <2>2, <3>1, <3>2, <3>3 DEF ScrapeIInv, PlaceOK, StoredOK, RoomOK, MadeOK, FramedOK
    <2>3. CASE /\ StoreOK(iovector', held', input', printed)
               /\ at' = at
               /\ re' \in 1..(OT_SCRAPE_CHUNK_SIZE - OT_SCRAPE_MAXENTRYLEN)
               /\ Len(input') <= Len(input)
               /\ ~mode.gzip => held' = <<>> /\ input' = <<>>
               /\ input' # <<>> => Used(iovector') = OT_SCRAPE_CHUNK_SIZE
      <3>1. Working' /\ ~Whole'
        BY <1>1, <2>3 DEF Working, Whole
      <3>2. ScrapeTypeOK'
        <4>1. Len(input') \in Nat
          BY <2>3, StoreTyped
        <4>2. Len(input') <= OT_SCRAPE_MAXENTRYLEN
          BY <1>4, <1>5, <1>7, <2>3, <4>1
        <4> QED
          BY <1>1, <1>5, <2>3, <4>2 DEF ScrapeTypeOK
      <3>3. PlaceOK' /\ StoredOK' /\ MadeOK'
        BY <1>1, <1>2, <2>3, <3>1 DEF PlaceOK, StoredOK, MadeOK
      <3>4. RoomOK'
        <4>1. re' \in 1..(OT_SCRAPE_CHUNK_SIZE - (IF mode'.gzip THEN 0 ELSE OT_SCRAPE_MAXENTRYLEN))
          BY <1>7, <2>3
        <4> QED
          BY <1>1, <2>3, <4>1 DEF RoomOK
      <3>5. FramedOK'
        BY <1>1, <1>2, <1>3, <2>3 DEF FramedOK
      <3>6. ListedOK'
        BY <1>1, <1>8, <2>3 DEF ListedOK, Listed, Whole
      <3> QED
        BY <3>2, <3>3, <3>4, <3>5, <3>6 DEF ScrapeIInv
    <2> QED
      BY <2>1, <2>2, <2>3
  <1>10. CASE Used(iovector) < re /\ input' = <<>> /\ at' = "bucket" /\ UNCHANGED <<iovector, re, held>>
    <2>1. Working' /\ ~Whole'
      BY <1>10 DEF Working, Whole
    <2>2. input = <<>>
      <3>1. re \in Nat /\ re <= OT_SCRAPE_CHUNK_SIZE
        BY <1>6, <1>7
      <3> QED
        BY <1>4, <1>6, <1>7, <1>10, <3>1
    <2>3. ScrapeTypeOK'
      BY <1>5, <1>10, <2>2 DEF ScrapeTypeOK
    <2>4. PlaceOK' /\ StoredOK' /\ MadeOK'
      BY <1>1, <1>2, <1>3, <1>10, <2>1, <2>2 DEF PlaceOK, StoredOK, MadeOK
    <2>5. RoomOK'
      <3>1. Len(input') <= 1
        BY <1>10, EmptySequence
      <3> QED
        BY <1>1, <1>6, <1>10, <3>1 DEF RoomOK
    <2>6. FramedOK'
      BY <1>1, <1>2, <1>3, <1>10 DEF FramedOK
    <2>7. ListedOK'
      BY <1>1, <1>8, <1>10 DEF ListedOK, Listed, Whole
    <2> QED
      BY <2>3, <2>4, <2>5, <2>6, <2>7 DEF ScrapeIInv
  <1> QED
    BY <1>9, <1>10 DEF MakeRoom

LEMMA UnlockStep == ScrapeIInv /\ Unlock => ScrapeIInv'
  <1> SUFFICES ASSUME ScrapeIInv, Unlock PROVE ScrapeIInv'
    OBVIOUS
  <1>1. /\ at = "bucket" /\ done = Cardinality(InBucket(bucket))
        /\ torrents' = torrents /\ mode' = mode
        /\ iovector' = iovector /\ re' = re /\ input' = input /\ held' = held
        /\ printed' = printed /\ throughout' = throughout
    BY DEF Unlock
  <1>2. ScrapeTypeOK /\ PlaceOK /\ StoredOK /\ RoomOK /\ MadeOK /\ FramedOK /\ ListedOK
    BY DEF ScrapeIInv
  <1>3. Working /\ ~Whole
    BY <1>1 DEF Working, Whole
  <1>4. \A t \in Scraped : Listed(t) /\ BytesOf(t)' = BytesOf(t) /\ tor_offset(t)' = tor_offset(t)
    BY <1>1, <1>2, SamePrinted, SameOffset DEF ListedOK
  <1>5. bucket \in 1..BucketCount /\ bucket \in Nat /\ BucketCount \in Nat
    BY <1>1, <1>2, SizesTyped DEF PlaceOK
  <1>6. CASE at' = "stopped" /\ UNCHANGED <<bucket, done>>
    <2>1. Working' /\ ~Whole'
      BY <1>6 DEF Working, Whole
    <2>2. ScrapeTypeOK'
      BY <1>1, <1>2, <1>6 DEF ScrapeTypeOK
    <2>3. PlaceOK' /\ StoredOK' /\ MadeOK'
      BY <1>1, <1>2, <1>3, <1>6, <2>1 DEF PlaceOK, StoredOK, MadeOK
    <2>4. RoomOK' /\ FramedOK'
      BY <1>1, <1>2, <1>3, <1>6, <2>1 DEF RoomOK, FramedOK
    <2>5. ListedOK'
      BY <1>4, <1>6, <2>1 DEF ListedOK, Listed
    <2> QED
      BY <2>2, <2>3, <2>4, <2>5 DEF ScrapeIInv
  <1>7. CASE /\ bucket' = bucket + 1 /\ done' = 0
             /\ at' = IF bucket < BucketCount THEN "lock" ELSE "close"
    <2>1. at' \in {"lock", "close"} /\ Working' /\ ~Whole'
      BY <1>7 DEF Working, Whole
    <2>2. ScrapeTypeOK'
      <3>1. bucket' \in Nat /\ done' \in Nat
        BY <1>5, <1>7
      <3> QED
        BY <1>1, <1>2, <2>1, <3>1 DEF ScrapeTypeOK
    <2>3. PlaceOK'
      <3>1. at' = "lock" => bucket' \in 1..BucketCount
        BY <1>5, <1>7
      <3>2. at' = "close" => bucket' = BucketCount + 1
        BY <1>5, <1>7
      <3> QED
        BY <1>7, <2>1, <3>1, <3>2 DEF PlaceOK
    <2>4. StoredOK' /\ MadeOK'
      BY <1>1, <1>2, <1>3, <2>1 DEF StoredOK, MadeOK
    <2>5. RoomOK'
      BY <1>1, <1>2, <1>3, <2>1 DEF RoomOK
    <2>6. FramedOK'
      BY <1>1, <1>2, <1>3, <2>1 DEF FramedOK
    <2>7. ASSUME NEW t \in Scraped
          PROVE  Listed(t)'
      <3>1. EntryBucket[t] \in Nat /\ EntryBucket[t] <= BucketCount
        BY <1>5, EntryFacts
      <3>2. Listed(t) /\ BytesOf(t)' = BytesOf(t)
        BY <1>4
      <3>3. BytesOf(t) \in {0, EntryLen[t]}
        BY <3>2 DEF Listed
      <3>4. EntryBucket[t] > bucket => BytesOf(t) = 0
        BY <1>1, <3>2 DEF Listed
      <3>5. EntryBucket[t] = bucket /\ t \in throughout => BytesOf(t) = EntryLen[t]
        <4> SUFFICES ASSUME EntryBucket[t] = bucket, t \in throughout
                     PROVE  BytesOf(t) = EntryLen[t]
          OBVIOUS
        <4>1. t \in torrents /\ torrents \subseteq Scraped
          BY <1>2 DEF ScrapeTypeOK
        <4>2. tor_offset(t) < done
          BY <1>1, <4>1, OffsetFacts
        <4> QED
          BY <1>1, <3>2, <4>1, <4>2 DEF Listed
      <3>6. EntryBucket[t] < bucket /\ t \in throughout => BytesOf(t) = EntryLen[t]
        BY <1>1, <3>2 DEF Listed
      <3>7. EntryBucket[t] >= bucket' => BytesOf(t) = 0
        BY <1>5, <1>7, <3>1, <3>4
      <3>8. EntryBucket[t] < bucket' /\ t \in throughout => BytesOf(t) = EntryLen[t]
        BY <1>5, <1>7, <3>1, <3>5, <3>6
      <3> QED
        BY <1>1, <2>1, <3>2, <3>3, <3>7, <3>8 DEF Listed
    <2> QED
      BY <2>2, <2>3, <2>4, <2>5, <2>6, <2>7 DEF ScrapeIInv, ListedOK
  <1> QED
    BY <1>6, <1>7 DEF Unlock

LEMMA CloseStep == ScrapeIInv /\ Close => ScrapeIInv'
  <1> SUFFICES ASSUME ScrapeIInv, Close PROVE ScrapeIInv'
    OBVIOUS
  <1> DEFINE closing == IF mode.framed THEN Closing ELSE <<>>
  <1>1. /\ at = "close" /\ at' = "finish" /\ Output(closing, TRUE)
        /\ torrents' = torrents /\ mode' = mode /\ bucket' = bucket /\ done' = done
        /\ re' = re /\ throughout' = throughout
    BY DEF Close
  <1>2. ScrapeTypeOK /\ PlaceOK /\ StoredOK /\ RoomOK /\ MadeOK /\ FramedOK /\ ListedOK
    BY DEF ScrapeIInv
  <1>3. Working /\ Working' /\ ~Whole /\ ~Whole'
    BY <1>1 DEF Working, Whole
  <1>4. closing \in Frames /\ (mode.framed => closing = <<0>>)
    BY DEF Frames, Closing
  <1> HIDE DEF closing
  <1>5. /\ closing \in Seq(Nat) /\ Len(closing) \in Nat /\ Len(closing) <= 1
        /\ \A t \in Scraped : \A i \in 1..Len(closing) : closing[i] # t
    BY <1>4, FramePrinted
  <1>6. /\ OT_SCRAPE_CHUNK_SIZE \in Nat /\ OT_SCRAPE_MAXENTRYLEN \in Nat
        /\ OT_SCRAPE_MAXENTRYLEN > 1 /\ OT_SCRAPE_CHUNK_SIZE > 2 * OT_SCRAPE_MAXENTRYLEN
    BY SizesTyped
  <1>7. /\ StoreOK(iovector, held, input, printed)
        /\ Used(iovector) \in Nat /\ Len(input) \in Nat
    BY <1>2, <1>3, StoreTyped DEF StoredOK
  <1>8. /\ mode.gzip => Len(input) <= 1
        /\ ~mode.gzip => Used(iovector) < re /\ held = <<>> /\ input = <<>>
        /\ re \in 1..(OT_SCRAPE_CHUNK_SIZE - (IF mode.gzip THEN 0 ELSE OT_SCRAPE_MAXENTRYLEN))
    BY <1>1, <1>2, <1>3 DEF RoomOK
  <1>9. Len(input) + Len(closing) <= OT_SCRAPE_MAXENTRYLEN
    <2>1. Len(input) <= 1
      BY <1>8, EmptySequence
    <2> QED
      BY <1>5, <1>6, <1>7, <2>1
  <1>10. ~mode.gzip => Used(iovector) + Len(closing) <= OT_SCRAPE_CHUNK_SIZE
    <2>1. ~mode.gzip => re \in 1..(OT_SCRAPE_CHUNK_SIZE - OT_SCRAPE_MAXENTRYLEN) /\ Used(iovector) < re
      BY <1>8
    <2> QED
      BY <1>5, <1>6, <1>7, <2>1
  <1>11. /\ StoreOK(iovector', held', input', printed')
         /\ printed' = printed \o closing
         /\ Len(input') <= OT_SCRAPE_MAXENTRYLEN
         /\ ~mode.gzip => held' = <<>> /\ input' = <<>>
         /\ input' # <<>> => Used(iovector') = OT_SCRAPE_CHUNK_SIZE
         /\ held' # <<>> => Used(iovector') = OT_SCRAPE_CHUNK_SIZE
    <2>1. mode \in Modes /\ TRUE \in BOOLEAN
      BY <1>2 DEF ScrapeTypeOK
    <2>2. ~mode.gzip =>
            held = <<>> /\ input = <<>> /\ Used(iovector) + Len(closing) <= OT_SCRAPE_CHUNK_SIZE
      BY <1>8, <1>10
    <2> QED
      BY <1>1, <1>5, <1>7, <1>9, <2>1, <2>2, OutputStep
  <1>12. printed \in Seq(Nat) /\ printed' \in Seq(Nat)
    BY <1>2, <1>11, StoreTyped DEF ScrapeTypeOK
  <1>13. ScrapeTypeOK'
    BY <1>1, <1>2, <1>11, <1>12 DEF ScrapeTypeOK
  <1>14. PlaceOK' /\ StoredOK' /\ MadeOK'
    BY <1>1, <1>2, <1>3, <1>11 DEF PlaceOK, StoredOK, MadeOK
  <1>15. RoomOK'
    BY <1>1, <1>8, <1>11 DEF RoomOK
  <1>16. FramedOK'
    <2> SUFFICES ASSUME mode.framed
                 PROVE  Len(printed') >= 1 /\ printed'[1] = 0 /\ printed'[Len(printed')] = 0
      BY <1>1 DEF FramedOK
    <2>1. Len(printed) >= 1 /\ printed[1] = 0
      BY <1>2, <1>3 DEF FramedOK
    <2>2. Len(printed') >= 1 /\ printed'[1] = 0
      BY <1>5, <1>11, <1>12, <2>1, FirstStays
    <2>3. Len(closing) = 1 /\ closing[1] = 0
      BY <1>4, FrameFacts
    <2>4. /\ Len(printed') = Len(printed) + Len(closing)
          /\ \A i \in 1..(Len(printed) + Len(closing)) :
               printed'[i] = IF i <= Len(printed) THEN printed[i] ELSE closing[i - Len(printed)]
      BY <1>5, <1>11, <1>12, ConcatProperties
    <2>5. Len(printed) \in Nat
      BY <1>12, LenProperties
    <2> DEFINE n == Len(printed)
    <2>6. n + 1 \in 1..(n + 1) /\ ~(n + 1 <= n) /\ (n + 1) - n = 1
      BY <2>5
    <2>7. printed'[n + 1] = closing[1] /\ Len(printed') = n + 1
      BY <2>3, <2>4, <2>6
    <2> QED
      BY <2>2, <2>3, <2>7
  <1>17. ASSUME NEW t \in Scraped
         PROVE  Listed(t)'
    <2>1. BytesOf(t)' = BytesOf(t)
      <3>1. BytesOf(t)' = BytesIn(printed', t) /\ BytesOf(t) = BytesIn(printed, t)
        BY BytesPrinted
      <3> QED
        BY <1>5, <1>11, <1>12, <3>1, BytesOfOthers
    <2>2. Listed(t)
      BY <1>2 DEF ListedOK
    <2> QED
      BY <1>1, <1>3, <2>1, <2>2 DEF Listed
  <1> QED
    BY <1>13, <1>14, <1>15, <1>16, <1>17 DEF ScrapeIInv, ListedOK

LEMMA FinishStep == ScrapeIInv /\ Finish => ScrapeIInv'
  <1> SUFFICES ASSUME ScrapeIInv, Finish PROVE ScrapeIInv'
    OBVIOUS
  <1>1. /\ at = "finish"
        /\ torrents' = torrents /\ mode' = mode /\ bucket' = bucket /\ done' = done
        /\ printed' = printed /\ throughout' = throughout
    BY DEF Finish
  <1>2. ScrapeTypeOK /\ PlaceOK /\ StoredOK /\ RoomOK /\ MadeOK /\ FramedOK /\ ListedOK
    BY DEF ScrapeIInv
  <1>3. Working /\ ~Whole
    BY <1>1 DEF Working, Whole
  <1>4. /\ StoreOK(iovector, held, input, printed)
        /\ Used(iovector) \in Nat /\ End(iovector) \in Nat /\ Len(input) \in Nat
    BY <1>2, <1>3, StoreTyped DEF StoredOK
  <1>5. /\ mode \in Modes /\ Len(input) <= OT_SCRAPE_MAXENTRYLEN /\ input \in Seq(Nat)
        /\ torrents' \subseteq Scraped /\ throughout' \subseteq torrents' /\ mode' \in Modes
        /\ bucket' \in Nat /\ done' \in Nat /\ printed' \in Seq(Nat)
    BY <1>1, <1>2, <1>4, StoreTyped DEF ScrapeTypeOK
  <1>6. /\ re \in 1..(OT_SCRAPE_CHUNK_SIZE - (IF mode.gzip THEN 0 ELSE OT_SCRAPE_MAXENTRYLEN))
        /\ ~mode.gzip => held = <<>> /\ input = <<>>
        /\ input # <<>> => Used(iovector) = OT_SCRAPE_CHUNK_SIZE
        /\ held # <<>> => Used(iovector) = OT_SCRAPE_CHUNK_SIZE
    BY <1>1, <1>2, <1>3 DEF RoomOK
  <1>7. /\ OT_SCRAPE_CHUNK_SIZE \in Nat /\ OT_SCRAPE_MAXENTRYLEN \in Nat
        /\ OT_SCRAPE_MAXENTRYLEN > 1 /\ OT_SCRAPE_CHUNK_SIZE > 2 * OT_SCRAPE_MAXENTRYLEN
    BY SizesTyped
  <1>8. \A t \in Scraped : Listed(t) /\ BytesOf(t)' = BytesOf(t) /\ tor_offset(t)' = tor_offset(t)
    BY <1>1, <1>2, SamePrinted, SameOffset DEF ListedOK
  <1>9. CASE fullscrape_increase(TRUE)
    <2>1. \/ /\ iovector' = <<>> /\ at' = "made"
             /\ re' = re /\ input' = input /\ held' = held
          \/ /\ StoreOK(iovector', held', input', printed)
             /\ at' = at
             /\ re' \in 1..(OT_SCRAPE_CHUNK_SIZE - OT_SCRAPE_MAXENTRYLEN)
             /\ Len(input') <= Len(input)
             /\ ~mode.gzip => held' = <<>> /\ input' = <<>>
             /\ input' # <<>> => Used(iovector') = OT_SCRAPE_CHUNK_SIZE
             /\ held' # <<>> => Used(iovector') = OT_SCRAPE_CHUNK_SIZE
      <3>1. TRUE \in BOOLEAN
        OBVIOUS
      <3> QED
        BY <1>4, <1>5, <1>6, <1>9, <3>1, IncreaseStep
    <2>2. CASE /\ iovector' = <<>> /\ at' = "made"
               /\ re' = re /\ input' = input /\ held' = held
      <3>1. ~Working' /\ ~Whole'
        BY <2>2 DEF Working, Whole
      <3>2. ScrapeTypeOK'
        BY <1>5, <2>2 DEF ScrapeTypeOK
      <3>3. ListedOK'
        BY <1>8, <2>2, <3>1 DEF ListedOK, Listed
      <3> QED
        BY <2>2, <3>1, <3>2, <3>3 DEF ScrapeIInv, PlaceOK, StoredOK, RoomOK, MadeOK, FramedOK
    <2>3. CASE /\ StoreOK(iovector', held', input', printed)
               /\ at' = at
               /\ re' \in 1..(OT_SCRAPE_CHUNK_SIZE - OT_SCRAPE_MAXENTRYLEN)
               /\ Len(input') <= Len(input)
               /\ ~mode.gzip => held' = <<>> /\ input' = <<>>
               /\ input' # <<>> => Used(iovector') = OT_SCRAPE_CHUNK_SIZE
               /\ held' # <<>> => Used(iovector') = OT_SCRAPE_CHUNK_SIZE
      <3>1. Working' /\ ~Whole'
        BY <1>1, <2>3 DEF Working, Whole
      <3>2. ScrapeTypeOK'
        <4>1. Len(input') \in Nat
          BY <2>3, StoreTyped
        <4>2. Len(input') <= OT_SCRAPE_MAXENTRYLEN
          BY <1>4, <1>5, <1>7, <2>3, <4>1
        <4> QED
          BY <1>1, <1>5, <2>3, <4>2 DEF ScrapeTypeOK
      <3>3. PlaceOK' /\ StoredOK' /\ MadeOK'
        BY <1>1, <1>2, <2>3, <3>1 DEF PlaceOK, StoredOK, MadeOK
      <3>4. RoomOK'
        <4>1. re' \in 1..(OT_SCRAPE_CHUNK_SIZE - (IF mode'.gzip THEN 0 ELSE OT_SCRAPE_MAXENTRYLEN))
          BY <1>7, <2>3
        <4> QED
          BY <1>1, <2>3, <4>1 DEF RoomOK
      <3>5. FramedOK'
        BY <1>1, <1>2, <1>3, <2>3 DEF FramedOK
      <3>6. ListedOK'
        BY <1>1, <1>8, <2>3 DEF ListedOK, Listed, Whole
      <3> QED
        BY <3>2, <3>3, <3>4, <3>5, <3>6 DEF ScrapeIInv
    <2> QED
      BY <2>1, <2>2, <2>3
  <1>10. CASE /\ mode.gzip => Used(iovector) < re
              /\ iovector' = iovec_fixlast(iovector)
              /\ at' = "made"
              /\ UNCHANGED <<re, input, held>>
    <2>1. held = <<>> /\ input = <<>>
      <3>1. re \in Nat /\ re <= OT_SCRAPE_CHUNK_SIZE
        BY <1>6, <1>7
      <3>2. mode.gzip => Used(iovector) # OT_SCRAPE_CHUNK_SIZE
        BY <1>4, <1>7, <1>10, <3>1
      <3> QED
        BY <1>6, <3>2
    <2>2. /\ ChunksOK(iovector', printed)
          /\ End(iovector') = End(iovector)
          /\ Counted(iovector', Len(iovector'), End(iovector'))
      <3>1. ChunksOK(iovector, printed) /\ printed \in Seq(Nat)
        BY <1>4 DEF StoreOK
      <3> QED
        BY <1>10, <3>1, ChunksFixed
    <2>3. End(iovector) = Len(printed)
      <3>1. Len(printed) = End(iovector) + Len(held) + Len(input)
        BY <1>4 DEF StoreOK
      <3> QED
        BY <1>4, <2>1, <3>1, EmptySequence
    <2>4. ~Working'
      BY <1>10 DEF Working
    <2>5. ScrapeTypeOK'
      BY <1>5, <1>10 DEF ScrapeTypeOK
    <2>6. PlaceOK'
      BY <1>1, <1>2, <1>10 DEF PlaceOK
    <2>7. StoredOK' /\ RoomOK'
      BY <1>10, <2>4 DEF StoredOK, RoomOK
    <2>8. MadeOK'
      BY <1>1, <1>10, <2>1, <2>2, <2>3 DEF MadeOK
    <2>9. FramedOK'
      BY <1>1, <1>2, <1>3, <1>10 DEF FramedOK
    <2>10. ListedOK'
      BY <1>1, <1>8, <1>10 DEF ListedOK, Listed
    <2> QED
      BY <2>5, <2>6, <2>7, <2>8, <2>9, <2>10 DEF ScrapeIInv
  <1> QED
    BY <1>9, <1>10 DEF Finish

LEMMA DeliverStep == ScrapeIInv /\ Deliver => ScrapeIInv'
  <1> SUFFICES ASSUME ScrapeIInv, Deliver PROVE ScrapeIInv'
    OBVIOUS
  <1>1. /\ at' = "idle" /\ iovector' = <<>> /\ input' = <<>> /\ printed' = <<>> /\ throughout' = {}
        /\ bucket' = 1 /\ done' = 0 /\ torrents' = torrents /\ mode' = mode
    BY DEF Deliver
  <1>2. ScrapeTypeOK
    BY DEF ScrapeIInv
  <1>3. ~Working' /\ ~Whole'
    BY <1>1 DEF Working, Whole
  <1>4. ScrapeTypeOK'
    <2>1. Len(input') <= OT_SCRAPE_MAXENTRYLEN
      BY <1>1, EmptySequence, SizesTyped
    <2> QED
      BY <1>1, <1>2, <2>1, EmptySequence DEF ScrapeTypeOK
  <1>5. \A t \in Scraped : BytesOf(t)' = 0
    <2>1. DOMAIN <<>> = {}
      OBVIOUS
    <2>2. \A t : {i \in DOMAIN printed' : printed'[i] = t} = {}
      BY <1>1, <2>1
    <2> QED
      BY <2>2, FS_EmptySet DEF BytesOf
  <1> QED
    BY <1>1, <1>3, <1>4, <1>5
    DEF ScrapeIInv, PlaceOK, StoredOK, RoomOK, MadeOK, FramedOK, ListedOK, Listed

LEMMA OtherThreadStep == ScrapeIInv /\ (\E u \in Scraped : OtherThread(u)) => ScrapeIInv'
  <1> SUFFICES ASSUME ScrapeIInv, NEW u \in Scraped, OtherThread(u) PROVE ScrapeIInv'
    OBVIOUS
  <1>1. /\ mode' = mode /\ at' = at /\ bucket' = bucket /\ done' = done
        /\ iovector' = iovector /\ re' = re /\ input' = input /\ held' = held
        /\ printed' = printed
        /\ at \in {"bucket", "room"} => EntryBucket[u] # bucket
    BY DEF OtherThread, Locked
  <1>2. /\ torrents' \subseteq torrents \cup {u} /\ torrents \subseteq torrents' \cup {u}
        /\ throughout' \subseteq throughout
    BY DEF OtherThread
  <1>3. ScrapeTypeOK /\ PlaceOK /\ StoredOK /\ RoomOK /\ MadeOK /\ FramedOK /\ ListedOK
    BY DEF ScrapeIInv
  <1>4. ScrapeTypeOK'
    <2>1. torrents' \subseteq Scraped /\ throughout' \subseteq torrents'
      BY <1>3 DEF ScrapeTypeOK, OtherThread
    <2> QED
      BY <1>1, <1>3, <2>1 DEF ScrapeTypeOK
  <1>5. (Working' <=> Working) /\ (Whole' <=> Whole)
    BY <1>1 DEF Working, Whole
  <1>6. PlaceOK' /\ StoredOK' /\ RoomOK' /\ MadeOK' /\ FramedOK'
    BY <1>1, <1>3, <1>5 DEF PlaceOK, StoredOK, RoomOK, MadeOK, FramedOK
  <1>7. ASSUME NEW t \in Scraped
        PROVE  Listed(t)'
    <2>1. BytesOf(t)' = BytesOf(t)
      BY <1>1, SamePrinted
    <2>2. Listed(t)
      BY <1>3 DEF ListedOK
    <2>3. ASSUME at \in {"bucket", "room"}, EntryBucket[t] = bucket
          PROVE  (t \in torrents' <=> t \in torrents) /\ tor_offset(t)' = tor_offset(t)
      <3>1. EntryBucket[u] # EntryBucket[t]
        BY <1>1, <2>3
      <3>2. \A v : EntryBucket[v] = EntryBucket[t] => (v \in torrents' <=> v \in torrents)
        BY <1>2, <3>1
      <3>3. InBucket(EntryBucket[t])' = InBucket(EntryBucket[t])
        BY <3>2 DEF InBucket
      <3> QED
        BY <3>2, <3>3 DEF tor_offset
    <2> QED
      BY <1>1, <1>2, <1>5, <2>1, <2>2, <2>3 DEF Listed
  <1> QED
    BY <1>4, <1>6, <1>7 DEF ScrapeIInv, ListedOK

LEMMA ScrapeStutters == ScrapeIInv /\ UNCHANGED scrapeVars => ScrapeIInv'
  <1> SUFFICES ASSUME ScrapeIInv, UNCHANGED scrapeVars PROVE ScrapeIInv'
    OBVIOUS
  <1>1. /\ torrents' = torrents /\ mode' = mode /\ at' = at /\ bucket' = bucket /\ done' = done
        /\ iovector' = iovector /\ re' = re /\ input' = input /\ held' = held
        /\ printed' = printed /\ throughout' = throughout
    BY DEF scrapeVars
  <1>2. ScrapeTypeOK /\ PlaceOK /\ StoredOK /\ RoomOK /\ MadeOK /\ FramedOK /\ ListedOK
    BY DEF ScrapeIInv
  <1>3. (Working' <=> Working) /\ (Whole' <=> Whole)
    BY <1>1 DEF Working, Whole
  <1>4. ScrapeTypeOK' /\ PlaceOK' /\ StoredOK' /\ RoomOK' /\ MadeOK' /\ FramedOK'
    BY <1>1, <1>2, <1>3 DEF ScrapeTypeOK, PlaceOK, StoredOK, RoomOK, MadeOK, FramedOK
  <1>5. \A t \in Scraped : Listed(t) /\ BytesOf(t)' = BytesOf(t) /\ tor_offset(t)' = tor_offset(t)
    BY <1>1, <1>2, SamePrinted, SameOffset DEF ListedOK
  <1>6. ListedOK'
    BY <1>1, <1>3, <1>5 DEF ListedOK, Listed
  <1> QED
    BY <1>4, <1>6 DEF ScrapeIInv

\* The invariant of a full scrape holds whatever is announced meanwhile (fullscrape_make).
THEOREM ScrapeInvariance == ScrapeSpec => []ScrapeIInv
  <1>1. ScrapeInit => ScrapeIInv
    BY ScrapeInitially
  <1>2. ScrapeIInv /\ [ScrapeNext]_scrapeVars => ScrapeIInv'
    BY StartStep, LockStep, PrintEntryStep, MakeRoomStep, UnlockStep, CloseStep, FinishStep, DeliverStep,
       OtherThreadStep, ScrapeStutters, Zenon DEF ScrapeNext
  <1> QED
    BY <1>1, <1>2, PTL DEF ScrapeSpec

-----------------------------------------------------------------------------

\* What the invariant is for.
LEMMA ScrapeImplies == ScrapeIInv => ScrapeExact
  <1> SUFFICES ASSUME ScrapeIInv PROVE ScrapeExact
    OBVIOUS
  <1>1. ScrapeTypeOK /\ PlaceOK /\ StoredOK /\ RoomOK /\ MadeOK /\ FramedOK /\ ListedOK
    BY DEF ScrapeIInv
  <1>2. printed \in Seq(Nat) /\ Len(printed) \in Nat
    BY <1>1, LenProperties DEF ScrapeTypeOK
  <1>3. iovector # <<>> => ChunksOK(iovector, printed)
    <2>1. iovector # <<>> => Working \/ Whole
      BY <1>1 DEF ScrapeTypeOK, Working, Whole
    <2>2. Working => ChunksOK(iovector, printed)
      BY <1>1 DEF StoredOK, StoreOK
    <2>3. Whole => ChunksOK(iovector, printed)
      BY <1>1 DEF MadeOK
    <2> QED
      BY <2>1, <2>2, <2>3
  <1>4. iovector # <<>> => DOMAIN iovector = 1..Len(iovector)
    BY <1>3, LenProperties DEF ChunksOK
  <1>5. NothingLost
    <2> SUFFICES ASSUME iovector # <<>>
                 PROVE  /\ \A i \in DOMAIN iovector :
                             /\ iovector[i].from =
                                  IF i = 1 THEN 0 ELSE iovector[i - 1].from + Len(iovector[i - 1].data)
                             /\ StandsAt(iovector[i].data, iovector[i].from, printed)
                        /\ StandsAt(held, End(iovector), printed)
                        /\ StandsAt(input, End(iovector) + Len(held), printed)
                        /\ Len(printed) = End(iovector) + Len(held) + Len(input)
      BY DEF NothingLost, End
    <2>1. \A i \in DOMAIN iovector : ChunkOK(iovector, i, printed)
      BY <1>3, <1>4 DEF ChunksOK
    <2>2. CASE Working
      BY <1>1, <2>1, <2>2 DEF StoredOK, StoreOK, ChunkOK
    <2>3. CASE Whole
      <3>1. held = <<>> /\ input = <<>> /\ End(iovector) = Len(printed)
        BY <1>1, <2>3 DEF MadeOK
      <3>2. Len(<<>>) = 0 /\ Len(printed) + 0 = Len(printed) /\ Len(printed) <= Len(printed)
        BY <1>2, EmptySequence
      <3>3. StandsAt(<<>>, Len(printed), printed)
        BY <1>2, <3>2, StandsNothing
      <3> QED
        BY <2>1, <3>1, <3>2, <3>3 DEF ChunkOK
    <2> QED
      BY <1>1, <2>2, <2>3 DEF ScrapeTypeOK, Working, Whole
  <1>6. InsideMemory
    <2>1. ASSUME NEW i \in DOMAIN iovector
          PROVE  ChunkOK(iovector, i, printed)
      <3>1. iovector # <<>>
        OBVIOUS
      <3> QED
        BY <1>3, <1>4, <3>1 DEF ChunksOK
    <2> QED
      BY <1>1, <2>1 DEF InsideMemory, ScrapeTypeOK, ChunkOK
  <1>7. AnswerWhole
    <2>1. \A t \in Scraped : BytesOf(t) \in {0, EntryLen[t]}
      BY <1>1 DEF ListedOK, Listed
    <2>2. ASSUME Whole
          PROVE  /\ held = <<>> /\ input = <<>>
                 /\ iovec_length(iovector) = Len(printed)
                 /\ \A t \in throughout : BytesOf(t) = EntryLen[t]
                 /\ mode.framed => printed[1] = 0 /\ printed[Len(printed)] = 0
      <3>1. held = <<>> /\ input = <<>>
        BY <1>1, <2>2 DEF MadeOK
      <3>2. iovec_length(iovector) = Len(printed)
        <4>1. Bytes(iovector) = BytesTo(iovector, Len(iovector))
          BY <1>4, <2>2 DEF Bytes, BytesTo, Whole
        <4>2. Cardinality(BytesTo(iovector, Len(iovector))) = Len(printed)
          BY <1>1, <2>2 DEF MadeOK, Counted
        <4> QED
          BY <4>1, <4>2 DEF iovec_length
      <3>3. ASSUME NEW t \in throughout
            PROVE  BytesOf(t) = EntryLen[t]
        <4>1. t \in Scraped
          BY <1>1 DEF ScrapeTypeOK
        <4>2. bucket = BucketCount + 1
          BY <1>1, <2>2 DEF PlaceOK
        <4>3. EntryBucket[t] < bucket
          BY <4>1, <4>2, EntryFacts, SizesTyped
        <4> QED
          BY <1>1, <2>2, <4>1, <4>3 DEF ListedOK, Listed
      <3>4. mode.framed => printed[1] = 0 /\ printed[Len(printed)] = 0
        BY <1>1, <2>2 DEF FramedOK, Whole
      <3> QED
        BY <3>1, <3>2, <3>3, <3>4
    <2> QED
      BY <2>1, <2>2 DEF AnswerWhole, Whole
  <1> QED
    BY <1>5, <1>6, <1>7 DEF ScrapeExact

\* A full scrape is exact, whatever is announced while it is made (fullscrape_make).
THEOREM ScrapeCorrect == ScrapeSpec => []ScrapeExact
  BY ScrapeInvariance, ScrapeImplies, PTL

-----------------------------------------------------------------------------
(* The vectors of peers: loops *)

\* The loop of round after round, in T all the time.
LoopsIn(T, round, first, n) ==
    \E f \in [0..n -> T] :
      /\ f[0] = first
      /\ \A i \in 1..n : f[i] = round[f[i - 1]]
      /\ Iterated(round, first, n) = f[n]

\* A loop goes from round to round, and what holds of its state before a round holds after it.
LEMMA IteratedFacts ==
    ASSUME NEW T, NEW round, NEW first \in T, NEW n \in Nat,
           \A t \in T : round[t] \in T
    PROVE  LoopsIn(T, round, first, n)
<1> DEFINE Runs(f, k) == f[0] = first /\ \A i \in 1..k : f[i] = round[f[i - 1]]
           Good == {k \in Nat : \E f \in [0..k -> T] : Runs(f, k)}
           Body(g) == [i \in 0..n |-> IF i = 0 THEN first ELSE round[g[i - 1]]]
           after == CHOOSE g : g = Body(g)
<1>1. n \in Good
  <2>1. 0 \in Good
    <3>1. [i \in 0..0 |-> first] \in [0..0 -> T] /\ Runs([i \in 0..0 |-> first], 0)
      OBVIOUS
    <3> QED
      BY <3>1
  <2>2. ASSUME NEW k \in Nat, k \in Good PROVE k + 1 \in Good
    <3>1. PICK f \in [0..k -> T] : Runs(f, k)
      BY <2>2
    <3> DEFINE h == [i \in 0..(k + 1) |-> IF i = k + 1 THEN round[f[k]] ELSE f[i]]
    <3>2. h \in [0..(k + 1) -> T]
      OBVIOUS
    <3>3. Runs(h, k + 1)
      <4>1. h[0] = first
        BY <3>1
      <4>2. ASSUME NEW i \in 1..(k + 1) PROVE h[i] = round[h[i - 1]]
        <5>1. CASE i = k + 1
          BY <5>1
        <5>2. CASE i # k + 1
          <6>1. i \in 1..k /\ i - 1 \in 0..k /\ i - 1 # k + 1
            BY <5>2
          <6> QED
            BY <3>1, <6>1, <5>2
        <5> QED
          BY <5>1, <5>2
      <4> QED
        BY <4>1, <4>2
    <3> HIDE DEF h
    <3> QED
      BY <3>2, <3>3
  <2> HIDE DEF Good
  <2> QED
    BY <2>1, <2>2, NumbersInduction
<1>2. PICK f \in [0..n -> T] : Runs(f, n)
  BY <1>1
<1>3. f = Body(f)
  <2>1. \A i \in 0..n : f[i] = IF i = 0 THEN first ELSE round[f[i - 1]]
    BY <1>2
  <2>2. f = [i \in 0..n |-> f[i]]
    BY <1>2
  <2>3. [i \in 0..n |-> f[i]] = Body(f)
    BY <2>1
  <2> HIDE DEF Body
  <2> QED
    BY <2>2, <2>3
<1>4. after = Body(after)
  BY <1>3
<1>5. Runs(after, n) /\ after = [i \in 0..n |-> after[i]]
  <2> HIDE DEF after
  <2>1. \A i \in 0..n : after[i] = IF i = 0 THEN first ELSE round[after[i - 1]]
    BY <1>4
  <2>2. after = [i \in 0..n |-> after[i]]
    BY <1>4
  <2>3. Runs(after, n)
    BY <2>1
  <2> QED
    BY <2>2, <2>3
<1>6. \A k \in Nat : k \in {m \in Nat : m <= n => after[m] \in T}
  <2> HIDE DEF after
  <2> DEFINE In == {m \in Nat : m <= n => after[m] \in T}
  <2>1. 0 \in In
    BY <1>5
  <2>2. ASSUME NEW k \in Nat, k \in In PROVE k + 1 \in In
    BY <2>2, <1>5
  <2> HIDE DEF In
  <2>3. \A k \in Nat : k \in In
    BY <2>1, <2>2, NumbersInduction
  <2> QED
    BY <2>3 DEF In
<1>7. after \in [0..n -> T]
  <2> HIDE DEF after
  <2>1. \A i \in 0..n : after[i] \in T
    BY <1>6
  <2> QED
    BY <1>5, <2>1
<1>8. Iterated(round, first, n) = after[n]
  BY DEF Iterated
<1> HIDE DEF after
<1> QED
  BY <1>5, <1>7, <1>8 DEF LoopsIn

-----------------------------------------------------------------------------
(* The search of an array *)

\* An entry, and an array in the order of memcmp.
PeerEntry == [peer : Peers, seeding : BOOLEAN]
Ascending(data) == \A i, j \in DOMAIN data : i < j => data[i].peer < data[j].peer

\* What is left to look at is between what is before p and what is behind it.
Narrowed(p, data, left) ==
    /\ left.at >= 1 /\ left.at + left.interval <= Len(data) + 1
    /\ left.exactmatch => left.interval = 0 /\ left.at <= Len(data) /\ data[left.at].peer = p
    /\ ~left.exactmatch =>
         \A i \in 1..Len(data) :
            /\ i < left.at => data[i].peer < p
            /\ i >= left.at + left.interval => data[i].peer > p

\* What the search of an array is left with.
Lefts == [at : Nat, interval : Nat, exactmatch : BOOLEAN]

\* What is left on the two sides of the middle.
LEMMA Halves ==
    ASSUME NEW m \in Nat, m > 0
    PROVE  /\ m \div 2 \in Nat /\ (m - 1) \div 2 \in Nat
           /\ m \div 2 < m /\ (m - 1) \div 2 < m
           /\ m \div 2 + 1 + (m - 1) \div 2 = m
  OBVIOUS

\* A round keeps that, and leaves less.
LEMMA LookStep ==
    ASSUME NEW data \in Seq(PeerEntry), Ascending(data), NEW p \in Peers,
           NEW left \in Lefts, Narrowed(p, data, left)
    PROVE  /\ Look(p, data)[left] \in Lefts
           /\ Narrowed(p, data, Look(p, data)[left])
           /\ Look(p, data)[left].interval = 0 \/ Look(p, data)[left].interval < left.interval
<1> DEFINE lookat == left.at + left.interval \div 2
           next == Look(p, data)[left]
<1>1. left.at \in Nat /\ left.interval \in Nat /\ left.exactmatch \in BOOLEAN /\ Len(data) \in Nat
  BY DEF Lefts
<1>2. p \in Nat /\ \A i \in 1..Len(data) : data[i].peer \in Nat
  <2>1. \A i \in 1..Len(data) : data[i] \in PeerEntry
    OBVIOUS
  <2> QED
    BY <2>1, PeersAssumption DEF PeerEntry
<1>3. CASE left.interval = 0
  <2>1. next = left
    BY <1>3, <1>1 DEF Look, Lefts
  <2> QED
    BY <2>1, <1>3
<1>4. CASE left.interval > 0
  <2>1. /\ lookat \in 1..Len(data) /\ lookat \in Nat
        /\ lookat < left.at + left.interval /\ lookat >= left.at
    BY <1>1, <1>4 DEF Narrowed
  <2>2. ~left.exactmatch
    BY <1>1, <1>4 DEF Narrowed
  <2>3. data[lookat].peer \in Nat
    BY <1>2, <2>1
  <2>4. \A i, j \in 1..Len(data) : i < j => data[i].peer < data[j].peer
    BY DEF Ascending
  <2>5. CASE data[lookat].peer = p
    <3>1. next = [at |-> lookat, interval |-> 0, exactmatch |-> TRUE]
      BY <1>4, <1>1, <2>3, <2>5 DEF Look, Lefts
    <3> HIDE DEF lookat, next
    <3>2. next.at = lookat /\ next.interval = 0 /\ next.exactmatch = TRUE /\ next \in Lefts
      BY <2>1, <3>1 DEF Lefts
    <3>3. Narrowed(p, data, next)
      BY <1>1, <2>1, <2>5, <3>2 DEF Narrowed
    <3> QED
      BY <3>2, <3>3 DEF next
  <2>6. CASE data[lookat].peer < p
    <3>1. next = [left EXCEPT !.at = lookat + 1, !.interval = (@ - 1) \div 2]
      BY <1>2, <1>4, <1>1, <2>3, <2>6 DEF Look, Lefts
    <3>2. /\ next.at = lookat + 1 /\ next.interval = (left.interval - 1) \div 2
          /\ next.exactmatch = FALSE /\ next \in Lefts
      <4>1. lookat + 1 \in Nat /\ (left.interval - 1) \div 2 \in Nat
        BY <1>1, <1>4, <2>1
      <4> HIDE DEF lookat, next
      <4> QED
        BY <2>2, <3>1, <4>1 DEF Lefts
    <3>3. /\ next.interval \in Nat /\ next.interval < left.interval
          /\ next.at + next.interval = left.at + left.interval
      <4>1. next.at = left.at + left.interval \div 2 + 1 /\ next.interval = (left.interval - 1) \div 2
        BY <3>2
      <4> HIDE DEF lookat, next
      <4> QED
        <5> DEFINE m == left.interval
                   a == left.at
        <5>1. m \in Nat /\ m > 0 /\ a \in Nat
          BY <1>1, <1>4
        <5> HIDE DEF m, a
        <5>2. m \div 2 \in Nat /\ (m - 1) \div 2 \in Nat /\ (m - 1) \div 2 < m /\ m \div 2 + 1 + (m - 1) \div 2 = m
          BY <5>1, Halves
        <5>3. a + m \div 2 + 1 + (m - 1) \div 2 = a + m
          BY <5>1, <5>2
        <5> QED
          BY <5>1, <5>2, <5>3, <4>1 DEF m, a
    <3>4. ASSUME NEW i \in 1..Len(data), i < next.at PROVE data[i].peer < p
      <4>1. i = lookat \/ i < lookat
        BY <2>1, <3>2, <3>4
      <4>2. i < lookat => data[i].peer < data[lookat].peer
        BY <2>1, <2>4
      <4>3. data[i].peer \in Nat
        BY <1>2
      <4> HIDE DEF lookat, next
      <4> QED
        BY <4>1, <4>2, <4>3, <2>6, <2>3, <1>2
    <3>5. next.at >= 1 /\ next.at + next.interval <= Len(data) + 1
      BY <2>1, <3>2, <3>3 DEF Narrowed
    <3> HIDE DEF lookat, next
    <3> QED
      BY <2>2, <3>2, <3>3, <3>4, <3>5 DEF Narrowed, next
  <2>7. CASE data[lookat].peer > p
    <3>1. next = [left EXCEPT !.interval = @ \div 2]
      BY <1>2, <1>4, <1>1, <2>3, <2>7 DEF Look, Lefts
    <3>2. /\ next.at = left.at /\ next.interval = left.interval \div 2
          /\ next.exactmatch = FALSE /\ next \in Lefts
      BY <1>1, <1>4, <2>1, <2>2, <3>1 DEF Lefts
    <3>3. next.interval \in Nat /\ next.interval < left.interval /\ next.at + next.interval = lookat
      BY <1>1, <1>4, <3>2
    <3>4. ASSUME NEW i \in 1..Len(data), i >= lookat PROVE data[i].peer > p
      <4>1. i = lookat \/ lookat < i
        BY <2>1, <3>4
      <4>2. lookat < i => data[lookat].peer < data[i].peer
        BY <2>1, <2>4
      <4>3. data[i].peer \in Nat
        BY <1>2
      <4> HIDE DEF lookat, next
      <4> QED
        BY <4>1, <4>2, <4>3, <2>7, <2>3, <1>2
    <3>5. next.at >= 1 /\ next.at + next.interval <= Len(data) + 1
      BY <2>1, <3>2, <3>3 DEF Narrowed
    <3> HIDE DEF lookat, next
    <3> QED
      BY <2>2, <3>2, <3>3, <3>4, <3>5 DEF Narrowed, next
  <2> HIDE DEF lookat, next
  <2> QED
    BY <1>2, <2>3, <2>5, <2>6, <2>7
<1> QED
  BY <1>1, <1>3, <1>4

\* The search of a sorted array finds p, or the place before the first greater one.
LEMMA SearchFacts ==
    ASSUME NEW data \in Seq(PeerEntry), Ascending(data), NEW p \in Peers
    PROVE  LET match == binary_search(p, data) IN
           /\ match.at \in 1..(Len(data) + 1) /\ match.exactmatch \in BOOLEAN
           /\ match.exactmatch => match.at \in 1..Len(data) /\ data[match.at].peer = p
           /\ ~match.exactmatch =>
                \A i \in 1..Len(data) : IF i < match.at THEN data[i].peer < p ELSE data[i].peer > p
<1> DEFINE T == {left \in Lefts : Narrowed(p, data, left)}
           first == [at |-> 1, interval |-> Len(data), exactmatch |-> FALSE]
           n == Len(data)
           round == Look(p, data)
<1>1. n \in Nat
  OBVIOUS
<1>2. first \in T
  BY <1>1 DEF Lefts, Narrowed
<1>3. \A t \in T : round[t] \in T /\ (round[t].interval = 0 \/ round[t].interval < t.interval)
  BY LookStep
<1>4. T \subseteq Lefts
  OBVIOUS
<1>5. binary_search(p, data) = Iterated(round, first, n)
  BY DEF binary_search
<1>6. first.interval = n
  OBVIOUS
<1> HIDE DEF T, first, round
<1>7. PICK f \in [0..n -> T] :
        /\ f[0] = first
        /\ \A i \in 1..n : f[i] = round[f[i - 1]]
        /\ Iterated(round, first, n) = f[n]
  <2>1. n \in Nat /\ first \in T /\ \A t \in T : round[t] \in T
    BY <1>1, <1>2, <1>3
  <2> HIDE DEF n
  <2>2. LoopsIn(T, round, first, n)
    BY <2>1, IteratedFacts
  <2> QED
    BY <2>2 DEF LoopsIn
<1> HIDE DEF n
<1> DEFINE Less == {k \in Nat : k <= n => f[k].interval + k <= n \/ f[k].interval = 0}
<1>8. \A i \in 0..n : f[i] \in T /\ f[i].interval \in Nat
  BY <1>1, <1>4, <1>7 DEF Lefts
<1>9. n \in Less
  <2>1. 0 \in Less
    BY <1>1, <1>6, <1>7
  <2>2. ASSUME NEW k \in Nat, k \in Less PROVE k + 1 \in Less
    <3> SUFFICES ASSUME k + 1 <= n PROVE f[k + 1].interval + (k + 1) <= n \/ f[k + 1].interval = 0
      OBVIOUS
    <3>1. k \in 0..n /\ k + 1 \in 1..n /\ k + 1 \in 0..n /\ (k + 1) - 1 = k
      BY <1>1
    <3>2. f[k + 1] = round[f[k]]
      BY <3>1, <1>7
    <3>3. f[k] \in T /\ f[k].interval \in Nat /\ f[k + 1].interval \in Nat
      BY <3>1, <1>8
    <3>4. f[k + 1].interval = 0 \/ f[k + 1].interval < f[k].interval
      BY <3>2, <3>3, <1>3
    <3>5. f[k].interval + k <= n \/ f[k].interval = 0
      BY <2>2, <3>1
    <3> QED
      BY <1>1, <3>3, <3>4, <3>5
  <2> HIDE DEF Less
  <2> QED
    BY <1>1, <2>1, <2>2, NumbersInduction
<1>10. f[n] \in T /\ f[n].interval = 0
  <2>1. n \in 0..n
    BY <1>1
  <2> QED
    BY <1>1, <1>8, <1>9, <2>1
<1>11. f[n] \in Lefts /\ Narrowed(p, data, f[n])
  BY <1>10 DEF T
<1> DEFINE m == f[n]
<1>12. binary_search(p, data) = m
  BY <1>5, <1>7
<1> HIDE DEF m
<1>13. m.at \in Nat /\ m.exactmatch \in BOOLEAN /\ m.interval = 0 /\ Narrowed(p, data, m)
  BY <1>10, <1>11 DEF Lefts, m
<1>14. \A i \in 1..Len(data) : ~(i < m.at) => i >= m.at + 0
  BY <1>13
<1>15. Len(data) \in Nat
  OBVIOUS
<1> QED
  BY <1>12, <1>13, <1>14, <1>15 DEF Narrowed

-----------------------------------------------------------------------------
(* Arrays in order *)

\* The list of a set of numbers has each of them once, in order.
LEMMA InOrderFacts ==
    ASSUME NEW S \in SUBSET Nat, IsFiniteSet(S)
    PROVE  /\ Cardinality(S) \in Nat
           /\ InOrder(S) \in [1..Cardinality(S) -> S]
           /\ \A i, j \in 1..Cardinality(S) : i < j => InOrder(S)[i] < InOrder(S)[j]
           /\ \A s \in S : \E k \in 1..Cardinality(S) : InOrder(S)[k] = s
<1> DEFINE n == Cardinality(S)
           q == InOrder(S)
<1>1. n \in Nat
  BY RankFacts
<1>2. ASSUME NEW k \in 1..n PROVE q[k] \in S /\ Rank(S, q[k]) = k - 1
  <2>1. k - 1 \in 0..(n - 1)
    BY <1>1
  <2>2. \E t \in S : Rank(S, t) = k - 1
    BY <2>1, RankTaken
  <2>3. q[k] = CHOOSE t \in S : Rank(S, t) = k - 1
    BY DEF InOrder, Rank
  <2> HIDE DEF q
  <2> QED
    BY <2>2, <2>3
<1>3. q \in [1..n -> S]
  <2>1. q = [k \in 1..n |-> q[k]]
    <3> DEFINE c(k) == CHOOSE t \in S : Cardinality({m \in S : m < t}) = k - 1
    <3>1. q = [k \in 1..n |-> c(k)]
      BY DEF InOrder
    <3> HIDE DEF c, q, n
    <3> QED
      BY <3>1
  <2> HIDE DEF q, n
  <2> QED
    BY <1>2, <2>1
<1>4. ASSUME NEW i \in 1..n, NEW j \in 1..n, i < j PROVE q[i] < q[j]
  <2>1. q[i] \in S /\ q[j] \in S /\ Rank(S, q[i]) = i - 1 /\ Rank(S, q[j]) = j - 1
    BY <1>2
  <2> HIDE DEF q
  <2>2. q[i] # q[j] /\ ~(q[j] < q[i])
    <3>1. i - 1 < j - 1
      BY <1>1, <1>4
    <3>2. ~(j - 1 < i - 1) /\ i - 1 # j - 1
      BY <1>1, <1>4
    <3>3. Rank(S, q[i]) # Rank(S, q[j]) /\ ~(Rank(S, q[j]) < Rank(S, q[i]))
      BY <2>1, <3>2
    <3> QED
      BY <2>1, <3>3, RankFacts
  <2>3. q[i] \in Nat /\ q[j] \in Nat
    BY <2>1
  <2> QED
    BY <2>2, <2>3
<1>5. ASSUME NEW s \in S PROVE \E k \in 1..n : q[k] = s
  <2>1. Rank(S, s) \in Nat /\ Rank(S, s) < n
    BY RankFacts
  <2> DEFINE k == Rank(S, s) + 1
  <2>2. k \in 1..n /\ k - 1 = Rank(S, s)
    BY <1>1, <2>1
  <2> HIDE DEF k, q, n
  <2>3. q[k] \in S /\ Rank(S, q[k]) = Rank(S, s)
    BY <1>2, <2>2
  <2>4. q[k] = s
    BY <2>3, RankFacts
  <2> QED
    BY <2>2, <2>4
<1> QED
  BY <1>1, <1>3, <1>4, <1>5

\* An array in the order of memcmp.
LEMMA SortedFacts ==
    ASSUME NEW S \in SUBSET PeerEntry, IsFiniteSet(S), \A e, f \in S : e.peer = f.peer => e = f
    PROVE  /\ Sorted(S) \in Seq(PeerEntry) /\ Len(Sorted(S)) = Cardinality(S)
           /\ Ascending(Sorted(S)) /\ ToSet(Sorted(S)) = S
<1> DEFINE P == {f.peer : f \in S}
           n == Cardinality(S)
           g == [e \in S |-> e.peer]
           q == InOrder(P)
           s == Sorted(S)
<1>1. P \in SUBSET Nat
  <2>1. \A f \in S : f.peer \in Nat
    BY PeersAssumption DEF PeerEntry
  <2> QED
    BY <2>1
<1>2. IsFiniteSet(P) /\ Cardinality(P) = n
  <2>1. g \in [S -> P] /\ (\A e, f \in S : g[e] = g[f] => e = f) /\ \A x \in P : \E e \in S : g[e] = x
    OBVIOUS
  <2> HIDE DEF g, P
  <2>2. g \in Bijection(S, P)
    BY <2>1 DEF Bijection, Injection, Surjection, IsInjective
  <2>3. ExistsBijection(S, P)
    BY <2>2 DEF ExistsBijection
  <2> QED
    BY <2>3, FS_Bijection
<1>3. /\ n \in Nat /\ q \in [1..n -> P]
      /\ \A i, j \in 1..n : i < j => q[i] < q[j]
      /\ \A x \in P : \E k \in 1..n : q[k] = x
  <2> HIDE DEF P
  <2> QED
    BY <1>1, <1>2, InOrderFacts
<1>4. ASSUME NEW k \in 1..n PROVE s[k] \in S /\ s[k].peer = q[k]
  <2>1. \E e \in S : e.peer = q[k]
    <3>1. q[k] \in P
      <4> HIDE DEF P, q, n
      <4> QED
        BY <1>3
    <3> HIDE DEF q
    <3> QED
      BY <3>1
  <2>2. s[k] = CHOOSE e \in S : e.peer = q[k]
    BY DEF Sorted
  <2> HIDE DEF s, q
  <2> QED
    BY <2>1, <2>2
<1>5. s = [k \in 1..n |-> s[k]]
  <2> DEFINE c(k) == CHOOSE e \in S : e.peer = q[k]
  <2>1. s = [k \in 1..n |-> c(k)]
    BY DEF Sorted
  <2> HIDE DEF c, s, q, n
  <2> QED
    BY <2>1
<1> HIDE DEF s, q, n
<1>6. s \in [1..n -> S]
  BY <1>4, <1>5
<1>7. s \in Seq(PeerEntry) /\ Len(s) = n /\ DOMAIN s = 1..n
  <2>1. s \in [1..n -> PeerEntry]
    BY <1>6
  <2> QED
    BY <1>3, <2>1
<1>8. Ascending(s)
  BY <1>3, <1>4, <1>7 DEF Ascending
<1>9. ToSet(s) = S
  <2>1. ASSUME NEW e \in S PROVE \E k \in DOMAIN s : s[k] = e
    <3>1. PICK k \in 1..n : q[k] = e.peer
      BY <1>3
    <3>2. s[k] \in S /\ s[k].peer = e.peer
      BY <1>4, <3>1
    <3> QED
      BY <3>2, <1>7
  <2> QED
    BY <2>1, <1>4, <1>7 DEF ToSet
<1> QED
  BY <1>7, <1>8, <1>9 DEF s, n

\* What is left of an array when some go, in their order.
Left(data, stay) == [k \in 1..Cardinality(stay) |-> data[InOrder(stay)[k]]]

\* It is sorted, too, and has those that stay and no others.
LEMMA LeftFacts ==
    ASSUME NEW data \in Seq(PeerEntry), Ascending(data), NEW stay \in SUBSET DOMAIN data
    PROVE  /\ Left(data, stay) \in Seq(PeerEntry) /\ Len(Left(data, stay)) = Cardinality(stay)
           /\ Cardinality(stay) \in 0..Len(data)
           /\ Ascending(Left(data, stay)) /\ ToSet(Left(data, stay)) = {data[i] : i \in stay}
<1> DEFINE n == Cardinality(stay)
           q == InOrder(stay)
           s == Left(data, stay)
<1>1. stay \in SUBSET Nat /\ IsFiniteSet(stay) /\ n <= Len(data) /\ Len(data) \in Nat
  <2>0. Len(data) \in Nat /\ 1 \in Int /\ Len(data) \in Int
    OBVIOUS
  <2>1. IsFiniteSet(1..Len(data)) /\ Cardinality(1..Len(data)) = Len(data) /\ Len(data) \in Nat
    <3> DEFINE m == Len(data)
    <3> HIDE DEF m
    <3>1. m \in Nat
      BY <2>0 DEF m
    <3>2. IsFiniteSet(1..m) /\ Cardinality(1..m) = m
      BY <3>1, FS_Interval
    <3> QED
      BY <3>1, <3>2 DEF m
  <2>2. stay \in SUBSET (1..Len(data))
    OBVIOUS
  <2> QED
    BY <2>1, <2>2, FS_Subset
<1>2. /\ n \in Nat /\ q \in [1..n -> stay]
      /\ \A i, j \in 1..n : i < j => q[i] < q[j]
      /\ \A x \in stay : \E k \in 1..n : q[k] = x
  BY <1>1, InOrderFacts
<1>3. s = [k \in 1..n |-> data[q[k]]]
  BY DEF Left
<1> HIDE DEF s, q, n
<1>4. \A k \in 1..n : q[k] \in stay /\ q[k] \in DOMAIN data /\ s[k] = data[q[k]] /\ s[k] \in PeerEntry
  <2>1. \A i \in DOMAIN data : data[i] \in PeerEntry
    OBVIOUS
  <2> QED
    BY <1>2, <1>3, <2>1
<1>5. s \in Seq(PeerEntry) /\ Len(s) = n /\ DOMAIN s = 1..n
  <2>1. s \in [1..n -> PeerEntry]
    BY <1>3, <1>4
  <2> QED
    BY <1>2, <2>1
<1>6. Ascending(s)
  BY <1>2, <1>4, <1>5 DEF Ascending
<1>7. ToSet(s) = {data[i] : i \in stay}
  <2>1. \A k \in DOMAIN s : \E i \in stay : s[k] = data[i]
    BY <1>4, <1>5
  <2>2. \A i \in stay : \E k \in DOMAIN s : s[k] = data[i]
    <3> SUFFICES ASSUME NEW i \in stay PROVE \E k \in DOMAIN s : s[k] = data[i]
      OBVIOUS
    <3>1. PICK k \in 1..n : q[k] = i
      BY <1>2
    <3> QED
      BY <1>4, <1>5, <3>1
  <2> QED
    BY <2>1, <2>2 DEF ToSet
<1> QED
  BY <1>1, <1>2, <1>5, <1>6, <1>7 DEF s, n

-----------------------------------------------------------------------------
(* The space of an array *)

\* Shrinking leaves room for what there is, and for one more if it does anything.
LEMMA ShrinkStep ==
    ASSUME NEW used \in Nat \ {0}, NEW s \in Nat, used <= s
    PROVE  /\ Shrink(used)[s] \in Nat /\ used <= Shrink(used)[s] /\ Shrink(used)[s] <= s
           /\ Shrink(used)[s] < s => used < Shrink(used)[s]
<1> DEFINE R == OT_VECTOR_SHRINK_RATIO
           TH == OT_VECTOR_SHRINK_THRESH
           q == s \div R
<1>1. R \in Nat /\ R >= 2 /\ TH \in Nat /\ 2 * R <= TH
  BY RatiosAssumption
<1>2. Shrink(used)[s] = IF TooLarge(used, s) THEN q ELSE s
  BY DEF Shrink
<1>3. CASE ~TooLarge(used, s)
  BY <1>2, <1>3
<1>4. CASE TooLarge(used, s)
  <2>1. used * TH < s
    BY <1>4 DEF TooLarge
  <2> HIDE DEF R, TH
  <2>2. q \in Nat /\ R * q <= s /\ s < R * q + R
    BY <1>1, Quotient
  <2>3. used * (2 * R) <= used * TH
    BY <1>1, ProductMonotone
  <2>4. used * (2 * R) = R * used + R * used /\ R <= R * used
    BY <1>1, ProductLeast
  <2>5. ~(q <= used)
    <3>1. SUFFICES ASSUME q <= used PROVE FALSE
      OBVIOUS
    <3>2. R * q <= R * used
      BY <1>1, <2>2, <3>1, ProductMonotone
    <3> DEFINE a == R * q
               b == R * used
               c == used * TH
               d == used * (2 * R)
    <3>3. a \in Nat /\ b \in Nat /\ c \in Nat /\ d \in Nat
      BY <1>1, <2>2
    <3>4. a <= s /\ s < a + R /\ c < s /\ d <= c /\ d = b + b /\ R <= b /\ a <= b
      BY <2>1, <2>2, <2>3, <2>4, <3>2
    <3> HIDE DEF a, b, c, d
    <3> QED
      BY <1>1, <3>3, <3>4
  <2>6. q <= R * q
    BY <1>1, <2>2, ProductLeast
  <2>7. q <= s
    <3> DEFINE a == R * q
    <3>1. a \in Nat /\ a <= s /\ q <= a
      BY <1>1, <2>2, <2>6
    <3> HIDE DEF a, q
    <3> QED
      BY <2>2, <3>1
  <2> HIDE DEF q
  <2> QED
    BY <1>2, <1>4, <2>2, <2>5, <2>7
<1> QED
  BY <1>3, <1>4

\* vector_fixup_peers never leaves less space than there are entries.
LEMMA FixupFacts ==
    ASSUME NEW v, v.data \in Seq(PeerEntry), v.space \in Nat, Len(v.data) <= v.space,
           v = [data |-> v.data, space |-> v.space]
    PROVE  LET w == vector_fixup_peers(v) IN
           /\ w = [data |-> v.data, space |-> w.space] /\ w.data = v.data
           /\ w.space \in Nat /\ Len(v.data) <= w.space /\ w.space <= v.space
           /\ w.space < v.space => Len(v.data) = 0 \/ Len(v.data) < w.space
<1> DEFINE used == Len(v.data)
           T == {s \in Nat : used <= s /\ s <= v.space /\ (s < v.space => used < s)}
           n == v.space
           w == vector_fixup_peers(v)
<1>1. used \in Nat
  OBVIOUS
<1>2. CASE v.data = <<>>
  BY <1>2 DEF vector_fixup_peers, NoVector
<1>3. CASE v.data # <<>>
  <2>1. used \in Nat \ {0}
    BY <1>3
  <2>2. n \in T
    BY <1>1
  <2>3. ASSUME NEW s \in T PROVE Shrink(used)[s] \in T
    <3>1. s \in Nat /\ used <= s /\ s <= v.space
      OBVIOUS
    <3> HIDE DEF used
    <3> QED
      BY <2>1, <3>1, ShrinkStep
  <2>4. LoopsIn(T, Shrink(used), n, n)
    <3> HIDE DEF T, used
    <3> QED
      BY <2>2, <2>3, IteratedFacts
  <2> DEFINE x == Iterated(Shrink(used), n, n)
  <2>5. x \in T
    <3> HIDE DEF T
    <3> QED
      BY <2>4 DEF LoopsIn
  <2>6. w = [data |-> v.data, space |-> x]
    <3> HIDE DEF x
    <3>1. w = [v EXCEPT !.space = x]
      BY <1>3 DEF vector_fixup_peers, x
    <3> HIDE DEF w
    <3> QED
      BY <3>1
  <2> HIDE DEF x, w
  <2> QED
    BY <2>5, <2>6 DEF w
<1> QED
  BY <1>2, <1>3

\* The loops that grow an array in advance end with enough space.
LEMMA RoomFacts ==
    ASSUME NEW used \in Nat, NEW space \in Nat \ {0}
    PROVE  Room(used, space) \in Nat \ {0} /\ used <= Room(used, space)
<1> DEFINE T == Nat \ {0}
           round == [s \in Nat |-> IF s < used THEN OT_VECTOR_GROW_RATIO * s ELSE s]
<1>1. ASSUME NEW s \in T PROVE round[s] \in T /\ (s < used => round[s] > s) /\ (s >= used => round[s] = s)
  <2> DEFINE G == OT_VECTOR_GROW_RATIO
  <2>1. G \in Nat /\ G >= 2
    BY RatiosAssumption
  <2>2. round[s] = IF s < used THEN G * s ELSE s
    OBVIOUS
  <2> HIDE DEF G
  <2>3. 2 * s <= G * s /\ G * s \in Nat
    BY <2>1, ProductMonotone
  <2> HIDE DEF round
  <2> QED
    BY <2>2, <2>3
<1>2. Room(used, space) = Iterated(round, space, used)
  BY DEF Room
<1> HIDE DEF round
<1>3. LoopsIn(T, round, space, used)
  <2> HIDE DEF T
  <2> QED
    BY <1>1, IteratedFacts DEF T
<1>4. PICK f \in [0..used -> T] :
        /\ f[0] = space
        /\ \A i \in 1..used : f[i] = round[f[i - 1]]
        /\ Iterated(round, space, used) = f[used]
  BY <1>3 DEF LoopsIn
<1> DEFINE Risen == {k \in Nat : k <= used => f[k] >= k \/ f[k] >= used}
<1>5. \A k \in Nat : k \in Risen
  <2>1. 0 \in Risen
    BY <1>4
  <2>2. ASSUME NEW k \in Nat, k \in Risen PROVE k + 1 \in Risen
    <3> SUFFICES ASSUME k + 1 <= used PROVE f[k + 1] >= k + 1 \/ f[k + 1] >= used
      OBVIOUS
    <3>1. k \in 0..used /\ k + 1 \in 1..used /\ (k + 1) - 1 = k
      OBVIOUS
    <3>2. f[k] \in T /\ f[k + 1] = round[f[k]]
      BY <1>4, <3>1
    <3>3. f[k] >= k \/ f[k] >= used
      BY <2>2, <3>1
    <3>4. f[k + 1] \in Nat /\ (f[k] < used => f[k + 1] > f[k]) /\ (f[k] >= used => f[k + 1] = f[k])
      BY <1>1, <3>2
    <3> QED
      BY <3>2, <3>3, <3>4
  <2> HIDE DEF Risen
  <2> QED
    BY <2>1, <2>2, NumbersInduction
<1>6. f[used] \in T /\ f[used] >= used
  BY <1>4, <1>5
<1> QED
  BY <1>2, <1>4, <1>6

-----------------------------------------------------------------------------
(* The vectors of peers: the invariant *)

\* A sorted array with room for what it holds.
Vector == {w \in [data : Seq(PeerEntry), space : Nat] : Len(w.data) <= w.space /\ Ascending(w.data)}

\* One vector, or several of which each has the peers of its hash.
Shaped(v) ==
    \/ v \in Vector
    \/ /\ v \in [data : Seq(Vector), space : {0}]
       /\ Len(v.data) \in {FewBuckets, ManyBuckets}

\* Every peer is in the bucket of its hash.
Placed(buckets) ==
    \A b \in DOMAIN buckets : \A i \in DOMAIN buckets[b].data :
        Bucket(buckets[b].data[i].peer, Len(buckets)) = b

PeersOK(v) == Shaped(v) /\ Placed(Buckets(v))

\* And a counter of all places.
ListOK(l) ==
    /\ l = [peer_count |-> l.peer_count, peers |-> l.peers]
    /\ PeersOK(l.peers)
    /\ l.peer_count = Cardinality(Places(l.peers))

VectorIInv == ListOK(list)

\* Sorted arrays are records of an array and its space.
LEMMA VectorFacts ==
    ASSUME NEW w \in Vector
    PROVE  /\ w = [data |-> w.data, space |-> w.space]
           /\ w.data \in Seq(PeerEntry) /\ w.space \in Nat /\ Len(w.data) \in Nat
           /\ Len(w.data) <= w.space /\ Ascending(w.data)
           /\ DOMAIN w.data = 1..Len(w.data)
           /\ \A i \in 1..Len(w.data) : w.data[i] \in PeerEntry
<1>1. w \in [data : Seq(PeerEntry), space : Nat] /\ Len(w.data) <= w.space /\ Ascending(w.data)
  BY DEF Vector
<1>2. w.data \in Seq(PeerEntry) /\ w.space \in Nat /\ w = [data |-> w.data, space |-> w.space]
  BY <1>1
<1>3. Len(w.data) \in Nat /\ DOMAIN w.data = 1..Len(w.data) /\ \A i \in 1..Len(w.data) : w.data[i] \in PeerEntry
  BY <1>2
<1> QED
  BY <1>1, <1>2, <1>3

\* What an entry is.
LEMMA PeerEntryFacts ==
    ASSUME NEW e \in PeerEntry
    PROVE  /\ e.peer \in Peers /\ e.peer \in Nat /\ e.seeding \in BOOLEAN
           /\ e = [peer |-> e.peer, seeding |-> e.seeding]
BY PeersAssumption DEF PeerEntry

\* The numbers of buckets.
LEMMA CountFacts == FewBuckets \in Nat /\ ManyBuckets \in Nat /\ 1 < FewBuckets /\ FewBuckets < ManyBuckets
BY BucketsAssumption

\* A remainder is less than the divisor.
LEMMA Remainder ==
    ASSUME NEW x \in Nat, NEW n \in Nat \ {0}
    PROVE  x % n \in Nat /\ x % n < n
OBVIOUS

\* Every peer has a bucket.
LEMMA BucketFacts ==
    ASSUME NEW p \in Peers, NEW n \in Nat \ {0}
    PROVE  Bucket(p, n) \in 1..n
<1>1. Hash[p] \in Nat
  BY PeersAssumption
<1> DEFINE rest == Hash[p] % n
<1>2. rest \in Nat /\ rest < n
  BY <1>1, Remainder
<1>3. Bucket(p, n) = rest + 1
  BY DEF Bucket
<1> HIDE DEF rest
<1> QED
  BY <1>2, <1>3

\* One vector and several alike.
LEMMA BucketsFacts ==
    ASSUME NEW v, Shaped(v)
    PROVE  /\ Buckets(v) \in Seq(Vector)
           /\ Len(Buckets(v)) \in {1, FewBuckets, ManyBuckets}
           /\ Len(Buckets(v)) \in Nat \ {0}
           /\ DOMAIN Buckets(v) = 1..Len(Buckets(v))
           /\ HasBuckets(v) <=> Len(Buckets(v)) > 1
           /\ HasBuckets(v) => Buckets(v) = v.data /\ v = [data |-> v.data, space |-> 0]
           /\ ~HasBuckets(v) => Buckets(v) = <<v>> /\ v \in Vector
<1>1. CASE v \in Vector
  <2>1. ~HasBuckets(v)
    BY <1>1, VectorFacts DEF HasBuckets
  <2>2. Buckets(v) = <<v>>
    BY <2>1 DEF Buckets
  <2>3. <<v>> \in Seq(Vector) /\ Len(<<v>>) = 1 /\ DOMAIN <<v>> = 1..1
    BY <1>1
  <2> QED
    BY <1>1, <2>1, <2>2, <2>3
<1>2. CASE v \in [data : Seq(Vector), space : {0}] /\ Len(v.data) \in {FewBuckets, ManyBuckets}
  <2>1. v.data \in Seq(Vector) /\ v.space = 0 /\ v = [data |-> v.data, space |-> 0]
    BY <1>2
  <2>2. Len(v.data) \in Nat \ {0} /\ Len(v.data) > 1
    BY <1>2, CountFacts
  <2>3. HasBuckets(v)
    BY <2>1, <2>2 DEF HasBuckets
  <2>4. Buckets(v) = v.data
    BY <2>3 DEF Buckets
  <2>5. DOMAIN v.data = 1..Len(v.data)
    BY <2>1
  <2> QED
    BY <1>2, <2>1, <2>2, <2>3, <2>4, <2>5
<1> QED
  BY <1>1, <1>2 DEF Shaped

\* Each of the arrays is sorted and has room.
LEMMA BucketTyped ==
    ASSUME NEW v, Shaped(v), NEW b \in 1..Len(Buckets(v))
    PROVE  Buckets(v)[b] \in Vector
<1>1. Buckets(v) \in Seq(Vector)
  BY BucketsFacts
<1> DEFINE s == Buckets(v)
<1> HIDE DEF s
<1>2. \A i \in 1..Len(s) : s[i] \in Vector
  BY <1>1 DEF s
<1> QED
  BY <1>2 DEF s

\* The array of a peer is that of its bucket.
LEMMA HomeFacts ==
    ASSUME NEW v, Shaped(v), NEW p \in Peers
    PROVE  LET b == Bucket(p, Len(Buckets(v))) IN
           b \in 1..Len(Buckets(v)) /\ Home(v, p) = Buckets(v)[b] /\ Home(v, p) \in Vector
<1> DEFINE n == Len(Buckets(v))
           b == Bucket(p, n)
<1>1. n \in Nat \ {0}
  BY BucketsFacts
<1>2. b \in 1..n
  <2> HIDE DEF n
  <2> QED
    BY <1>1, BucketFacts
<1>3. Home(v, p) = Buckets(v)[b]
  <2>1. CASE HasBuckets(v)
    BY <2>1, BucketsFacts DEF Home
  <2>2. CASE ~HasBuckets(v)
    <3>1. Buckets(v) = <<v>> /\ n = 1
      BY <2>2, BucketsFacts
    <3>2. b = 1
      <4> HIDE DEF n, b
      <4> QED
        BY <1>2, <3>1
    <3> QED
      BY <2>2, <3>1, <3>2 DEF Home
  <2> QED
    BY <2>1, <2>2
<1> QED
  BY <1>2, <1>3, BucketTyped

\* Another array in the place of one that p belongs to.
LEMMA WithHomeFacts ==
    ASSUME NEW v, PeersOK(v), NEW p \in Peers, NEW w \in Vector,
           \A i \in DOMAIN w.data :
              Bucket(w.data[i].peer, Len(Buckets(v))) = Bucket(p, Len(Buckets(v)))
    PROVE  LET u == WithHome(v, p, w)
               b == Bucket(p, Len(Buckets(v)))
           IN /\ PeersOK(u)
              /\ Buckets(u) = [Buckets(v) EXCEPT ![b] = w]
              /\ Len(Buckets(u)) = Len(Buckets(v))
<1> DEFINE bs == Buckets(v)
           n == Len(bs)
           b == Bucket(p, n)
           u == WithHome(v, p, w)
           us == [bs EXCEPT ![b] = w]
<1>1. Shaped(v) /\ Placed(bs)
  BY DEF PeersOK
<1>2. b \in 1..n /\ n \in Nat \ {0} /\ bs \in Seq(Vector) /\ n \in {1, FewBuckets, ManyBuckets} /\ DOMAIN bs = 1..n
  BY <1>1, BucketsFacts, HomeFacts
<1> HIDE DEF bs, b
<1>3. /\ us \in Seq(Vector) /\ Len(us) = n /\ DOMAIN us = 1..n
      /\ \A c \in 1..n : us[c] = IF c = b THEN w ELSE bs[c]
  BY <1>2
<1>4. Placed(us)
  <2> SUFFICES ASSUME NEW c \in 1..n, NEW i \in DOMAIN us[c].data
               PROVE  Bucket(us[c].data[i].peer, n) = c
    BY <1>3 DEF Placed
  <2>1. CASE c = b
    <3>1. us[c] = w
      BY <1>3, <2>1
    <3> QED
      BY <2>1, <3>1 DEF b, bs
  <2>2. CASE c # b
    <3>1. us[c] = bs[c] /\ c \in DOMAIN bs
      BY <1>2, <1>3, <2>2
    <3> QED
      BY <1>1, <3>1 DEF Placed
  <2> QED
    BY <2>1, <2>2
<1>5. Shaped(u) /\ Buckets(u) = us
  <2>1. CASE HasBuckets(v)
    <3>1. bs = v.data /\ v = [data |-> v.data, space |-> 0] /\ n > 1
      BY <1>1, <2>1, BucketsFacts DEF bs
    <3>2. u = [v EXCEPT !.data[b] = w]
      BY <2>1, <3>1 DEF WithHome, b
    <3>3. u = [data |-> us, space |-> 0]
      BY <3>1, <3>2
    <3>4. u \in [data : Seq(Vector), space : {0}] /\ Len(u.data) = n
      BY <1>3, <3>3
    <3>5. n \in {FewBuckets, ManyBuckets}
      <4>1. n \in {1, FewBuckets, ManyBuckets} /\ n > 1
        BY <1>2, <3>1
      <4>2. n # 1
        <5> HIDE DEF n
        <5> QED
          BY <4>1
      <4> QED
        BY <4>1, <4>2
    <3>6. Shaped(u)
      BY <3>4, <3>5 DEF Shaped
    <3>7. HasBuckets(u)
      BY <1>3, <3>1, <3>3 DEF HasBuckets
    <3>8. Buckets(u) = us
      BY <3>3, <3>7 DEF Buckets
    <3> QED
      BY <3>6, <3>8
  <2>2. CASE ~HasBuckets(v)
    <3>1. bs = <<v>> /\ n = 1
      BY <1>1, <2>2, BucketsFacts DEF bs
    <3>2. b = 1
      BY <1>2, <3>1
    <3>3. u = w
      BY <2>2 DEF WithHome
    <3>4. Shaped(u)
      BY <3>3 DEF Shaped
    <3>5. ~HasBuckets(u)
      BY <3>3, VectorFacts DEF HasBuckets
    <3>6. us = <<w>>
      BY <3>1, <3>2
    <3> QED
      BY <3>3, <3>4, <3>5, <3>6 DEF Buckets
  <2> QED
    BY <2>1, <2>2
<1> HIDE DEF us, u
<1> QED
  BY <1>3, <1>4, <1>5 DEF PeersOK, u, us, bs, b

-----------------------------------------------------------------------------
(* The peers of all arrays *)

\* A peer has one entry at most, wherever it is: as many entries as places, and as many peers.
LEMMA EntriesFacts ==
    ASSUME NEW v, PeersOK(v)
    PROVE  /\ Entries(v) \subseteq PeerEntry /\ IsFiniteSet(Entries(v))
           /\ \A e \in Entries(v) : \E i \in DOMAIN Home(v, e.peer).data : Home(v, e.peer).data[i] = e
           /\ \A e, f \in Entries(v) : e.peer = f.peer => e = f
           /\ IsFiniteSet(Places(v)) /\ Cardinality(Places(v)) = Cardinality(Entries(v))
           /\ Cardinality({e.peer : e \in Entries(v)}) = Cardinality(Entries(v))
           /\ \A p \in Peers : \A i \in DOMAIN Home(v, p).data : Home(v, p).data[i] \in Entries(v)
<1> DEFINE bs == Buckets(v)
           n == Len(bs)
           E == Entries(v)
           P == Places(v)
<1>1. Shaped(v) /\ Placed(bs) /\ DOMAIN bs = 1..n /\ n \in Nat \ {0}
  BY BucketsFacts DEF PeersOK
<1>2. \A b \in 1..n : bs[b] \in Vector
  BY <1>1, BucketTyped
<1>3. E = UNION {ToSet(bs[b].data) : b \in 1..n} /\ P = UNION {{b} \X DOMAIN bs[b].data : b \in 1..n}
  BY <1>1 DEF Entries, Places
<1>4. \A p \in Peers : Bucket(p, n) \in 1..n /\ Home(v, p) = bs[Bucket(p, n)]
  BY <1>1, HomeFacts
<1>5. \A b \in 1..n : \A i \in DOMAIN bs[b].data : Bucket(bs[b].data[i].peer, n) = b
  BY <1>1 DEF Placed
<1> HIDE DEF bs, n, E, P
<1>6. ASSUME NEW e \in E PROVE \E b \in 1..n : \E i \in DOMAIN bs[b].data : e = bs[b].data[i]
  BY <1>3 DEF ToSet
<1>7. ASSUME NEW b \in 1..n, NEW i \in DOMAIN bs[b].data
      PROVE  /\ bs[b].data[i] \in E /\ bs[b].data[i] \in PeerEntry /\ <<b, i>> \in P
             /\ i \in 1..Len(bs[b].data)
  <2>1. bs[b].data[i] \in ToSet(bs[b].data)
    BY DEF ToSet
  <2>2. bs[b].data[i] \in PeerEntry /\ i \in 1..Len(bs[b].data)
    BY <1>2, VectorFacts
  <2> QED
    BY <1>3, <2>1, <2>2
<1>8. E \subseteq PeerEntry
  BY <1>6, <1>7
<1>9. ASSUME NEW e \in E
      PROVE  \E i \in DOMAIN Home(v, e.peer).data : Home(v, e.peer).data[i] = e
  <2>1. PICK b \in 1..n : \E i \in DOMAIN bs[b].data : e = bs[b].data[i]
    BY <1>6
  <2>2. PICK i \in DOMAIN bs[b].data : e = bs[b].data[i]
    BY <2>1
  <2>3. Bucket(e.peer, n) = b /\ e.peer \in Peers
    BY <1>5, <1>7, <2>2, PeerEntryFacts
  <2> QED
    BY <1>4, <2>2, <2>3
<1>10. ASSUME NEW b \in 1..n, NEW i \in DOMAIN bs[b].data, NEW c \in 1..n, NEW j \in DOMAIN bs[c].data,
              bs[b].data[i].peer = bs[c].data[j].peer
       PROVE  b = c /\ i = j
  <2>1. b = c
    BY <1>5, <1>10
  <2>2. i \in 1..Len(bs[b].data) /\ j \in 1..Len(bs[b].data) /\ Ascending(bs[b].data) /\ bs[b].data[i] \in PeerEntry
        /\ Len(bs[b].data) \in Nat /\ j \in DOMAIN bs[b].data
    BY <1>2, <1>7, <2>1, VectorFacts
  <2>3. bs[b].data[i].peer \in Nat
    BY <2>2, PeerEntryFacts
  <2>4. ~(i < j) /\ ~(j < i)
    BY <1>10, <2>1, <2>2, <2>3 DEF Ascending
  <2> QED
    BY <2>1, <2>2, <2>4
<1>11. \A e, f \in E : e.peer = f.peer => e = f
  <2> SUFFICES ASSUME NEW e \in E, NEW f \in E, e.peer = f.peer PROVE e = f
    OBVIOUS
  <2>1. PICK b \in 1..n : \E i \in DOMAIN bs[b].data : e = bs[b].data[i]
    BY <1>6
  <2>2. PICK i \in DOMAIN bs[b].data : e = bs[b].data[i]
    BY <2>1
  <2>3. PICK c \in 1..n : \E j \in DOMAIN bs[c].data : f = bs[c].data[j]
    BY <1>6
  <2>4. PICK j \in DOMAIN bs[c].data : f = bs[c].data[j]
    BY <2>3
  <2> QED
    BY <1>10, <2>2, <2>4
<1>12. IsFiniteSet(P)
  <2> DEFINE part(b) == {b} \X DOMAIN bs[b].data
  <2>1. \A b \in 1..n : IsFiniteSet(part(b))
    <3> SUFFICES ASSUME NEW b \in 1..n PROVE IsFiniteSet(part(b))
      OBVIOUS
    <3> DEFINE m == Len(bs[b].data)
    <3>1. m \in Nat /\ DOMAIN bs[b].data = 1..m
      BY <1>2, VectorFacts
    <3> HIDE DEF m
    <3>2. IsFiniteSet(1..m) /\ IsFiniteSet({b})
      <4>1. 1 \in Int /\ m \in Int
        BY <3>1
      <4>2. IsFiniteSet(1..m)
        BY <4>1, FS_Interval
      <4> QED
        BY <4>2, FS_Singleton
    <3> QED
      BY <3>1, <3>2, FS_Product
  <2> DEFINE parts == {part(b) : b \in 1..n}
  <2>2. IsFiniteSet(parts)
    <3> DEFINE f == [b \in 1..n |-> part(b)]
    <3>1. IsFiniteSet(1..n)
      BY <1>1, FS_Interval
    <3> HIDE DEF part
    <3>2. f \in Surjection(1..n, parts)
      BY DEF Surjection
    <3> QED
      BY <3>1, <3>2, FS_Surjection
  <2>3. \A T \in parts : IsFiniteSet(T)
    <3> HIDE DEF part
    <3> QED
      BY <2>1
  <2>4. P = UNION parts
    BY <1>3
  <2> HIDE DEF parts
  <2> QED
    BY <2>2, <2>3, <2>4, FS_UNION
<1>13. IsFiniteSet(E) /\ Cardinality(P) = Cardinality(E)
  <2> DEFINE g == [x \in P |-> bs[x[1]].data[x[2]]]
  <2>1. \A x \in P : x[1] \in 1..n /\ x[2] \in DOMAIN bs[x[1]].data /\ x = <<x[1], x[2]>>
    BY <1>3
  <2>2. g \in [P -> E]
    BY <1>7, <2>1
  <2>3. \A x, y \in P : g[x] = g[y] => x = y
    <3> SUFFICES ASSUME NEW x \in P, NEW y \in P, g[x] = g[y] PROVE x = y
      OBVIOUS
    <3>1. bs[x[1]].data[x[2]] = bs[y[1]].data[y[2]]
      OBVIOUS
    <3>2. x[1] = y[1] /\ x[2] = y[2]
      BY <1>10, <2>1, <3>1
    <3> QED
      BY <2>1, <3>2
  <2>4. \A e \in E : \E x \in P : g[x] = e
    <3> SUFFICES ASSUME NEW e \in E PROVE \E x \in P : g[x] = e
      OBVIOUS
    <3>1. PICK b \in 1..n : \E i \in DOMAIN bs[b].data : e = bs[b].data[i]
      BY <1>6
    <3>2. PICK i \in DOMAIN bs[b].data : e = bs[b].data[i]
      BY <3>1
    <3>3. <<b, i>> \in P
      BY <1>7
    <3>4. g[<<b, i>>] = e
      BY <3>2, <3>3
    <3> QED
      BY <3>3, <3>4
  <2> HIDE DEF g
  <2>5. g \in Bijection(P, E)
    BY <2>2, <2>3, <2>4 DEF Bijection, Injection, Surjection, IsInjective
  <2>6. ExistsBijection(P, E)
    BY <2>5 DEF ExistsBijection
  <2> QED
    BY <1>12, <2>6, FS_Bijection
<1>14. Cardinality({e.peer : e \in E}) = Cardinality(E)
  <2> DEFINE Q == {e.peer : e \in E}
             g == [e \in E |-> e.peer]
  <2>1. g \in [E -> Q] /\ (\A e, f \in E : g[e] = g[f] => e = f) /\ \A x \in Q : \E e \in E : g[e] = x
    BY <1>11
  <2> HIDE DEF g, Q
  <2>2. g \in Bijection(E, Q)
    BY <2>1 DEF Bijection, Injection, Surjection, IsInjective
  <2>3. ExistsBijection(E, Q)
    BY <2>2 DEF ExistsBijection
  <2>4. Cardinality(Q) = Cardinality(E)
    BY <1>13, <2>3, FS_Bijection
  <2> QED
    BY <2>4 DEF Q
<1>15. \A p \in Peers : \A i \in DOMAIN Home(v, p).data : Home(v, p).data[i] \in E
  BY <1>4, <1>7
<1> QED
  BY <1>8, <1>9, <1>11, <1>12, <1>13, <1>14, <1>15 DEF E, P

-----------------------------------------------------------------------------
(* What the operations do to the entries of one array *)

\* A sorted array has each peer once, and it is where the search finds it.
LEMMA OnePlace ==
    ASSUME NEW data \in Seq(PeerEntry), Ascending(data),
           NEW i \in 1..Len(data), NEW j \in 1..Len(data), data[i].peer = data[j].peer
    PROVE  i = j
<1>1. DOMAIN data = 1..Len(data) /\ data[i] \in PeerEntry
  OBVIOUS
<1>2. data[i].peer \in Nat
  BY <1>1, PeerEntryFacts
<1>3. ~(i < j) /\ ~(j < i)
  BY <1>1, <1>2 DEF Ascending
<1> QED
  BY <1>3

\* A peer that is there is overwritten.
LEMMA RenewFacts ==
    ASSUME NEW data \in Seq(PeerEntry), Ascending(data), NEW e \in PeerEntry,
           NEW k \in 1..Len(data), data[k].peer = e.peer
    PROVE  LET new == [data EXCEPT ![k] = e] IN
           /\ new \in Seq(PeerEntry) /\ Len(new) = Len(data) /\ Ascending(new)
           /\ ToSet(new) = {f \in ToSet(data) : f.peer # e.peer} \cup {e}
<1> DEFINE new == [data EXCEPT ![k] = e]
           n == Len(data)
<1>1. /\ new \in Seq(PeerEntry) /\ Len(new) = n /\ DOMAIN new = 1..n /\ DOMAIN data = 1..n
      /\ \A i \in 1..n : new[i] = IF i = k THEN e ELSE data[i]
  OBVIOUS
<1> HIDE DEF new, n
<1>2. \A i \in 1..n : new[i].peer = data[i].peer
  BY <1>1
<1>3. Ascending(new)
  BY <1>1, <1>2 DEF Ascending
<1>4. \A i \in 1..n : i # k => data[i].peer # e.peer
  BY OnePlace DEF n
<1>5. \A i \in DOMAIN new : new[i] \in {f \in ToSet(data) : f.peer # e.peer} \cup {e}
  BY <1>1, <1>4 DEF ToSet
<1>6. \A f \in ToSet(data) : f.peer # e.peer => \E i \in DOMAIN new : new[i] = f
  <2> SUFFICES ASSUME NEW i \in 1..n, data[i].peer # e.peer PROVE \E j \in DOMAIN new : new[j] = data[i]
    BY <1>1 DEF ToSet
  <2> QED
    BY <1>1
<1>7. k \in DOMAIN new /\ new[k] = e
  BY <1>1 DEF n
<1>8. ToSet(new) = {f \in ToSet(data) : f.peer # e.peer} \cup {e}
  BY <1>5, <1>6, <1>7 DEF ToSet
<1> QED
  BY <1>1, <1>3, <1>8 DEF new, n

\* A new peer goes where the search says.
LEMMA InsertFacts ==
    ASSUME NEW data \in Seq(PeerEntry), Ascending(data), NEW e \in PeerEntry, NEW k \in 1..(Len(data) + 1),
           \A i \in 1..Len(data) : IF i < k THEN data[i].peer < e.peer ELSE data[i].peer > e.peer
    PROVE  LET new == InsertAt(data, k, e) IN
           /\ new \in Seq(PeerEntry) /\ Len(new) = Len(data) + 1 /\ Ascending(new)
           /\ ToSet(new) = {f \in ToSet(data) : f.peer # e.peer} \cup {e}
<1> DEFINE new == InsertAt(data, k, e)
           n == Len(data)
<1> HIDE DEF new, n
<1>1. /\ new \in Seq(PeerEntry) /\ Len(new) = n + 1
      /\ \A j \in 1..(n + 1) : new[j] = IF j < k THEN data[j] ELSE IF j = k THEN e ELSE data[j - 1]
  <2> DEFINE s == InsertAt(data, k, e)
  <2>1. /\ s \in Seq(PeerEntry) /\ Len(s) = Len(data) + 1
        /\ \A j \in 1..(Len(data) + 1) : j < k => s[j] = data[j]
        /\ s[k] = e
        /\ \A j \in 1..(Len(data) + 1) : j > k => s[j] = data[j - 1]
    BY InsertAtProperties
  <2>2. Len(data) \in Nat
    OBVIOUS
  <2> HIDE DEF s
  <2>3. ASSUME NEW j \in 1..(Len(data) + 1)
        PROVE  s[j] = IF j < k THEN data[j] ELSE IF j = k THEN e ELSE data[j - 1]
    BY <2>1, <2>2
  <2> QED
    BY <2>1, <2>3 DEF new, n, s
<1> USE DEF n
<1>2. n \in Nat /\ DOMAIN data = 1..n /\ \A i \in 1..n : data[i] \in PeerEntry
  OBVIOUS
<1> HIDE DEF new
<1>3. DOMAIN new = 1..(n + 1)
  BY <1>1
<1>4. e.peer \in Nat /\ \A i \in 1..n : data[i].peer \in Nat
  BY <1>2, PeerEntryFacts
<1>5. k \in Nat /\ k >= 1 /\ k <= n + 1
  BY <1>2
<1> HIDE DEF n
<1>6. ASSUME NEW i \in 1..(n + 1), NEW j \in 1..(n + 1), i < j PROVE new[i].peer < new[j].peer
  <2>0. i \in Nat /\ j \in Nat
    BY <1>2
  <2>1. CASE j < k
    <3>1. i \in 1..n /\ j \in 1..n /\ i < k
      BY <1>2, <1>5, <1>6, <2>0, <2>1
    <3> QED
      BY <1>1, <1>2, <1>6, <2>1, <3>1 DEF Ascending
  <2>2. CASE j = k
    <3>1. i \in 1..n /\ i < k /\ ~(j < k)
      BY <1>2, <1>5, <1>6, <2>0, <2>2
    <3>2. new[i] = data[i] /\ new[j] = e
      BY <1>1, <2>2, <3>1
    <3>3. data[i].peer < e.peer
      BY <3>1 DEF n
    <3> QED
      BY <3>2, <3>3
  <2>3. CASE j > k
    <3>1. j - 1 \in 1..n /\ ~(j < k) /\ j # k /\ ~(j - 1 < k)
      BY <1>2, <1>5, <2>0, <2>3
    <3>2. new[j] = data[j - 1] /\ data[j - 1].peer > e.peer
      BY <1>1, <3>1 DEF n
    <3>3. CASE i = k
      BY <1>1, <1>4, <3>1, <3>2, <3>3
    <3>4. CASE i < k
      <4>1. i \in 1..n /\ i < j - 1
        BY <1>2, <1>5, <2>0, <2>3, <3>4
      <4>2. new[i] = data[i]
        BY <1>1, <3>4
      <4> QED
        BY <1>2, <3>1, <3>2, <4>1, <4>2 DEF Ascending
    <3>5. CASE i > k
      <4>1. i - 1 \in 1..n /\ i - 1 < j - 1 /\ ~(i < k) /\ i # k
        BY <1>2, <1>5, <1>6, <2>0, <3>5
      <4>2. new[i] = data[i - 1]
        BY <1>1, <4>1
      <4> QED
        BY <1>2, <3>1, <3>2, <4>1, <4>2 DEF Ascending
    <3>6. i = k \/ i < k \/ i > k
      BY <1>5, <2>0
    <3> QED
      BY <3>3, <3>4, <3>5, <3>6
  <2>4. j < k \/ j = k \/ j > k
    BY <1>5, <2>0
  <2> QED
    BY <2>1, <2>2, <2>3, <2>4
<1>7. Ascending(new)
  BY <1>3, <1>6 DEF Ascending
<1>8. \A i \in 1..n : data[i].peer # e.peer
  BY <1>4 DEF n
<1>9. \A j \in DOMAIN new : new[j] \in ToSet(data) \cup {e}
  <2> SUFFICES ASSUME NEW j \in 1..(n + 1) PROVE new[j] \in ToSet(data) \cup {e}
    BY <1>3
  <2>0. j \in Nat /\ j >= 1 /\ j <= n + 1
    BY <1>2
  <2>1. CASE j < k
    <3>1. j \in DOMAIN data /\ new[j] = data[j]
      BY <1>1, <1>2, <1>5, <2>0, <2>1
    <3> QED
      BY <3>1 DEF ToSet
  <2>2. CASE j = k
    <3>1. ~(j < k)
      BY <1>5, <2>2
    <3> QED
      BY <1>1, <2>2, <3>1
  <2>3. CASE j > k
    <3>1. j - 1 \in DOMAIN data /\ ~(j < k) /\ j # k
      BY <1>2, <1>5, <2>0, <2>3
    <3>2. new[j] = data[j - 1]
      BY <1>1, <3>1
    <3> QED
      BY <3>1, <3>2 DEF ToSet
  <2> QED
    BY <1>5, <2>0, <2>1, <2>2, <2>3
<1>10. \A i \in 1..n : \E j \in DOMAIN new : new[j] = data[i]
  <2> SUFFICES ASSUME NEW i \in 1..n PROVE \E j \in DOMAIN new : new[j] = data[i]
    OBVIOUS
  <2>0. i \in Nat /\ i >= 1 /\ i <= n
    BY <1>2
  <2>1. CASE i < k
    <3>1. i \in 1..(n + 1)
      BY <1>2, <2>0
    <3>2. new[i] = data[i]
      BY <1>1, <2>1, <3>1
    <3> QED
      BY <1>3, <3>1, <3>2
  <2>2. CASE ~(i < k)
    <3>1. i + 1 \in 1..(n + 1) /\ ~(i + 1 < k) /\ i + 1 # k /\ (i + 1) - 1 = i
      BY <1>2, <1>5, <2>0, <2>2
    <3>2. new[i + 1] = data[i]
      BY <1>1, <3>1
    <3> QED
      BY <1>3, <3>1, <3>2
  <2> QED
    BY <2>1, <2>2
<1>11. \E j \in DOMAIN new : new[j] = e
  <2>1. k \in DOMAIN new /\ ~(k < k)
    BY <1>2, <1>3, <1>5
  <2> QED
    BY <1>1, <1>3, <2>1
<1>12. ToSet(new) = {f \in ToSet(data) : f.peer # e.peer} \cup {e}
  <2>1. \A f \in ToSet(data) : f.peer # e.peer /\ f \in ToSet(new)
    BY <1>2, <1>8, <1>10 DEF ToSet
  <2>2. e \in ToSet(new) /\ \A f \in ToSet(new) : f \in ToSet(data) \cup {e}
    BY <1>9, <1>11 DEF ToSet
  <2> QED
    BY <2>1, <2>2
<1> QED
  BY <1>1, <1>7, <1>12 DEF new, n

\* The entries behind a peer that leaves close up.
LEMMA RemoveFacts ==
    ASSUME NEW data \in Seq(PeerEntry), Ascending(data), NEW k \in 1..Len(data)
    PROVE  LET new == RemoveAt(data, k) IN
           /\ new \in Seq(PeerEntry) /\ Len(new) = Len(data) - 1 /\ Ascending(new)
           /\ ToSet(new) = {f \in ToSet(data) : f.peer # data[k].peer}
<1> DEFINE new == RemoveAt(data, k)
           n == Len(data)
<1>1. /\ new \in Seq(PeerEntry) /\ Len(new) = n - 1
      /\ \A j \in 1..(n - 1) : new[j] = IF j < k THEN data[j] ELSE data[j + 1]
  BY RemoveAtProperties
<1>2. n \in Nat /\ DOMAIN data = 1..n /\ k \in Nat /\ k >= 1 /\ k <= n
  OBVIOUS
<1> HIDE DEF new
<1>3. DOMAIN new = 1..(n - 1)
  BY <1>1
<1> HIDE DEF n
<1> DEFINE old(j) == IF j < k THEN j ELSE j + 1
<1>4. ASSUME NEW j \in 1..(n - 1) PROVE old(j) \in 1..n /\ old(j) # k /\ new[j] = data[old(j)]
  <2>0. j \in Nat /\ j >= 1 /\ j <= n - 1
    BY <1>2
  <2>1. CASE j < k
    BY <1>1, <1>2, <2>0, <2>1
  <2>2. CASE ~(j < k)
    BY <1>1, <1>2, <2>0, <2>2
  <2> QED
    BY <2>1, <2>2
<1>5. \A i, j \in 1..(n - 1) : i < j => old(i) < old(j)
  BY <1>2
<1>6. \A i \in 1..n : i # k => \E j \in 1..(n - 1) : old(j) = i
  <2> SUFFICES ASSUME NEW i \in 1..n, i # k PROVE \E j \in 1..(n - 1) : old(j) = i
    OBVIOUS
  <2>0. i \in Nat /\ i >= 1 /\ i <= n
    BY <1>2
  <2>1. CASE i < k
    <3>1. i \in 1..(n - 1) /\ old(i) = i
      BY <1>2, <2>0, <2>1
    <3> QED
      BY <3>1
  <2>2. CASE ~(i < k)
    <3>1. i - 1 \in 1..(n - 1) /\ old(i - 1) = i
      BY <1>2, <2>0, <2>2
    <3> QED
      BY <3>1
  <2> QED
    BY <2>1, <2>2
<1> HIDE DEF old
<1>7. Ascending(new)
  BY <1>2, <1>3, <1>4, <1>5 DEF Ascending
<1>8. \A i \in 1..n : i # k => data[i].peer # data[k].peer
  BY <1>2, OnePlace DEF n
<1>9. \A f \in ToSet(new) : f \in ToSet(data) /\ f.peer # data[k].peer
  BY <1>2, <1>3, <1>4, <1>8 DEF ToSet
<1>10. \A f \in ToSet(data) : f.peer # data[k].peer => f \in ToSet(new)
  <2> SUFFICES ASSUME NEW i \in 1..n, data[i].peer # data[k].peer PROVE data[i] \in ToSet(new)
    BY <1>2 DEF ToSet
  <2>1. PICK j \in 1..(n - 1) : old(j) = i
    BY <1>6
  <2> QED
    BY <1>3, <1>4, <2>1 DEF ToSet
<1>11. ToSet(new) = {f \in ToSet(data) : f.peer # data[k].peer}
  BY <1>9, <1>10
<1> QED
  BY <1>1, <1>7, <1>11 DEF new, n

-----------------------------------------------------------------------------
(* What that does to the list *)

\* Array w has the entries of array h, but those in N for peer p.
Exchanged(h, w, p, N) ==
    /\ N \in SUBSET PeerEntry /\ \A e \in N : e.peer = p
    /\ ToSet(w.data) = {e \in ToSet(h.data) : e.peer # p} \cup N

\* The entries of a list in which the array of p is another one.
LEMMA HomeChanged ==
    ASSUME NEW v, PeersOK(v), NEW p \in Peers, NEW w \in Vector, NEW N,
           Exchanged(Home(v, p), w, p, N)
    PROVE  LET u == WithHome(v, p, w)
               b == Bucket(p, Len(Buckets(v)))
           IN /\ PeersOK(u) /\ Len(Buckets(u)) = Len(Buckets(v))
              /\ Buckets(u) = [Buckets(v) EXCEPT ![b] = w]
              /\ Entries(u) = {e \in Entries(v) : e.peer # p} \cup N
<1> DEFINE bs == Buckets(v)
           n == Len(bs)
           b == Bucket(p, n)
           h == Home(v, p)
           u == WithHome(v, p, w)
           us == [bs EXCEPT ![b] = w]
<1>1. Shaped(v) /\ Placed(bs) /\ DOMAIN bs = 1..n /\ n \in Nat \ {0} /\ b \in 1..n /\ h = bs[b]
  BY BucketsFacts, HomeFacts DEF PeersOK
<1>15. /\ N \in SUBSET PeerEntry /\ \A e \in N : e.peer = p
       /\ ToSet(w.data) = {e \in ToSet(h.data) : e.peer # p} \cup N
  BY DEF Exchanged
<1>2. \A e \in ToSet(w.data) : e \in ToSet(h.data) \/ e.peer = p
  BY <1>15
<1> HIDE DEF bs, n, b, h, u
<1>3. \A e \in ToSet(h.data) : Bucket(e.peer, n) = b
  BY <1>1 DEF Placed, ToSet, n
<1>4. \A i \in DOMAIN w.data : Bucket(w.data[i].peer, n) = b
  <2> SUFFICES ASSUME NEW i \in DOMAIN w.data PROVE Bucket(w.data[i].peer, n) = b
    OBVIOUS
  <2>1. w.data[i] \in ToSet(w.data)
    BY DEF ToSet
  <2> QED
    BY <1>2, <1>3, <2>1 DEF b
<1>5. PeersOK(u) /\ Buckets(u) = us /\ Len(Buckets(u)) = n
  BY <1>4, WithHomeFacts DEF u, n, b, bs
<1>6. DOMAIN us = 1..n /\ \A c \in 1..n : us[c] = IF c = b THEN w ELSE bs[c]
  BY <1>1
<1> HIDE DEF us
<1>7. Entries(v) = UNION {ToSet(bs[c].data) : c \in 1..n}
  BY <1>1 DEF Entries, bs
<1>8. Entries(u) = UNION {ToSet(us[c].data) : c \in 1..n}
  BY <1>5, <1>6 DEF Entries
<1>9. \A c \in 1..n : c # b => \A e \in ToSet(bs[c].data) : e.peer # p
  <2> SUFFICES ASSUME NEW c \in 1..n, c # b, NEW i \in DOMAIN bs[c].data PROVE bs[c].data[i].peer # p
    BY DEF ToSet
  <2>1. Bucket(bs[c].data[i].peer, n) = c
    BY <1>1 DEF Placed, n
  <2> QED
    BY <2>1 DEF b
<1>10. ToSet(w.data) = {e \in ToSet(h.data) : e.peer # p} \cup N
  BY <1>15
<1>11. ASSUME NEW e \in Entries(u) PROVE e \in {f \in Entries(v) : f.peer # p} \cup N
  <2>1. PICK c \in 1..n : e \in ToSet(us[c].data)
    BY <1>8
  <2>2. CASE c = b
    <3>1. e \in ToSet(w.data)
      BY <1>6, <2>1, <2>2
    <3>2. e \in N \/ (e \in ToSet(bs[b].data) /\ e.peer # p)
      BY <1>1, <1>10, <3>1
    <3> QED
      BY <1>1, <1>7, <3>2
  <2>3. CASE c # b
    <3>1. e \in ToSet(bs[c].data)
      BY <1>6, <2>1, <2>3
    <3> QED
      BY <1>7, <1>9, <2>3, <3>1
  <2> QED
    BY <2>2, <2>3
<1>12. ASSUME NEW e \in Entries(v), e.peer # p PROVE e \in Entries(u)
  <2>1. PICK c \in 1..n : e \in ToSet(bs[c].data)
    BY <1>7
  <2>2. CASE c = b
    <3>1. e \in ToSet(w.data)
      BY <1>1, <1>10, <1>12, <2>1, <2>2
    <3> QED
      BY <1>1, <1>6, <1>8, <3>1
  <2>3. CASE c # b
    BY <1>6, <1>8, <2>1, <2>3
  <2> QED
    BY <2>2, <2>3
<1>13. \A e \in N : e \in Entries(u)
  BY <1>1, <1>6, <1>8, <1>10
<1>14. Entries(u) = {e \in Entries(v) : e.peer # p} \cup N
  BY <1>11, <1>12, <1>13, <1>15
<1> QED
  BY <1>5, <1>14 DEF u, us, n, b, bs

\* The places of a list in which the array of p is another one, of about the same length.
LEMMA HomeCounted ==
    ASSUME NEW v, PeersOK(v), NEW p \in Peers, NEW w \in Vector, NEW u,
           Len(Buckets(u)) = Len(Buckets(v)),
           Buckets(u) = [Buckets(v) EXCEPT ![Bucket(p, Len(Buckets(v)))] = w]
    PROVE  LET old == Len(Home(v, p).data)
               new == Len(w.data)
           IN /\ Cardinality(Places(v)) \in Nat
              /\ new = old => Cardinality(Places(u)) = Cardinality(Places(v))
              /\ new = old + 1 => Cardinality(Places(u)) = Cardinality(Places(v)) + 1
              /\ new = old - 1 => Cardinality(Places(u)) = Cardinality(Places(v)) - 1
<1> DEFINE bs == Buckets(v)
           n == Len(bs)
           b == Bucket(p, n)
           old == Len(Home(v, p).data)
           new == Len(w.data)
           us == Buckets(u)
<1>1. Shaped(v) /\ DOMAIN bs = 1..n /\ n \in Nat \ {0} /\ b \in 1..n /\ Home(v, p) = bs[b] /\ Home(v, p) \in Vector
  BY BucketsFacts, HomeFacts DEF PeersOK
<1>2. old \in Nat /\ new \in Nat /\ DOMAIN bs[b].data = 1..old /\ DOMAIN w.data = 1..new
  BY <1>1, VectorFacts
<1>3. DOMAIN us = 1..n /\ \A c \in 1..n : us[c] = IF c = b THEN w ELSE bs[c]
  BY <1>1
<1>4. Places(v) = UNION {{c} \X DOMAIN bs[c].data : c \in 1..n}
  BY <1>1 DEF Places
<1>5. Places(u) = UNION {{c} \X DOMAIN us[c].data : c \in 1..n}
  BY <1>3 DEF Places
<1> HIDE DEF bs, n, b, old, new, us
<1>6. \A x : x \in Places(v) <=> \E c \in 1..n : \E i \in DOMAIN bs[c].data : x = <<c, i>>
  BY <1>4
<1>7. \A x : x \in Places(u) <=> \E c \in 1..n : \E i \in DOMAIN us[c].data : x = <<c, i>>
  BY <1>5
<1>8. IsFiniteSet(Places(v)) /\ Cardinality(Places(v)) \in Nat
  BY EntriesFacts, FS_CardinalityType
<1>9. CASE new = old
  <2>1. \A c \in 1..n : DOMAIN us[c].data = DOMAIN bs[c].data
    BY <1>2, <1>3, <1>9
  <2>2. \A x : x \in Places(u) <=> x \in Places(v)
    BY <1>6, <1>7, <2>1
  <2>3. old # old + 1 /\ old # old - 1
    BY <1>2
  <2> QED
    BY <1>8, <1>9, <2>2, <2>3, SameSet DEF old, new
<1>10. CASE new = old + 1
  <2>1. DOMAIN us[b].data = DOMAIN bs[b].data \cup {new} /\ new \notin DOMAIN bs[b].data
    BY <1>1, <1>2, <1>3, <1>10
  <2>2. \A c \in 1..n : c # b => DOMAIN us[c].data = DOMAIN bs[c].data
    BY <1>3
  <2>3. Places(u) = Places(v) \cup {<<b, new>>}
    BY <1>1, <1>6, <1>7, <2>1, <2>2
  <2>4. <<b, new>> \notin Places(v)
    BY <1>6, <2>1
  <2>5. Cardinality(Places(u)) = Cardinality(Places(v)) + 1
    BY <1>8, <2>3, <2>4, FS_AddElement
  <2>6. new # old /\ new # old - 1
    BY <1>2, <1>10
  <2> QED
    BY <1>8, <2>5, <2>6 DEF old, new
<1>11. CASE new = old - 1
  <2>1. DOMAIN us[b].data = DOMAIN bs[b].data \ {old} /\ old \in DOMAIN bs[b].data
    BY <1>1, <1>2, <1>3, <1>11
  <2>2. \A c \in 1..n : c # b => DOMAIN us[c].data = DOMAIN bs[c].data
    BY <1>3
  <2>3. \A x : x \in Places(u) <=> x \in Places(v) \ {<<b, old>>}
    <3> SUFFICES ASSUME NEW x PROVE x \in Places(u) <=> x \in Places(v) \ {<<b, old>>}
      OBVIOUS
    <3>1. ASSUME x \in Places(u) PROVE x \in Places(v) \ {<<b, old>>}
      <4>1. PICK c \in 1..n : \E i \in DOMAIN us[c].data : x = <<c, i>>
        BY <1>7, <3>1
      <4>2. PICK i \in DOMAIN us[c].data : x = <<c, i>>
        BY <4>1
      <4>3. i \in DOMAIN bs[c].data /\ ~(c = b /\ i = old)
        BY <2>1, <2>2
      <4> QED
        BY <1>6, <4>2, <4>3
    <3>2. ASSUME x \in Places(v) \ {<<b, old>>} PROVE x \in Places(u)
      <4>1. PICK c \in 1..n : \E i \in DOMAIN bs[c].data : x = <<c, i>>
        BY <1>6, <3>2
      <4>2. PICK i \in DOMAIN bs[c].data : x = <<c, i>>
        BY <4>1
      <4>3. ~(c = b /\ i = old)
        BY <3>2, <4>2
      <4>4. i \in DOMAIN us[c].data
        BY <2>1, <2>2, <4>3
      <4> QED
        BY <1>7, <4>2, <4>4
    <3> QED
      BY <3>1, <3>2
  <2>4. <<b, old>> \in Places(v)
    BY <1>1, <1>6, <2>1
  <2>5. Cardinality(Places(u)) = Cardinality(Places(v)) - 1
    <3>1. Places(u) = Places(v) \ {<<b, old>>}
      BY <2>3, SameSet
    <3> QED
      BY <1>8, <3>1, <2>4, FS_RemoveElement
  <2>6. new # old /\ new # old + 1
    BY <1>2, <1>11
  <2> QED
    BY <1>8, <2>5, <2>6 DEF old, new
<1>12. CASE new # old /\ new # old + 1 /\ new # old - 1
  BY <1>8, <1>12 DEF old, new
<1> QED
  BY <1>9, <1>10, <1>11, <1>12

-----------------------------------------------------------------------------
(* What the operations do to the space of one array *)

\* An array that has grown or shrunk does not do the opposite at the next operation.
Calm(old, new) ==
    /\ new.space > old.space => Len(new.data) = 1 \/ ~TooLarge(Len(new.data) - 1, new.space)
    /\ new.space < old.space => Len(new.data) = 0 \/ Len(new.data) < new.space

\* The space after an insertion.
LEMMA GrownFacts ==
    ASSUME NEW used \in Nat, NEW space \in Nat, used <= space
    PROVE  LET new == IF used + 1 > space THEN Grown(space) ELSE space IN
           /\ new \in Nat /\ used + 1 <= new /\ new >= space
           /\ new > space => used = 0 \/ ~TooLarge(used, new)
<1> DEFINE G == OT_VECTOR_GROW_RATIO
           TH == OT_VECTOR_SHRINK_THRESH
           M == OT_VECTOR_MIN_MEMBERS
<1>1. G \in Nat /\ G >= 2 /\ TH \in Nat /\ G <= TH /\ M \in Nat /\ M >= 1
  BY RatiosAssumption
<1>2. CASE ~(used + 1 > space)
  BY <1>2
<1>3. CASE used + 1 > space /\ space = 0
  <2>1. Grown(space) = M /\ used = 0
    BY <1>3 DEF Grown
  <2> HIDE DEF M
  <2> QED
    BY <1>1, <1>3, <2>1
<1>4. CASE used + 1 > space /\ space # 0
  <2>1. used = space /\ Grown(space) = G * space
    BY <1>4 DEF Grown
  <2> HIDE DEF G
  <2> DEFINE g == G * space
  <2>2. g \in Nat
    BY <1>1
  <2>3. 2 * space <= G * space
    BY <1>1, ProductMonotone
  <2>4. G * space <= TH * space
    BY <1>1, ProductMonotone
  <2>5. TH * space = space * TH
    BY <1>1
  <2>6. ~(space * TH < g)
    BY <1>1, <2>2, <2>4, <2>5
  <2>7. ~TooLarge(used, g)
    BY <2>1, <2>6 DEF TooLarge
  <2>8. space + 1 <= g
    BY <1>4, <2>2, <2>3
  <2> QED
    BY <1>4, <2>1, <2>2, <2>7, <2>8
<1> QED
  BY <1>2, <1>3, <1>4

\* The entry of a peer that was there is a new one.
LEMMA RenewedVector ==
    ASSUME NEW h \in Vector, NEW e \in PeerEntry, NEW k \in 1..Len(h.data), h.data[k].peer = e.peer
    PROVE  LET w == [h EXCEPT !.data[k] = e] IN
           /\ w \in Vector /\ Len(w.data) = Len(h.data) /\ Calm(h, w)
           /\ ToSet(w.data) = {f \in ToSet(h.data) : f.peer # e.peer} \cup {e}
<1> DEFINE w == [h EXCEPT !.data[k] = e]
           data == [h.data EXCEPT ![k] = e]
<1>1. h = [data |-> h.data, space |-> h.space] /\ h.data \in Seq(PeerEntry) /\ h.space \in Nat
      /\ Len(h.data) <= h.space /\ Ascending(h.data)
  BY VectorFacts
<1>2. data \in Seq(PeerEntry) /\ Len(data) = Len(h.data) /\ Ascending(data)
      /\ ToSet(data) = {f \in ToSet(h.data) : f.peer # e.peer} \cup {e}
  BY <1>1, RenewFacts
<1>3. w = [data |-> data, space |-> h.space]
  BY <1>1
<1> HIDE DEF data, w
<1>4. w \in Vector
  BY <1>1, <1>2, <1>3 DEF Vector
<1>5. Calm(h, w)
  BY <1>1, <1>3 DEF Calm
<1> QED
  BY <1>2, <1>3, <1>4, <1>5 DEF w

\* A peer is added.
LEMMA AddedVector ==
    ASSUME NEW h \in Vector, NEW e \in PeerEntry, NEW k \in 1..(Len(h.data) + 1),
           \A i \in 1..Len(h.data) : IF i < k THEN h.data[i].peer < e.peer ELSE h.data[i].peer > e.peer
    PROVE  LET w == [data  |-> InsertAt(h.data, k, e),
                     space |-> IF Len(h.data) + 1 > h.space THEN Grown(h.space) ELSE h.space]
           IN /\ w \in Vector /\ Len(w.data) = Len(h.data) + 1 /\ Calm(h, w)
              /\ ToSet(w.data) = {f \in ToSet(h.data) : f.peer # e.peer} \cup {e}
<1> DEFINE data == InsertAt(h.data, k, e)
           space == IF Len(h.data) + 1 > h.space THEN Grown(h.space) ELSE h.space
           w == [data |-> data, space |-> space]
<1>1. h.data \in Seq(PeerEntry) /\ h.space \in Nat /\ Len(h.data) \in Nat
      /\ Len(h.data) <= h.space /\ Ascending(h.data)
  BY VectorFacts
<1>2. data \in Seq(PeerEntry) /\ Len(data) = Len(h.data) + 1 /\ Ascending(data)
      /\ ToSet(data) = {f \in ToSet(h.data) : f.peer # e.peer} \cup {e}
  BY <1>1, InsertFacts
<1>3. /\ space \in Nat /\ Len(h.data) + 1 <= space /\ space >= h.space
      /\ space > h.space => Len(h.data) = 0 \/ ~TooLarge(Len(h.data), space)
  BY <1>1, GrownFacts
<1> HIDE DEF data, space
<1>4. w \in Vector
  BY <1>1, <1>2, <1>3 DEF Vector
<1>5. Len(w.data) - 1 = Len(h.data) /\ (Len(h.data) = 0 => Len(w.data) = 1)
  <2>1. w.data = data
    OBVIOUS
  <2>2. Len(w.data) = Len(h.data) + 1
    BY <1>2, <2>1
  <2>3. Len(h.data) \in Nat
    BY <1>1
  <2> HIDE DEF w
  <2> QED
    BY <2>2, <2>3
<1>6. ~(space < h.space)
  BY <1>1, <1>3
<1>7. w.space > h.space => Len(w.data) = 1 \/ ~TooLarge(Len(w.data) - 1, w.space)
  BY <1>3, <1>5
<1>8. Calm(h, w)
  BY <1>6, <1>7 DEF Calm
<1> QED
  BY <1>2, <1>4, <1>8 DEF data, space

\* A peer is removed.
LEMMA RemovedVector ==
    ASSUME NEW h \in Vector, NEW k \in 1..Len(h.data)
    PROVE  LET w == vector_fixup_peers([h EXCEPT !.data = RemoveAt(@, k)]) IN
           /\ w \in Vector /\ Len(w.data) = Len(h.data) - 1 /\ Calm(h, w)
           /\ ToSet(w.data) = {f \in ToSet(h.data) : f.peer # h.data[k].peer}
<1> DEFINE data == RemoveAt(h.data, k)
           v == [data |-> data, space |-> h.space]
           w == vector_fixup_peers(v)
<1>1. h = [data |-> h.data, space |-> h.space] /\ h.data \in Seq(PeerEntry) /\ h.space \in Nat
      /\ Len(h.data) \in Nat /\ Len(h.data) <= h.space /\ Ascending(h.data)
  BY VectorFacts
<1>2. data \in Seq(PeerEntry) /\ Len(data) = Len(h.data) - 1 /\ Ascending(data)
      /\ ToSet(data) = {f \in ToSet(h.data) : f.peer # h.data[k].peer}
  BY <1>1, RemoveFacts
<1>3. [h EXCEPT !.data = RemoveAt(@, k)] = v
  BY <1>1
<1> HIDE DEF data
<1>4. Len(data) <= h.space
  BY <1>1, <1>2
<1>5. /\ w = [data |-> v.data, space |-> w.space] /\ w.data = v.data
      /\ w.space \in Nat /\ Len(v.data) <= w.space /\ w.space <= v.space
      /\ w.space < v.space => Len(v.data) = 0 \/ Len(v.data) < w.space
  <2>1. v.data \in Seq(PeerEntry) /\ v.space \in Nat /\ Len(v.data) <= v.space
        /\ v = [data |-> v.data, space |-> v.space]
    BY <1>1, <1>2, <1>4
  <2> HIDE DEF v
  <2> QED
    BY <2>1, FixupFacts
<1>6. v.data = data /\ v.space = h.space
  OBVIOUS
<1> HIDE DEF v, w
<1>7. w \in Vector
  BY <1>2, <1>5, <1>6 DEF Vector
<1>8. Calm(h, w)
  <2>1. ~(w.space > h.space)
    BY <1>1, <1>5, <1>6
  <2>2. w.space < h.space => Len(w.data) = 0 \/ Len(w.data) < w.space
    BY <1>5, <1>6
  <2> QED
    BY <2>1, <2>2 DEF Calm
<1>9. vector_fixup_peers([h EXCEPT !.data = RemoveAt(@, k)]) = w
  BY <1>3 DEF w
<1> QED
  BY <1>2, <1>5, <1>6, <1>7, <1>8, <1>9

-----------------------------------------------------------------------------
(* The list after an operation on one array *)

\* No array of one list does at once the opposite of what made it from that of another.
AllCalm(v, u) ==
    Len(Buckets(u)) = Len(Buckets(v)) =>
      \A b \in DOMAIN Buckets(v) : Calm(Buckets(v)[b], Buckets(u)[b])

\* An array that stays as it is does nothing.
LEMMA SameIsCalm ==
    ASSUME NEW w \in Vector
    PROVE  Calm(w, w)
<1>1. w.space \in Nat
  BY VectorFacts
<1> QED
  BY <1>1 DEF Calm

\* Nor does a list that stays as it is.
LEMMA SameAllCalm ==
    ASSUME NEW v, PeersOK(v)
    PROVE  AllCalm(v, v)
BY SameIsCalm, BucketTyped, BucketsFacts DEF PeersOK, AllCalm

\* One array changes.
LEMMA HomeCalm ==
    ASSUME NEW v, PeersOK(v), NEW p \in Peers, NEW w \in Vector, Calm(Home(v, p), w), NEW u,
           Buckets(u) = [Buckets(v) EXCEPT ![Bucket(p, Len(Buckets(v)))] = w]
    PROVE  AllCalm(v, u)
<1> DEFINE bs == Buckets(v)
           n == Len(bs)
           b == Bucket(p, n)
<1>1. Shaped(v) /\ DOMAIN bs = 1..n /\ b \in 1..n /\ Home(v, p) = bs[b]
  BY BucketsFacts, HomeFacts DEF PeersOK
<1>2. \A c \in 1..n : bs[c] \in Vector
  BY <1>1, BucketTyped
<1> HIDE DEF bs, n, b
<1>3. \A c \in 1..n : Buckets(u)[c] = IF c = b THEN w ELSE bs[c]
  BY <1>1 DEF bs, n, b
<1>4. \A c \in 1..n : Calm(bs[c], Buckets(u)[c])
  BY <1>1, <1>2, <1>3, SameIsCalm
<1> QED
  BY <1>1, <1>4 DEF AllCalm, bs

\* The search finds the peers of the list and no others.
LEMMA MatchFacts ==
    ASSUME NEW v, PeersOK(v), NEW p \in Peers
    PROVE  LET h == Home(v, p)
               match == binary_search(p, h.data)
           IN /\ h \in Vector
              /\ match.at \in 1..(Len(h.data) + 1) /\ match.exactmatch \in BOOLEAN
              /\ match.exactmatch <=> p \in {e.peer : e \in Entries(v)}
              /\ match.exactmatch =>
                   match.at \in 1..Len(h.data) /\ h.data[match.at].peer = p
                     /\ h.data[match.at] \in Entries(v)
              /\ ~match.exactmatch =>
                   \A i \in 1..Len(h.data) :
                      IF i < match.at THEN h.data[i].peer < p ELSE h.data[i].peer > p
<1> DEFINE h == Home(v, p)
           match == binary_search(p, h.data)
<1>1. h \in Vector
  BY HomeFacts DEF PeersOK
<1>2. h.data \in Seq(PeerEntry) /\ Ascending(h.data) /\ DOMAIN h.data = 1..Len(h.data)
      /\ \A i \in 1..Len(h.data) : h.data[i] \in PeerEntry
  BY <1>1, VectorFacts
<1>3. /\ match.at \in 1..(Len(h.data) + 1) /\ match.exactmatch \in BOOLEAN
      /\ match.exactmatch => match.at \in 1..Len(h.data) /\ h.data[match.at].peer = p
      /\ ~match.exactmatch =>
           \A i \in 1..Len(h.data) :
              IF i < match.at THEN h.data[i].peer < p ELSE h.data[i].peer > p
  BY <1>2, SearchFacts
<1>4. \A i \in 1..Len(h.data) : h.data[i] \in Entries(v)
  BY <1>2, EntriesFacts
<1>5. \A e \in Entries(v) : e.peer = p => \E i \in 1..Len(h.data) : h.data[i] = e
  BY <1>2, EntriesFacts
<1>6. p \in Nat /\ \A i \in 1..Len(h.data) : h.data[i].peer \in Nat
  BY <1>2, PeerEntryFacts, PeersAssumption
<1> HIDE DEF match, h
<1>7. ASSUME match.exactmatch PROVE p \in {e.peer : e \in Entries(v)}
  BY <1>3, <1>4, <1>7
<1>8. ASSUME ~match.exactmatch, p \in {e.peer : e \in Entries(v)} PROVE FALSE
  <2>1. PICK i \in 1..Len(h.data) : h.data[i].peer = p
    BY <1>5, <1>8
  <2>2. h.data[i].peer < p \/ h.data[i].peer > p
    BY <1>3, <1>8
  <2> QED
    BY <1>6, <2>1, <2>2
<1> QED
  BY <1>1, <1>3, <1>4, <1>7, <1>8 DEF match, h

-----------------------------------------------------------------------------
(* The operations on one peer *)

\* The peers of the entries of a list.
PeersOf(v) == {e.peer : e \in Entries(v)}

\* A list that still is as it should be, with the entries in N for peer p.
ChangedFor(l, m, p, N) ==
    /\ ListOK(m) /\ AllCalm(l.peers, m.peers)
    /\ Entries(m.peers) = {e \in Entries(l.peers) : e.peer # p} \cup N

\* A list in which the array of p is another one, of as many entries or one more or less.
LEMMA ListChanged ==
    ASSUME NEW l, ListOK(l), NEW p \in Peers, NEW w \in Vector, NEW N, Exchanged(Home(l.peers, p), w, p, N),
           Calm(Home(l.peers, p), w),
           NEW d \in {-1, 0, 1}, Len(w.data) = Len(Home(l.peers, p).data) + d,
           NEW m, m = [peer_count |-> l.peer_count + d, peers |-> WithHome(l.peers, p, w)]
    PROVE  ChangedFor(l, m, p, N)
<1> DEFINE v == l.peers
           u == WithHome(v, p, w)
<1>1. PeersOK(v) /\ l.peer_count = Cardinality(Places(v))
  BY DEF ListOK
<1>0. Exchanged(Home(v, p), w, p, N) /\ Calm(Home(v, p), w)
      /\ d \in {-1, 0, 1} /\ Len(w.data) = Len(Home(v, p).data) + d
  OBVIOUS
<1>3. m.peers = u /\ m.peer_count = l.peer_count + d /\ m = [peer_count |-> m.peer_count, peers |-> m.peers]
  OBVIOUS
<1>5. Len(Home(v, p).data) \in Nat /\ Len(w.data) \in Nat
  <2>1. Home(v, p) \in Vector
    BY <1>1, HomeFacts DEF PeersOK
  <2> QED
    BY <2>1, VectorFacts
<1> HIDE DEF u, v
<1>2. /\ PeersOK(u) /\ Len(Buckets(u)) = Len(Buckets(v))
      /\ Buckets(u) = [Buckets(v) EXCEPT ![Bucket(p, Len(Buckets(v)))] = w]
      /\ Entries(u) = {e \in Entries(v) : e.peer # p} \cup N
  BY <1>0, <1>1, HomeChanged DEF u
<1>4. AllCalm(v, u)
  BY <1>0, <1>1, <1>2, HomeCalm
<1>6. LET old == Len(Home(v, p).data)
          new == Len(w.data)
      IN /\ Cardinality(Places(v)) \in Nat
         /\ new = old => Cardinality(Places(u)) = Cardinality(Places(v))
         /\ new = old + 1 => Cardinality(Places(u)) = Cardinality(Places(v)) + 1
         /\ new = old - 1 => Cardinality(Places(u)) = Cardinality(Places(v)) - 1
  BY <1>1, <1>2, HomeCounted
<1>7. Len(w.data) = Len(Home(v, p).data) + d
  BY <1>0
<1>8. Cardinality(Places(u)) = Cardinality(Places(v)) + d
  BY <1>0, <1>5, <1>6, <1>7
<1>9. m.peer_count = Cardinality(Places(u))
  BY <1>1, <1>3, <1>8
<1> QED
  BY <1>2, <1>3, <1>4, <1>9 DEF ListOK, ChangedFor, v

\* An announce adds or renews its peer, or fails and leaves all as it was.
LEMMA AnnounceFacts ==
    ASSUME VectorIInv, NEW p \in Peers, NEW seeds \in BOOLEAN, Announce(p, seeds)
    PROVE  /\ ListOK(list') /\ AllCalm(list.peers, list'.peers)
           /\ \/ /\ answer' = IF p \in Known THEN "renewed" ELSE "added"
                 /\ Entries(list'.peers) =
                      {e \in Entries(list.peers) : e.peer # p} \cup {[peer |-> p, seeding |-> seeds]}
              \/ p \notin Known /\ answer' = "failed" /\ list' = list
<1> DEFINE v == list.peers
           h == Home(v, p)
           match == binary_search(p, h.data)
           entry == [peer |-> p, seeding |-> seeds]
           full == Len(h.data) + 1 > h.space
           renewed == [h EXCEPT !.data[match.at] = entry]
           added == [data  |-> InsertAt(h.data, match.at, entry),
                     space |-> IF full THEN Grown(h.space) ELSE h.space]
<1>1. ListOK(list) /\ PeersOK(v) /\ list = [peer_count |-> list.peer_count, peers |-> v]
      /\ list.peer_count \in Nat
  <2>1. ListOK(list) /\ PeersOK(v) /\ list = [peer_count |-> list.peer_count, peers |-> v]
        /\ list.peer_count = Cardinality(Places(v))
    BY DEF VectorIInv, ListOK
  <2>2. IsFiniteSet(Places(v))
    BY <2>1, EntriesFacts
  <2> QED
    BY <2>1, <2>2, FS_CardinalityType
<1>2. entry \in PeerEntry /\ entry.peer = p
  BY DEF PeerEntry
<1>3. /\ h \in Vector
      /\ match.at \in 1..(Len(h.data) + 1) /\ match.exactmatch \in BOOLEAN
      /\ match.exactmatch <=> p \in Known
      /\ match.exactmatch =>
           match.at \in 1..Len(h.data) /\ h.data[match.at].peer = p /\ h.data[match.at] \in Entries(v)
      /\ ~match.exactmatch =>
           \A i \in 1..Len(h.data) :
              IF i < match.at THEN h.data[i].peer < p ELSE h.data[i].peer > p
  BY <1>1, MatchFacts DEF Known
<1>4. \/ /\ match.exactmatch
         /\ list' = [list EXCEPT !.peers = WithHome(@, p, renewed)]
         /\ answer' = "renewed"
      \/ /\ ~match.exactmatch
         /\ list' = [peer_count |-> list.peer_count + 1, peers |-> WithHome(v, p, added)]
         /\ answer' = "added"
      \/ /\ ~match.exactmatch
         /\ answer' = "failed"
         /\ UNCHANGED list
  BY DEF Announce
<1>5. Len(h.data) \in Nat
  BY <1>3, VectorFacts
<1> HIDE DEF match, entry, h
<1>6. CASE /\ match.exactmatch
           /\ list' = [list EXCEPT !.peers = WithHome(@, p, renewed)]
           /\ answer' = "renewed"
  <2>1. /\ renewed \in Vector /\ Len(renewed.data) = Len(h.data) /\ Calm(h, renewed)
        /\ ToSet(renewed.data) = {f \in ToSet(h.data) : f.peer # p} \cup {entry}
    BY <1>2, <1>3, <1>6, RenewedVector
  <2> HIDE DEF renewed
  <2>2. list' = [peer_count |-> list.peer_count + 0, peers |-> WithHome(v, p, renewed)]
    BY <1>1, <1>6
  <2>3. Len(renewed.data) = Len(h.data) + 0
    BY <1>5, <2>1
  <2>4. Exchanged(h, renewed, p, {entry})
    BY <1>2, <2>1 DEF Exchanged
  <2>5. ChangedFor(list, list', p, {entry})
    BY <1>1, <2>1, <2>2, <2>3, <2>4, ListChanged DEF h
  <2> QED
    BY <1>3, <1>6, <2>5 DEF entry, ChangedFor
<1>7. CASE /\ ~match.exactmatch
           /\ list' = [peer_count |-> list.peer_count + 1, peers |-> WithHome(v, p, added)]
           /\ answer' = "added"
  <2>1. /\ added \in Vector /\ Len(added.data) = Len(h.data) + 1 /\ Calm(h, added)
        /\ ToSet(added.data) = {f \in ToSet(h.data) : f.peer # p} \cup {entry}
    BY <1>2, <1>3, <1>7, AddedVector
  <2> HIDE DEF added
  <2>2. Exchanged(h, added, p, {entry})
    BY <1>2, <2>1 DEF Exchanged
  <2>3. ChangedFor(list, list', p, {entry})
    BY <1>1, <1>7, <2>1, <2>2, ListChanged DEF h
  <2> QED
    BY <1>3, <1>7, <2>3 DEF entry, ChangedFor
<1>8. CASE ~match.exactmatch /\ answer' = "failed" /\ UNCHANGED list
  BY <1>1, <1>3, <1>8, SameAllCalm
<1> QED
  BY <1>4, <1>6, <1>7, <1>8

\* A stop removes its peer and no other, and says whether it was a seeder.
LEMMA StopFacts ==
    ASSUME VectorIInv, NEW p \in Peers, Stop(p)
    PROVE  /\ ListOK(list') /\ AllCalm(list.peers, list'.peers)
           /\ Entries(list'.peers) = {e \in Entries(list.peers) : e.peer # p}
           /\ p \notin Known => answer' = "nobody"
           /\ p \in Known =>
                answer' = IF [peer |-> p, seeding |-> TRUE] \in Entries(list.peers)
                          THEN "a seeder" ELSE "a peer"
<1> DEFINE v == list.peers
           h == Home(v, p)
           match == binary_search(p, h.data)
           entry == h.data[match.at]
           left == vector_fixup_peers([h EXCEPT !.data = RemoveAt(@, match.at)])
<1>1. ListOK(list) /\ PeersOK(v) /\ list = [peer_count |-> list.peer_count, peers |-> v]
      /\ list.peer_count \in Nat
  <2>1. ListOK(list) /\ PeersOK(v) /\ list = [peer_count |-> list.peer_count, peers |-> v]
        /\ list.peer_count = Cardinality(Places(v))
    BY DEF VectorIInv, ListOK
  <2>2. IsFiniteSet(Places(v))
    BY <2>1, EntriesFacts
  <2> QED
    BY <2>1, <2>2, FS_CardinalityType
<1>2. /\ h \in Vector
      /\ match.exactmatch \in BOOLEAN
      /\ match.exactmatch <=> p \in Known
      /\ match.exactmatch =>
           match.at \in 1..Len(h.data) /\ entry.peer = p /\ entry \in Entries(v)
  BY <1>1, MatchFacts DEF Known
<1>3. \/ /\ ~match.exactmatch
         /\ answer' = "nobody"
         /\ UNCHANGED list
      \/ /\ match.exactmatch
         /\ answer' = IF entry.seeding THEN "a seeder" ELSE "a peer"
         /\ list' = [peer_count |-> list.peer_count - 1, peers |-> WithHome(v, p, left)]
  BY DEF Stop
<1>4. Len(h.data) \in Nat
  BY <1>2, VectorFacts
<1> HIDE DEF match, h
<1>5. CASE ~match.exactmatch /\ answer' = "nobody" /\ UNCHANGED list
  <2>1. Entries(v) = {e \in Entries(v) : e.peer # p}
    BY <1>2, <1>5 DEF Known
  <2> QED
    BY <1>1, <1>2, <1>5, <2>1, SameAllCalm
<1>6. CASE /\ match.exactmatch
           /\ answer' = IF entry.seeding THEN "a seeder" ELSE "a peer"
           /\ list' = [peer_count |-> list.peer_count - 1, peers |-> WithHome(v, p, left)]
  <2>1. /\ left \in Vector /\ Len(left.data) = Len(h.data) - 1 /\ Calm(h, left)
        /\ ToSet(left.data) = {f \in ToSet(h.data) : f.peer # p}
    <3>1. /\ left \in Vector /\ Len(left.data) = Len(h.data) - 1 /\ Calm(h, left)
          /\ ToSet(left.data) = {f \in ToSet(h.data) : f.peer # h.data[match.at].peer}
      BY <1>2, <1>6, RemovedVector
    <3>2. h.data[match.at].peer = p
      BY <1>2, <1>6
    <3> QED
      BY <3>1, <3>2
  <2> HIDE DEF left
  <2>2. list' = [peer_count |-> list.peer_count + (-1), peers |-> WithHome(v, p, left)]
    BY <1>1, <1>6
  <2>3. Len(left.data) = Len(h.data) + (-1)
    BY <1>4, <2>1
  <2>4. ToSet(left.data) = {f \in ToSet(h.data) : f.peer # p} \cup {}
    BY <2>1
  <2>10. Exchanged(h, left, p, {})
    BY <2>1, <2>4 DEF Exchanged
  <2>5. ChangedFor(list, list', p, {})
    BY <1>1, <2>1, <2>2, <2>3, <2>10, ListChanged DEF h
  <2>6. entry.seeding \in BOOLEAN /\ entry = [peer |-> p, seeding |-> entry.seeding]
        /\ \A e \in Entries(v) : e.peer = p => e = entry
    <3>1. Entries(v) \subseteq PeerEntry /\ \A e, f \in Entries(v) : e.peer = f.peer => e = f
      BY <1>1, EntriesFacts
    <3>2. entry \in Entries(v) /\ entry.peer = p
      BY <1>2, <1>6
    <3> HIDE DEF entry
    <3>3. entry.seeding \in BOOLEAN /\ entry = [peer |-> entry.peer, seeding |-> entry.seeding]
      BY <3>1, <3>2, PeerEntryFacts
    <3> QED
      BY <3>1, <3>2, <3>3
  <2>7. entry.seeding <=> [peer |-> p, seeding |-> TRUE] \in Entries(v)
    <3>1. ASSUME entry.seeding PROVE [peer |-> p, seeding |-> TRUE] \in Entries(v)
      <4>1. entry.seeding = TRUE
        BY <2>6, <3>1
      <4> QED
        BY <1>2, <1>6, <2>6, <4>1
    <3>2. ASSUME [peer |-> p, seeding |-> TRUE] \in Entries(v) PROVE entry.seeding
      <4> DEFINE e == [peer |-> p, seeding |-> TRUE]
      <4>1. e.peer = p /\ e.seeding = TRUE
        OBVIOUS
      <4> HIDE DEF e
      <4>2. e = entry
        BY <2>6, <3>2, <4>1 DEF e
      <4> QED
        BY <4>1, <4>2
    <3> QED
      BY <3>1, <3>2
  <2>8. Entries(list'.peers) = {e \in Entries(v) : e.peer # p}
    BY <2>5 DEF ChangedFor
  <2>9. ListOK(list') /\ AllCalm(v, list'.peers)
    BY <2>5 DEF ChangedFor
  <2> HIDE DEF entry
  <2> QED
    BY <1>2, <1>6, <2>7, <2>8, <2>9
<1> QED
  BY <1>3, <1>5, <1>6

-----------------------------------------------------------------------------
(* Cleaning *)

\* A cleaned array has what was not overdue.
LEMMA CleanedVector ==
    ASSUME NEW h \in Vector, NEW overdue
    PROVE  LET w == clean_single_bucket(h, overdue) IN
           /\ w \in Vector /\ Calm(h, w)
           /\ ToSet(w.data) = {e \in ToSet(h.data) : e.peer \notin overdue}
<1> DEFINE stay == {i \in DOMAIN h.data : h.data[i].peer \notin overdue}
           data == Left(h.data, stay)
           v == [data |-> data, space |-> h.space]
           w == clean_single_bucket(h, overdue)
<1>1. h = [data |-> h.data, space |-> h.space] /\ h.data \in Seq(PeerEntry) /\ h.space \in Nat
      /\ Len(h.data) \in Nat /\ Len(h.data) <= h.space /\ Ascending(h.data)
  BY VectorFacts
<1>2. stay \in SUBSET DOMAIN h.data
  OBVIOUS
<1>3. data \in Seq(PeerEntry) /\ Len(data) \in 0..Len(h.data) /\ Ascending(data)
      /\ ToSet(data) = {h.data[i] : i \in stay}
  BY <1>1, <1>2, LeftFacts
<1>4. ToSet(data) = {e \in ToSet(h.data) : e.peer \notin overdue}
  BY <1>3 DEF ToSet
<1>5. w = IF Len(data) < Len(h.data) - Len(data)
          THEN vector_fixup_peers([h EXCEPT !.data = data]) ELSE [h EXCEPT !.data = data]
  BY DEF clean_single_bucket, Left
<1> HIDE DEF data, stay, w
<1>6. [h EXCEPT !.data = data] = v
  BY <1>1
<1>7. w = vector_fixup_peers(v) \/ w = v
  BY <1>5, <1>6
<1>8. v.data = data /\ v.space = h.space /\ v = [data |-> v.data, space |-> v.space]
  OBVIOUS
<1>9. Len(data) \in Nat /\ Len(data) <= h.space
  BY <1>1, <1>3
<1> HIDE DEF v
<1>10. CASE w = v
  <2>1. w \in Vector
    BY <1>1, <1>3, <1>8, <1>9, <1>10 DEF Vector
  <2>2. ~(w.space > h.space) /\ ~(w.space < h.space)
    BY <1>1, <1>8, <1>10
  <2> QED
    BY <1>4, <1>8, <1>10, <2>1, <2>2 DEF Calm, w
<1>11. CASE w = vector_fixup_peers(v)
  <2>0. v.data \in Seq(PeerEntry) /\ v.space \in Nat /\ Len(v.data) <= v.space
    BY <1>1, <1>3, <1>8, <1>9
  <2>1. /\ w = [data |-> v.data, space |-> w.space] /\ w.data = v.data
        /\ w.space \in Nat /\ Len(v.data) <= w.space /\ w.space <= v.space
        /\ w.space < v.space => Len(v.data) = 0 \/ Len(v.data) < w.space
    BY <1>8, <1>11, <2>0, FixupFacts
  <2>2. w \in Vector
    BY <1>3, <1>8, <2>1 DEF Vector
  <2>3. ~(w.space > h.space)
    BY <1>1, <1>8, <2>1
  <2>4. w.space < h.space => Len(w.data) = 0 \/ Len(w.data) < w.space
    BY <1>8, <2>1
  <2> QED
    BY <1>4, <1>8, <2>1, <2>2, <2>3, <2>4 DEF Calm, w
<1> QED
  BY <1>7, <1>10, <1>11

\* The vector of so many arrays.
Together(v, arrays) == IF HasBuckets(v) THEN [v EXCEPT !.data = arrays] ELSE arrays[1]

\* One vector and several alike, whatever is in them.
LEMMA TogetherFacts ==
    ASSUME NEW v, Shaped(v), NEW arrays \in Seq(Vector), Len(arrays) = Len(Buckets(v)), Placed(arrays)
    PROVE  PeersOK(Together(v, arrays)) /\ Buckets(Together(v, arrays)) = arrays
<1> DEFINE n == Len(arrays)
           u == Together(v, arrays)
<1>1. /\ n \in {1, FewBuckets, ManyBuckets} /\ n \in Nat \ {0}
      /\ HasBuckets(v) <=> n > 1
      /\ HasBuckets(v) => v = [data |-> v.data, space |-> 0]
  BY BucketsFacts
<1>2. CASE n > 1
  <2>1. u = [data |-> arrays, space |-> 0]
    BY <1>1, <1>2 DEF Together
  <2>2. u.data = arrays /\ u.space = 0
    BY <2>1
  <2> HIDE DEF u
  <2>3. u \in [data : Seq(Vector), space : {0}]
    BY <2>1
  <2>4. n \in {FewBuckets, ManyBuckets} /\ n > 0
    BY <1>1, <1>2
  <2>5. Shaped(u)
    BY <2>2, <2>3, <2>4 DEF Shaped
  <2>6. HasBuckets(u)
    BY <2>2, <2>4 DEF HasBuckets
  <2>7. Buckets(u) = arrays
    BY <2>2, <2>6 DEF Buckets
  <2> QED
    BY <2>5, <2>7 DEF PeersOK, u
<1>3. CASE ~(n > 1)
  <2>1. n = 1 /\ ~HasBuckets(v)
    BY <1>1, <1>3
  <2>2. u = arrays[1] /\ arrays[1] \in Vector /\ arrays = <<arrays[1]>>
    BY <2>1 DEF Together
  <2> HIDE DEF u
  <2>3. Shaped(u) /\ ~HasBuckets(u)
    BY <2>2, VectorFacts DEF Shaped, HasBuckets
  <2>4. Buckets(u) = arrays
    BY <2>2, <2>3 DEF Buckets
  <2> QED
    BY <2>3, <2>4 DEF PeersOK, u
<1> QED
  BY <1>2, <1>3

\* All arrays cleaned.
LEMMA CleanedFacts ==
    ASSUME NEW v, PeersOK(v), NEW overdue
    PROVE  LET cleaned == [b \in DOMAIN Buckets(v) |-> clean_single_bucket(Buckets(v)[b], overdue)]
               u == Together(v, cleaned)
           IN /\ PeersOK(u) /\ AllCalm(v, u) /\ Len(Buckets(u)) = Len(Buckets(v))
              /\ Entries(u) = {e \in Entries(v) : e.peer \notin overdue}
<1> DEFINE bs == Buckets(v)
           n == Len(bs)
           cleaned == [b \in DOMAIN bs |-> clean_single_bucket(bs[b], overdue)]
           u == Together(v, cleaned)
<1>1. Shaped(v) /\ DOMAIN bs = 1..n /\ n \in Nat \ {0} /\ Placed(bs)
  BY BucketsFacts DEF PeersOK
<1>2. \A b \in 1..n : bs[b] \in Vector
  BY <1>1, BucketTyped
<1>3. \A b \in 1..n : cleaned[b] = clean_single_bucket(bs[b], overdue)
  BY <1>1
<1>4. cleaned = [b \in 1..n |-> cleaned[b]]
  BY <1>1
<1> HIDE DEF cleaned, bs, n
<1>5. ASSUME NEW b \in 1..n
      PROVE  /\ cleaned[b] \in Vector /\ Calm(bs[b], cleaned[b])
             /\ ToSet(cleaned[b].data) = {e \in ToSet(bs[b].data) : e.peer \notin overdue}
  BY <1>2, <1>3, CleanedVector
<1>6. cleaned \in Seq(Vector) /\ Len(cleaned) = n /\ DOMAIN cleaned = 1..n
  BY <1>1, <1>4, <1>5
<1>7. Placed(cleaned)
  <2> SUFFICES ASSUME NEW b \in 1..n, NEW i \in DOMAIN cleaned[b].data
               PROVE  Bucket(cleaned[b].data[i].peer, n) = b
    BY <1>6 DEF Placed
  <2>1. cleaned[b].data[i] \in ToSet(bs[b].data)
    BY <1>5 DEF ToSet
  <2>2. PICK j \in DOMAIN bs[b].data : bs[b].data[j] = cleaned[b].data[i]
    BY <2>1 DEF ToSet
  <2>3. Bucket(bs[b].data[j].peer, n) = b
    BY <1>1 DEF Placed, n
  <2> QED
    BY <2>2, <2>3
<1>8. PeersOK(u) /\ Buckets(u) = cleaned
  BY <1>1, <1>6, <1>7, TogetherFacts DEF n, bs
<1> HIDE DEF u
<1>9. AllCalm(v, u)
  BY <1>1, <1>5, <1>8 DEF AllCalm, bs
<1>10. Entries(v) = UNION {ToSet(bs[b].data) : b \in 1..n}
  BY <1>1 DEF Entries, bs
<1>11. Entries(u) = UNION {ToSet(cleaned[b].data) : b \in 1..n}
  BY <1>6, <1>8 DEF Entries
<1>12. \A e : e \in Entries(u) <=> e \in {f \in Entries(v) : f.peer \notin overdue}
  <2> SUFFICES ASSUME NEW e
               PROVE  e \in Entries(u) <=> e \in {f \in Entries(v) : f.peer \notin overdue}
    OBVIOUS
  <2>1. e \in Entries(v) <=> \E b \in 1..n : e \in ToSet(bs[b].data)
    BY <1>10
  <2>2. e \in Entries(u) <=> \E b \in 1..n : e \in ToSet(cleaned[b].data)
    BY <1>11
  <2>3. \A b \in 1..n : e \in ToSet(cleaned[b].data) <=> e \in ToSet(bs[b].data) /\ e.peer \notin overdue
    BY <1>5
  <2> QED
    BY <2>1, <2>2, <2>3
<1>13. Entries(u) = {f \in Entries(v) : f.peer \notin overdue}
  BY <1>12, SameSet
<1> QED
  BY <1>6, <1>8, <1>9, <1>13 DEF u, cleaned, bs, n

-----------------------------------------------------------------------------
(* Redistribution *)

\* The number of buckets is one of three, and settles.
LEMMA NumBucketsFacts ==
    ASSUME NEW c \in Nat, NEW num_old \in {1, FewBuckets, ManyBuckets}
    PROVE  LET n == num_buckets_new(c, num_old) IN
           /\ n \in {1, FewBuckets, ManyBuckets}
           /\ num_buckets_new(c, n) = n
<1>1. /\ Limits[1] \in Nat /\ Limits[2] \in Nat /\ Limits[3] \in Nat /\ Limits[4] \in Nat
      /\ Limits[1] < Limits[2] /\ Limits[2] < Limits[3] /\ Limits[3] < Limits[4]
  <2>1. \A i \in 1..3 : Limits[i] < Limits[i + 1]
    BY BucketsAssumption
  <2>2. Limits[1] < Limits[1 + 1] /\ Limits[2] < Limits[2 + 1] /\ Limits[3] < Limits[3 + 1]
    BY <2>1
  <2>3. Limits \in [1..4 -> Nat]
    BY BucketsAssumption
  <2> QED
    BY <2>2, <2>3
<1> DEFINE N(x) == num_buckets_new(c, x)
<1>2. FewBuckets \in Nat /\ ManyBuckets \in Nat /\ 1 < FewBuckets /\ FewBuckets < ManyBuckets
  BY CountFacts
<1>3. CASE c < Limits[1]
  <2>1. ~(c > Limits[4]) /\ ~(Limits[2] <= c /\ c < Limits[3])
        /\ ~(Limits[1] <= c /\ c < Limits[2]) /\ ~(Limits[3] <= c /\ c <= Limits[4])
    BY <1>1, <1>3
  <2>2. \A x : N(x) = 1
    BY <1>3, <2>1 DEF num_buckets_new
  <2> QED
    BY <2>2
<1>4. CASE c > Limits[4]
  <2>1. ~(c < Limits[1])
    BY <1>1, <1>4
  <2>2. ~(Limits[2] <= c /\ c < Limits[3]) /\ ~(Limits[1] <= c /\ c < Limits[2])
        /\ ~(Limits[3] <= c /\ c <= Limits[4])
    BY <1>1, <1>4
  <2>3. \A x : N(x) = ManyBuckets
    BY <1>4, <2>1, <2>2 DEF num_buckets_new
  <2> QED
    BY <2>3
<1>5. CASE Limits[2] <= c /\ c < Limits[3]
  <2>1. ~(c < Limits[1]) /\ ~(c > Limits[4]) /\ ~(Limits[1] <= c /\ c < Limits[2])
        /\ ~(Limits[3] <= c /\ c <= Limits[4])
    BY <1>1, <1>5
  <2>2. \A x : N(x) = FewBuckets
    BY <1>5, <2>1 DEF num_buckets_new
  <2> QED
    BY <2>2
<1>6. CASE Limits[1] <= c /\ c < Limits[2]
  <2>1. ~(c < Limits[1]) /\ ~(c > Limits[4]) /\ ~(Limits[2] <= c /\ c < Limits[3])
        /\ ~(Limits[3] <= c /\ c <= Limits[4])
    BY <1>1, <1>6
  <2>2. \A x : N(x) = IF x <= FewBuckets THEN x ELSE 1
    BY <1>6, <2>1 DEF num_buckets_new
  <2>3. N(1) = 1 /\ N(FewBuckets) = FewBuckets /\ N(ManyBuckets) = 1
    BY <1>2, <2>2
  <2> HIDE DEF N
  <2> QED
    BY <2>3 DEF N
<1>7. CASE Limits[3] <= c /\ c <= Limits[4]
  <2>1. ~(c < Limits[1]) /\ ~(c > Limits[4]) /\ ~(Limits[2] <= c /\ c < Limits[3])
        /\ ~(Limits[1] <= c /\ c < Limits[2])
    BY <1>1, <1>7
  <2>2. \A x : N(x) = IF c < Limits[4] /\ x > 1 THEN x ELSE FewBuckets
    BY <1>7, <2>1 DEF num_buckets_new
  <2>3. N(1) = FewBuckets /\ N(FewBuckets) = FewBuckets
        /\ N(ManyBuckets) \in {FewBuckets, ManyBuckets} /\ N(N(ManyBuckets)) = N(ManyBuckets)
    BY <1>2, <2>2
  <2> HIDE DEF N
  <2> QED
    BY <2>3 DEF N
<1>8. c < Limits[1] \/ c > Limits[4] \/ (Limits[2] <= c /\ c < Limits[3])
      \/ (Limits[1] <= c /\ c < Limits[2]) \/ (Limits[3] <= c /\ c <= Limits[4])
  BY <1>1
<1> QED
  BY <1>3, <1>4, <1>5, <1>6, <1>7, <1>8

\* Every entry has a new bucket, which is in order and has room.
LEMMA RedistributedFacts ==
    ASSUME NEW l, ListOK(l), NEW num_new \in {1, FewBuckets, ManyBuckets}
    PROVE  LET m == Redistributed(l, num_new) IN
           ListOK(m) /\ Entries(m.peers) = Entries(l.peers) /\ Len(Buckets(m.peers)) = num_new
<1> DEFINE v == l.peers
           E == Entries(v)
           space == Room(l.peer_count \div num_new, OT_VECTOR_MIN_MEMBERS)
           In(b) == Sorted(Gets(l, b, num_new))
           new == [b \in 1..num_new |-> [data |-> In(b), space |-> Room(Len(In(b)), space)]]
           u == IF num_new > 1 THEN [data |-> new, space |-> 0] ELSE new[1]
           m == Redistributed(l, num_new)
<1>1. num_new \in Nat \ {0}
  BY CountFacts
<1>2. PeersOK(v) /\ l = [peer_count |-> l.peer_count, peers |-> v] /\ l.peer_count = Cardinality(Places(v))
  BY DEF ListOK
<1>3. E \subseteq PeerEntry /\ IsFiniteSet(E) /\ (\A e, f \in E : e.peer = f.peer => e = f)
      /\ IsFiniteSet(Places(v)) /\ Cardinality(Places(v)) = Cardinality(E)
  BY <1>2, EntriesFacts
<1>4. l.peer_count \in Nat
  BY <1>2, <1>3, FS_CardinalityType
<1>5. space \in Nat \ {0}
  <2>1. l.peer_count \div num_new \in Nat
    BY <1>1, <1>4, Quotient
  <2>2. OT_VECTOR_MIN_MEMBERS \in Nat \ {0}
    BY RatiosAssumption
  <2> QED
    BY <2>1, <2>2, RoomFacts
<1>6. m = [peer_count |-> l.peer_count, peers |-> u]
  <2>1. m = [l EXCEPT !.peers = u]
    BY DEF Redistributed
  <2> HIDE DEF u, m
  <2> QED
    BY <1>2, <2>1
<1>7. ASSUME NEW b \in 1..num_new
      PROVE  /\ In(b) \in Seq(PeerEntry) /\ Ascending(In(b)) /\ ToSet(In(b)) = Gets(l, b, num_new)
  <2>1. Gets(l, b, num_new) \in SUBSET PeerEntry /\ Gets(l, b, num_new) \subseteq E
    BY <1>3 DEF Gets
  <2>2. IsFiniteSet(Gets(l, b, num_new))
    BY <1>3, <2>1, FS_Subset
  <2>3. \A e, f \in Gets(l, b, num_new) : e.peer = f.peer => e = f
    BY <1>3, <2>1
  <2> QED
    BY <2>1, <2>2, <2>3, SortedFacts
<1> HIDE DEF In, space
<1>8. ASSUME NEW b \in 1..num_new
      PROVE  new[b] \in Vector /\ new[b].data = In(b)
  <2>1. Len(In(b)) \in Nat
    BY <1>7
  <2>2. Room(Len(In(b)), space) \in Nat /\ Len(In(b)) <= Room(Len(In(b)), space)
    BY <1>5, <2>1, RoomFacts
  <2> DEFINE rest == Room(Len(In(b)), space)
  <2>3. new[b] = [data |-> In(b), space |-> rest]
    OBVIOUS
  <2> HIDE DEF rest, new
  <2>4. rest \in Nat /\ Len(In(b)) <= rest
    BY <2>2 DEF rest
  <2> QED
    BY <1>7, <2>3, <2>4 DEF Vector
<1>9. new = [b \in 1..num_new |-> new[b]]
  OBVIOUS
<1> HIDE DEF new
<1>10. new \in Seq(Vector) /\ Len(new) = num_new /\ DOMAIN new = 1..num_new
  BY <1>1, <1>8, <1>9
<1>11. Placed(new)
  <2> SUFFICES ASSUME NEW b \in 1..num_new, NEW i \in DOMAIN new[b].data
               PROVE  Bucket(new[b].data[i].peer, num_new) = b
    BY <1>10 DEF Placed
  <2>1. new[b].data[i] \in Gets(l, b, num_new)
    BY <1>7, <1>8 DEF ToSet
  <2> QED
    BY <2>1 DEF Gets
<1>12. PeersOK(u) /\ Buckets(u) = new
  <2>1. CASE num_new > 1
    <3>1. u = [data |-> new, space |-> 0] /\ u.data = new /\ u.space = 0
      BY <2>1
    <3> HIDE DEF u
    <3>2. u \in [data : Seq(Vector), space : {0}] /\ Len(u.data) \in {FewBuckets, ManyBuckets}
      BY <1>10, <2>1, <3>1
    <3>3. HasBuckets(u)
      BY <1>1, <1>10, <3>1 DEF HasBuckets
    <3>4. Buckets(u) = new
      BY <3>1, <3>3 DEF Buckets
    <3> QED
      BY <1>11, <3>2, <3>4 DEF PeersOK, Shaped
  <2>2. CASE ~(num_new > 1)
    <3>1. num_new = 1
      BY <1>1, <2>2
    <3>2. u = new[1] /\ new[1] \in Vector /\ new = <<new[1]>>
      BY <1>8, <1>10, <3>1
    <3> HIDE DEF u
    <3>3. ~HasBuckets(u)
      BY <3>2, VectorFacts DEF HasBuckets
    <3>4. Buckets(u) = new
      BY <3>2, <3>3 DEF Buckets
    <3> QED
      BY <1>11, <3>2, <3>4 DEF PeersOK, Shaped
  <2> QED
    BY <2>1, <2>2
<1> HIDE DEF u, m
<1>13. Entries(u) = UNION {ToSet(new[b].data) : b \in 1..num_new}
  BY <1>10, <1>12 DEF Entries
<1>14. Entries(u) = E
  <2>1. \A e : e \in Entries(u) <=> \E b \in 1..num_new : e \in Gets(l, b, num_new)
    BY <1>7, <1>8, <1>13
  <2>2. \A e \in E : Bucket(e.peer, num_new) \in 1..num_new
    BY <1>1, <1>3, PeerEntryFacts, BucketFacts
  <2>3. \A e : e \in Entries(u) <=> e \in E
    BY <2>1, <2>2 DEF Gets
  <2> QED
    BY <2>3, SameSet
<1>15. Cardinality(Places(u)) = Cardinality(Entries(u))
  BY <1>12, EntriesFacts
<1>16. m.peers = u /\ m.peer_count = Cardinality(Places(u)) /\ m = [peer_count |-> m.peer_count, peers |-> m.peers]
  BY <1>2, <1>3, <1>6, <1>14, <1>15
<1> QED
  BY <1>10, <1>12, <1>14, <1>16 DEF ListOK, m

\* A cleaning drops the peers that are overdue, and no others, whatever number of buckets is left.
LEMMA CleanFacts ==
    ASSUME VectorIInv, NEW overdue, Clean(overdue)
    PROVE  /\ ListOK(list') /\ AllCalm(list.peers, list'.peers)
           /\ overdue \subseteq Known /\ answer' = "cleaned"
           /\ Entries(list'.peers) = {e \in Entries(list.peers) : e.peer \notin overdue}
<1> DEFINE v == list.peers
           cleaned == [b \in DOMAIN Buckets(v) |-> clean_single_bucket(Buckets(v)[b], overdue)]
           u == Together(v, cleaned)
           l == [peer_count |-> list.peer_count - (Cardinality(Places(v)) - Cardinality(Places(u))),
                 peers |-> u]
           num_old == Len(Buckets(u))
           num_new == num_buckets_new(l.peer_count, num_old)
<1>1. PeersOK(v) /\ list = [peer_count |-> list.peer_count, peers |-> v]
      /\ list.peer_count = Cardinality(Places(v))
  BY DEF VectorIInv, ListOK
<1>2. PeersOK(u) /\ AllCalm(v, u) /\ num_old = Len(Buckets(v)) /\ Entries(u) = {e \in Entries(v) : e.peer \notin overdue}
  BY <1>1, CleanedFacts
<1>3. /\ overdue \subseteq Known /\ answer' = "cleaned"
      /\ \/ list' \in vector_redistribute_buckets(l)
         \/ list' = l
  BY DEF Clean, Together
<1> HIDE DEF u
<1>4. l.peers = u /\ l.peer_count = Cardinality(Places(u)) /\ l = [peer_count |-> l.peer_count, peers |-> u]
  <2>1. Cardinality(Places(v)) \in Nat /\ Cardinality(Places(u)) \in Nat
    BY <1>1, <1>2, EntriesFacts, FS_CardinalityType
  <2> QED
    BY <1>1, <2>1
<1>5. ListOK(l)
  BY <1>2, <1>4 DEF ListOK
<1> HIDE DEF l
<1>6. list' = l \/ (list' = Redistributed(l, num_new) /\ num_new # num_old)
  BY <1>3, <1>4 DEF vector_redistribute_buckets
<1>7. CASE list' = l
  BY <1>2, <1>3, <1>4, <1>5, <1>7
<1>8. CASE list' = Redistributed(l, num_new) /\ num_new # num_old
  <2>1. l.peer_count \in Nat /\ num_old \in {1, FewBuckets, ManyBuckets}
    <3>1. IsFiniteSet(Places(u))
      BY <1>2, EntriesFacts
    <3> QED
      BY <1>2, <1>4, <3>1, FS_CardinalityType, BucketsFacts DEF PeersOK
  <2>2. num_new \in {1, FewBuckets, ManyBuckets}
    BY <2>1, NumBucketsFacts
  <2>3. ListOK(list') /\ Entries(list'.peers) = Entries(u) /\ Len(Buckets(list'.peers)) = num_new
    BY <1>4, <1>5, <1>8, <2>2, RedistributedFacts
  <2>4. num_old = Len(Buckets(v))
    BY <1>2
  <2>5. AllCalm(v, list'.peers)
    BY <1>8, <2>3, <2>4 DEF AllCalm
  <2> QED
    BY <1>2, <1>3, <2>3, <2>5
<1> QED
  BY <1>6, <1>7, <1>8

-----------------------------------------------------------------------------
(* The vectors of peers: the theorems *)

\* Every call leaves a list that is as it should be, and no array is about to do the opposite of
\* what the call did.
LEMMA StepFacts ==
    ASSUME VectorIInv, [Next]_vars
    PROVE  VectorIInv' /\ AllCalm(list.peers, list'.peers)
<1>1. ASSUME NEW p \in Peers, NEW seeds \in BOOLEAN, Announce(p, seeds)
      PROVE  VectorIInv' /\ AllCalm(list.peers, list'.peers)
  BY <1>1, AnnounceFacts DEF VectorIInv
<1>2. ASSUME NEW p \in Peers, Stop(p)
      PROVE  VectorIInv' /\ AllCalm(list.peers, list'.peers)
  BY <1>2, StopFacts DEF VectorIInv
<1>3. ASSUME NEW overdue \in SUBSET Known, Clean(overdue)
      PROVE  VectorIInv' /\ AllCalm(list.peers, list'.peers)
  BY <1>3, CleanFacts DEF VectorIInv
<1>4. CASE UNCHANGED vars
  BY <1>4, SameAllCalm DEF VectorIInv, ListOK, vars
<1> QED
  BY <1>1, <1>2, <1>3, <1>4 DEF Next

\* A list without peers is as it should be.
LEMMA InitFacts ==
    ASSUME Init
    PROVE  VectorIInv /\ Entries(list.peers) = {}
<1>1. list = [peer_count |-> 0, peers |-> NoVector] /\ list.peers = NoVector /\ list.peer_count = 0
  BY DEF Init
<1>2. NoVector \in Vector /\ NoVector.data = <<>>
  BY DEF NoVector, Vector, Ascending
<1>3. ~HasBuckets(NoVector)
  BY DEF HasBuckets, NoVector
<1>4. Buckets(NoVector) = <<NoVector>>
  BY <1>3 DEF Buckets
<1>5. DOMAIN Buckets(NoVector) = {1} /\ Buckets(NoVector)[1] = NoVector
  BY <1>4
<1>6. DOMAIN NoVector.data = {} /\ ToSet(NoVector.data) = {}
  BY <1>2 DEF ToSet
<1>7. Placed(Buckets(NoVector))
  BY <1>5, <1>6 DEF Placed
<1>8. Places(NoVector) = {} /\ Entries(NoVector) = {}
  BY <1>5, <1>6 DEF Places, Entries
<1>9. Cardinality(Places(NoVector)) = 0
  BY <1>8, FS_EmptySet
<1> QED
  BY <1>1, <1>2, <1>7, <1>8, <1>9 DEF VectorIInv, ListOK, PeersOK, Shaped

\* Every state has a list whose arrays are in order and have room, each with the peers of its hash,
\* and whose counter is the number of entries of all of them.
THEOREM VectorInvariance == Spec => []VectorIInv
<1>1. Init => VectorIInv
  BY InitFacts
<1>2. VectorIInv /\ [Next]_vars => VectorIInv'
  BY StepFacts
<1> QED
  BY <1>1, <1>2, PTL DEF Spec

\* What the invariant says of a list.
LEMMA VectorsExactFacts ==
    ASSUME VectorIInv
    PROVE  VectorsExact
<1> DEFINE v == list.peers
           E == Entries(v)
<1>1. PeersOK(v) /\ Shaped(v) /\ list.peer_count = Cardinality(Places(v))
  BY DEF VectorIInv, ListOK, PeersOK
<1>2. /\ E \subseteq PeerEntry /\ IsFiniteSet(E)
      /\ \A e, f \in E : e.peer = f.peer => e = f
      /\ Cardinality(Places(v)) = Cardinality(E)
      /\ Cardinality({e.peer : e \in E}) = Cardinality(E)
  BY <1>1, EntriesFacts
<1>3. Known = {e.peer : e \in E} /\ Known \subseteq Peers
  BY <1>2, PeerEntryFacts DEF Known
<1>4. list.peer_count = Cardinality(E) /\ list.peer_count = Cardinality(Known)
  BY <1>1, <1>2, <1>3
<1>5. list.peer_count \in 0..Cardinality(Peers)
  <2>1. IsFiniteSet(Peers)
    BY PeersAssumption
  <2>2. IsFiniteSet(Known) /\ Cardinality(Known) <= Cardinality(Peers)
    BY <1>3, <2>1, FS_Subset
  <2>3. Cardinality(Known) \in Nat /\ Cardinality(Peers) \in Nat
    BY <2>1, <2>2, FS_CardinalityType
  <2> QED
    BY <1>4, <2>2, <2>3
<1>6. \A b \in DOMAIN Buckets(v) : Buckets(v)[b] \in Vector
  BY <1>1, BucketTyped, BucketsFacts
<1>7. TypeOK
  <2>1. list.peers.space \in Nat
    BY <1>1 DEF Shaped, Vector
  <2>2. \A b \in DOMAIN Buckets(v) : VectorType(Buckets(v)[b])
    BY <1>6, VectorFacts DEF VectorType, PeerEntry
  <2> QED
    BY <1>1, <1>5, <2>1, <2>2, BucketsFacts DEF TypeOK
<1>8. ASSUME NEW e \in E
      PROVE  LET data == Home(v, e.peer).data
                 match == binary_search(e.peer, data)
             IN match.exactmatch /\ data[match.at] = e
  <2> DEFINE data == Home(v, e.peer).data
             match == binary_search(e.peer, data)
  <2>1. e.peer \in Peers /\ e.peer \in {f.peer : f \in E}
    BY <1>2, PeerEntryFacts
  <2>2. /\ match.exactmatch <=> e.peer \in {f.peer : f \in E}
        /\ match.exactmatch => data[match.at].peer = e.peer /\ data[match.at] \in E
    BY <1>1, <2>1, MatchFacts
  <2> HIDE DEF match, data
  <2>3. match.exactmatch /\ data[match.at] = e
    BY <1>2, <2>1, <2>2
  <2> QED
    BY <2>3 DEF match, data
<1>9. FoundAndCounted
  BY <1>1, <1>4, <1>8 DEF FoundAndCounted
<1>10. RoomForAll
  BY <1>6, VectorFacts DEF RoomForAll
<1>11. BucketsSettle
  <2>1. list.peer_count \in Nat
    BY <1>5
  <2> QED
    BY <1>1, <2>1, BucketsFacts, NumBucketsFacts DEF BucketsSettle
<1> QED
  BY <1>7, <1>9, <1>10, <1>11 DEF VectorsExact

\* Whatever calls were made, every peer is found where the search looks for it and is counted once,
\* every array has room for what it holds, and the number of buckets is settled.
THEOREM VectorsCorrect == Spec => []VectorsExact
<1>1. VectorIInv => VectorsExact
  BY VectorsExactFacts
<1> QED
  BY <1>1, VectorInvariance, PTL

\* No insertion is followed by a removal, nor a removal by an insertion, that has to undo its
\* change of an array's space.
THEOREM NoThrashingHolds == Spec => NoThrashing
<1>1. VectorIInv /\ [Next]_vars =>
        (Len(Buckets(list'.peers)) = Len(Buckets(list.peers)) =>
           \A b \in DOMAIN Buckets(list.peers) :
             LET old == Buckets(list.peers)[b]
                 new == Buckets(list'.peers)[b]
                 used == Len(new.data)
             IN /\ new.space > old.space => used = 1 \/ ~TooLarge(used - 1, new.space)
                /\ new.space < old.space => used = 0 \/ used < new.space)
  BY StepFacts DEF AllCalm, Calm
<1> QED
  BY <1>1, VectorInvariance, PTL DEF Spec, NoThrashing

-----------------------------------------------------------------------------
(* The vectors of peers as a set *)

\* The peers of entries E as the set of them that PeerSet is about.
SetOf(E) == [p \in {e.peer : e \in E} |-> [peer |-> p, seeding |-> TRUE] \in E]

\* Entries E with one for peer p and no other.
WithEntry(E, p, seeds) == {e \in E : e.peer # p} \cup {[peer |-> p, seeding |-> seeds]}

\* An entry in the place of another one of its peer, or as one more, is what PeerSet's Announce does.
LEMMA SetOfAnnounced ==
    ASSUME NEW E \in SUBSET PeerEntry, NEW p \in Peers, NEW seeds \in BOOLEAN
    PROVE  SetOf(WithEntry(E, p, seeds)) =
             [q \in {e.peer : e \in E} \cup {p} |-> IF q = p THEN seeds ELSE SetOf(E)[q]]
<1> DEFINE F == WithEntry(E, p, seeds)
           K == {e.peer : e \in E}
           L == {e.peer : e \in F}
           new == [peer |-> p, seeding |-> seeds]
           yes(q) == [peer |-> q, seeding |-> TRUE]
<1>1. new.peer = p /\ new.seeding = seeds
  OBVIOUS
<1>2. \A q : yes(q).peer = q /\ yes(q).seeding = TRUE
  OBVIOUS
<1>3. yes(p) = new <=> seeds
  <2>1. CASE seeds = TRUE
    BY <2>1
  <2>2. CASE seeds = FALSE
    BY <1>1, <1>2, <2>2
  <2> QED
    BY <2>1, <2>2
<1>4. F = {e \in E : e.peer # p} \cup {new}
  BY DEF WithEntry
<1> HIDE DEF yes, new, F
<1>5. \A q : q \in L <=> q \in K \cup {p}
  <2> SUFFICES ASSUME NEW q PROVE q \in L <=> q \in K \cup {p}
    OBVIOUS
  <2>1. ASSUME q \in L PROVE q \in K \cup {p}
    BY <1>1, <1>4, <2>1
  <2>2. ASSUME q \in K, q # p PROVE q \in L
    BY <1>4, <2>2
  <2>3. ASSUME q = p PROVE q \in L
    BY <1>1, <1>4, <2>3
  <2> QED
    BY <2>1, <2>2, <2>3
<1>6. L = K \cup {p}
  BY <1>5, SameSet
<1>7. ASSUME NEW q \in K, q # p PROVE yes(q) \in F <=> yes(q) \in E
  <2>1. yes(q).peer # p /\ yes(q) # new
    BY <1>1, <1>2, <1>7
  <2> QED
    BY <1>4, <2>1
<1>8. yes(p) \in F <=> seeds
  <2>1. yes(p).peer = p
    BY <1>2
  <2> QED
    BY <1>3, <1>4, <2>1
<1>9. SetOf(F) = [q \in K \cup {p} |-> yes(q) \in F]
  BY <1>6 DEF SetOf, yes
<1>10. ASSUME NEW q \in K \cup {p}
       PROVE  (yes(q) \in F) = IF q = p THEN seeds ELSE SetOf(E)[q]
  <2>1. CASE q = p
    BY <1>8, <2>1
  <2>2. CASE q # p
    <3>1. q \in K
      BY <2>2
    <3>2. SetOf(E)[q] = (yes(q) \in E)
      BY <3>1 DEF SetOf, yes
    <3>3. (yes(q) \in F) = (yes(q) \in E)
      BY <1>7, <2>2, <3>1
    <3> QED
      BY <2>2, <3>2, <3>3
  <2> QED
    BY <2>1, <2>2
<1> HIDE DEF K
<1>11. SetOf(F) = [q \in K \cup {p} |-> IF q = p THEN seeds ELSE SetOf(E)[q]]
  BY <1>9, <1>10
<1> QED
  BY <1>11 DEF K, F

\* Entries dropped with their peers are peers dropped.
LEMMA SetOfLeft ==
    ASSUME NEW E \in SUBSET PeerEntry, NEW gone
    PROVE  SetOf({e \in E : e.peer \notin gone}) = Restrict(SetOf(E), {e.peer : e \in E} \ gone)
<1> DEFINE K == {e.peer : e \in E}
           F == {e \in E : e.peer \notin gone}
           yes(q) == [peer |-> q, seeding |-> TRUE]
<1>1. \A q : q \in {e.peer : e \in F} <=> q \in K \ gone
  OBVIOUS
<1>2. {e.peer : e \in F} = K \ gone
  BY <1>1, SameSet
<1>3. SetOf(F) = [q \in K \ gone |-> yes(q) \in F]
  BY <1>2 DEF SetOf
<1>4. \A q : yes(q).peer = q
  OBVIOUS
<1> HIDE DEF yes
<1>5. ASSUME NEW q \in K \ gone PROVE (yes(q) \in F) = SetOf(E)[q]
  <2>1. SetOf(E)[q] = (yes(q) \in E)
    BY DEF SetOf, yes
  <2>2. yes(q) \in F <=> yes(q) \in E
    BY <1>4
  <2> QED
    BY <2>1, <2>2
<1> HIDE DEF F, K
<1>6. SetOf(F) = [q \in K \ gone |-> SetOf(E)[q]]
  BY <1>3, <1>5
<1> QED
  BY <1>6 DEF Restrict, F, K

\* The steps of the vectors are steps of the set.
LEMMA SetSteps ==
    ASSUME VectorIInv, [Next]_vars
    PROVE  [Abstract!Next]_Abstract!vars
<1> DEFINE E == Entries(list.peers)
           F == Entries(list'.peers)
           seeding == [p \in Known |-> [peer |-> p, seeding |-> TRUE] \in Entries(list.peers)]
<1>1. seeding = SetOf(E) /\ seeding' = SetOf(F)
  BY DEF Known, SetOf
<1>2. Abstract!Known = Known /\ Known = {e.peer : e \in E}
  BY DEF Known, Abstract!Known
<1>3. E \in SUBSET PeerEntry
  BY EntriesFacts DEF VectorIInv, ListOK
<1>4. ASSUME NEW p \in Peers, NEW seeds \in BOOLEAN, Announce(p, seeds) PROVE Abstract!Next
  <2>1. CASE /\ answer' = IF p \in Known THEN "renewed" ELSE "added"
             /\ F = {e \in E : e.peer # p} \cup {[peer |-> p, seeding |-> seeds]}
    <3>1. seeding' = [q \in Abstract!Known \cup {p} |-> IF q = p THEN seeds ELSE seeding[q]]
      <4> HIDE DEF E, F
      <4>1. SetOf(F) = [q \in {e.peer : e \in E} \cup {p} |-> IF q = p THEN seeds ELSE SetOf(E)[q]]
        <5>1. F = WithEntry(E, p, seeds)
          BY <2>1 DEF WithEntry
        <5> QED
          BY <1>3, <5>1, SetOfAnnounced
      <4> HIDE DEF seeding
      <4> QED
        BY <1>1, <1>2, <4>1
    <3>2. Abstract!Announce(p, seeds)
      BY <1>2, <2>1, <3>1 DEF Abstract!Announce
    <3> QED
      BY <3>2 DEF Abstract!Next
  <2>2. CASE p \notin Known /\ answer' = "failed" /\ list' = list
    <3>1. seeding' = seeding
      BY <1>1, <2>2
    <3>2. Abstract!Refuse(p)
      BY <1>2, <2>2, <3>1 DEF Abstract!Refuse
    <3> QED
      BY <3>2 DEF Abstract!Next
  <2> QED
    BY <1>4, <2>1, <2>2, AnnounceFacts
<1>5. ASSUME NEW p \in Peers, Stop(p) PROVE Abstract!Next
  <2>1. /\ F = {e \in E : e.peer \notin {p}}
        /\ p \notin Known => answer' = "nobody"
        /\ p \in Known => answer' = IF [peer |-> p, seeding |-> TRUE] \in E THEN "a seeder" ELSE "a peer"
    BY <1>5, StopFacts
  <2>2. seeding' = Restrict(seeding, Abstract!Known \ {p})
    BY <1>1, <1>2, <1>3, <2>1, SetOfLeft
  <2>3. p \in Known => seeding[p] = ([peer |-> p, seeding |-> TRUE] \in E)
    OBVIOUS
  <2>4. answer' = CASE p \notin Abstract!Known -> "nobody"
                    [] p \in Abstract!Known /\ ~seeding[p] -> "a peer"
                    [] p \in Abstract!Known /\ seeding[p] -> "a seeder"
    <3> HIDE DEF seeding
    <3>1. CASE p \notin Known
      BY <1>2, <2>1, <3>1
    <3>2. CASE p \in Known /\ seeding[p]
      BY <1>2, <2>1, <2>3, <3>2
    <3>3. CASE p \in Known /\ ~seeding[p]
      BY <1>2, <2>1, <2>3, <3>3
    <3> QED
      BY <3>1, <3>2, <3>3
  <2>5. Abstract!Stop(p)
    BY <2>2, <2>4 DEF Abstract!Stop, Abstract!Restrict, Restrict
  <2> QED
    BY <2>5 DEF Abstract!Next
<1>6. ASSUME NEW overdue \in SUBSET Known, Clean(overdue) PROVE Abstract!Next
  <2>1. answer' = "cleaned" /\ F = {e \in E : e.peer \notin overdue}
    BY <1>6, CleanFacts
  <2>2. seeding' = Restrict(seeding, Abstract!Known \ overdue)
    BY <1>1, <1>2, <1>3, <2>1, SetOfLeft
  <2>3. Abstract!Clean(overdue) /\ overdue \in SUBSET Abstract!Known
    BY <1>2, <2>1, <2>2 DEF Abstract!Clean, Abstract!Restrict, Restrict
  <2> QED
    BY <2>3 DEF Abstract!Next
<1>7. CASE UNCHANGED vars
  <2>1. seeding' = seeding /\ answer' = answer
    BY <1>1, <1>7 DEF vars
  <2> QED
    BY <2>1 DEF Abstract!vars
<1> QED
  BY <1>4, <1>5, <1>6, <1>7 DEF Next

\* Whatever is announced, stopped or cleaned, and wherever memory is short, the vectors of a
\* torrent are the set of peers that the operations on it take them for.
THEOREM RefinesSet == Spec => ImplementsSet
<1>1. Init => Abstract!Init
  <2> SUFFICES ASSUME Init PROVE Abstract!Init
    OBVIOUS
  <2>1. Known = {}
    BY InitFacts DEF Known
  <2> QED
    BY <2>1 DEF Init, Abstract!Init
<1>2. VectorIInv /\ [Next]_vars => [Abstract!Next]_Abstract!vars
  BY SetSteps
<1> QED
  BY <1>1, <1>2, VectorInvariance, PTL DEF Spec, ImplementsSet, Abstract!Spec
=============================================================================
