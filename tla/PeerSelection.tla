--------------------------- MODULE PeerSelection ----------------------------
(***************************************************************************)
(* return_peers_for_torrent of src/src/opentracker/trackerlogic.c: which   *)
(* peers of a torrent an announce is answered with.                        *)
(*                                                                         *)
(* The peers of a torrent are in one vector or in several, its buckets.  A *)
(* client that asks for no fewer peers than there are gets all of them.    *)
(* Otherwise return_peers_selection walks around the buckets once, from a  *)
(* random place, in random steps whose longest lengths add up to the       *)
(* number of peers in fixed-point arithmetic.  The reply is filled from    *)
(* the front with peers that download and from the back with seeders.      *)
(*                                                                         *)
(* A peer is named by its bucket and its place there.                      *)
(***************************************************************************)
EXTENDS Integers, Sequences, FiniteSets

CONSTANTS
    Layouts,     \* the sizes of the buckets, as sequences
    MaxAmount,   \* bound: peers a client asks for
    MAXPRECBIT   \* a power of two, 2^29 in the code

\* The peers of a torrent with buckets of these sizes.
SlotsOf(sizes) == UNION {{b} \X (0..(sizes[b] - 1)) : b \in 1..Len(sizes)}

ASSUME LayoutsAssumption == \A sizes \in Layouts : sizes # <<>> /\ sizes \in Seq(Nat)
ASSUME AmountAssumption == MaxAmount \in Nat
\* The number of peers fits in the bits below and at MAXPRECBIT.
ASSUME PrecisionAssumption ==
    /\ MAXPRECBIT \in Nat \ {0}
    /\ \A sizes \in Layouts : Cardinality(SlotsOf(sizes)) < 2 * MAXPRECBIT

VARIABLES
    size,           \* the sizes of the buckets, bucket_list[i].size
    seeders,        \* the peers that seed
    wanted,         \* how many peers the reply has room for
    pc,             \* where return_peers_for_torrent is
    amount,         \* the peers still to be picked
    shift,          \* the factor 2^shift of the fixed-point numbers
    shifted_step,   \* the number of peers for one pick, times that factor
    bucket_index,   \* the bucket the walk is in (from 1)
    bucket_offset,  \* and the place in it (from 0)
    reply,          \* the peers written so far, by place
    r, r_end        \* the first place not written from the front, the last one not from the back

cursor == <<bucket_index, bucket_offset>>
written == <<reply, r, r_end>>
selectionVars == <<size, seeders, wanted, pc, amount, shift, shifted_step, cursor, written>>

num_buckets == Len(size)
Slots == SlotsOf(size)
peer_count == Cardinality(Slots)

SelectionInit ==
    /\ size \in Layouts
    /\ seeders \in SUBSET Slots
    /\ \E asked \in 0..MaxAmount : wanted = IF asked > peer_count THEN peer_count ELSE asked
    /\ pc = CASE wanted = 0          -> "done"
              [] wanted = peer_count -> "all"
              [] OTHER               -> "scale"
    /\ amount = wanted
    /\ shift = 1
    /\ shifted_step = peer_count
    /\ bucket_index = 1
    /\ bucket_offset = 0
    /\ reply = [i \in {} |-> 0]
    /\ r = 1
    /\ r_end = wanted

-----------------------------------------------------------------------------

\* Mutant: the room for seeders does not shrink.
Write_SeederOver(peer) ==
    IF peer \in seeders
    THEN reply' = [i \in DOMAIN reply \cup {r_end} |-> IF i = r_end THEN peer ELSE reply[i]]
         /\ UNCHANGED <<r, r_end>>
    ELSE reply' = [i \in DOMAIN reply \cup {r} |-> IF i = r THEN peer ELSE reply[i]]
         /\ r' = r + 1 /\ UNCHANGED r_end

\* A seeder is written at the back of the reply, another peer at the front.
Write(peer) ==
    LET at == IF peer \in seeders THEN r_end ELSE r IN
    /\ reply' = [i \in DOMAIN reply \cup {at} |-> IF i = at THEN peer ELSE reply[i]]
    /\ IF peer \in seeders THEN r_end' = r_end - 1 /\ UNCHANGED r
                           ELSE r' = r + 1 /\ UNCHANGED r_end

\* return_peers_all: the next peer of the buckets in their order.
All ==
    /\ pc = "all"
    /\ bucket_index <= num_buckets
    /\ IF bucket_offset < size[bucket_index]
       THEN /\ Write(<<bucket_index, bucket_offset>>)
            /\ bucket_offset' = bucket_offset + 1
            /\ UNCHANGED bucket_index
       ELSE /\ bucket_index' = bucket_index + 1
            /\ bucket_offset' = 0
            /\ UNCHANGED written
    /\ UNCHANGED <<size, seeders, wanted, pc, amount, shift, shifted_step>>

AllEnd ==
    /\ pc = "all"
    /\ bucket_index > num_buckets
    /\ pc' = "done"
    /\ UNCHANGED <<size, seeders, wanted, amount, shift, shifted_step, cursor, written>>

-----------------------------------------------------------------------------

\* return_peers_selection: shift the number of peers until the highest bit is set.
Scale ==
    /\ pc = "scale"
    /\ (shifted_step \div MAXPRECBIT) % 2 = 0
    /\ shifted_step' = 2 * shifted_step
    /\ shift' = 2 * shift
    /\ UNCHANGED <<size, seeders, wanted, pc, amount, cursor, written>>

\* The peers for one pick.
Step(shifted_pc) == shifted_pc \div amount

\* It is set: the length of a step and the place to start from are known.
Begin ==
    /\ pc = "scale"
    /\ (shifted_step \div MAXPRECBIT) % 2 = 1
    /\ shifted_step' = Step(shifted_step)
    /\ bucket_offset' \in 0..(peer_count - 1)
    /\ pc' = "pick"
    /\ UNCHANGED <<size, seeders, wanted, amount, shift, bucket_index, written>>

\* Mutant: the range is a peer too long.
diff_TooLong == ((amount * shifted_step) \div shift) - (((amount - 1) * shifted_step) \div shift) + 1

\* Mutant: the shifts are counted from one.
diff_ShiftOff ==
    ((amount * shifted_step) \div (2 * shift)) - (((amount - 1) * shifted_step) \div (2 * shift))

\* The range the next pick may fall into (amount has not been decremented yet).
diff == ((amount * shifted_step) \div shift) - (((amount - 1) * shifted_step) \div shift)

\* The next pick is a random number of peers further on.
Advance ==
    /\ pc = "pick"
    /\ amount > 0
    /\ \E random \in 0..(diff - 1) : bucket_offset' = bucket_offset + 1 + random
    /\ amount' = amount - 1
    /\ pc' = "walk"
    /\ UNCHANGED <<size, seeders, wanted, shift, shifted_step, bucket_index, written>>

\* Mutant: the walk does not return to the first bucket.
NextBucket_Last(b) == b + 1

\* Mutant: the peers of the bucket are not counted off.
WalkOn_Keep ==
    /\ pc = "walk"
    /\ bucket_offset >= size[bucket_index]
    /\ bucket_index' = (bucket_index % num_buckets) + 1
    /\ UNCHANGED <<size, seeders, wanted, pc, amount, shift, shifted_step, bucket_offset, written>>

\* The bucket after bucket b.
NextBucket(b) == (b % num_buckets) + 1

\* The pick is not in this bucket.
WalkOn ==
    /\ pc = "walk"
    /\ bucket_offset >= size[bucket_index]
    /\ bucket_offset' = bucket_offset - size[bucket_index]
    /\ bucket_index' = NextBucket(bucket_index)
    /\ UNCHANGED <<size, seeders, wanted, pc, amount, shift, shifted_step, written>>

\* It is: write the peer.
Pick ==
    /\ pc = "walk"
    /\ bucket_offset < size[bucket_index]
    /\ Write(<<bucket_index, bucket_offset>>)
    /\ pc' = "pick"
    /\ UNCHANGED <<size, seeders, wanted, amount, shift, shifted_step, cursor>>

PickEnd ==
    /\ pc = "pick"
    /\ amount = 0
    /\ pc' = "done"
    /\ UNCHANGED <<size, seeders, wanted, amount, shift, shifted_step, cursor, written>>

Finished == pc = "done" /\ UNCHANGED selectionVars

SelectionNext ==
    \/ All \/ AllEnd
    \/ Scale \/ Begin \/ Advance \/ WalkOn \/ Pick \/ PickEnd
    \/ Finished

SelectionSpec == SelectionInit /\ [][SelectionNext]_selectionVars

\* The function runs on: it waits for nothing.
SelectionRunsOn == WF_selectionVars(SelectionNext)

-----------------------------------------------------------------------------

SelectionTypeOK ==
    /\ size \in Layouts
    /\ seeders \subseteq Slots
    /\ wanted \in 0..peer_count
    /\ pc \in {"all", "scale", "pick", "walk", "done"}
    /\ amount \in 0..wanted
    /\ shift \in Nat \ {0}
    /\ shifted_step \in 0..(2 * MAXPRECBIT - 1)
    /\ bucket_index \in 1..(num_buckets + 1)
    /\ bucket_index > num_buckets => pc \in {"all", "done"}
    /\ bucket_offset \in 0..(2 * peer_count)
    /\ \A i \in DOMAIN reply : i \in 1..wanted /\ reply[i] \in Slots
    /\ r \in 1..(wanted + 1) /\ r_end \in 0..wanted

\* No peer is sent twice: with the longest possible steps the walk does not come back to
\* where it began, whatever the fixed-point numbers lose and however many buckets are empty.
PicksDistinct == \A i, k \in DOMAIN reply : reply[i] = reply[k] => i = k

\* The range of a random step is never empty: the code divides by its length.
RangeNotEmpty == pc = "pick" /\ amount > 0 => diff > 0

\* The finished reply has a peer in every place it announced to the client, those that download
\* before the seeders: the two ends meet.
ReplyFull ==
    pc = "done" =>
      /\ DOMAIN reply = 1..wanted
      /\ \A i \in 1..wanted : reply[i] \in seeders <=> i >= r

\* The loops end: the scaling, and the walk over empty buckets, which ends because peer_count is
\* the number of peers in the buckets.
Ends == <>(pc = "done")

\* What the function owes its caller, whatever the random numbers, the layout of the buckets and
\* the number of peers asked for: a full reply without a peer twice, and no division by zero.
SelectionExact == SelectionTypeOK /\ PicksDistinct /\ RangeNotEmpty /\ ReplyFull
=============================================================================
