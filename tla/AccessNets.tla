----------------------------- MODULE AccessNets -----------------------------
(***************************************************************************)
(* Lists of networks an address is looked up in (ot_accesslist.c): a       *)
(* sorted array of networks that do not overlap, searched for the last one *)
(* that begins at or before the address.                                   *)
(*                                                                         *)
(* An address is BYTES bytes of BITS bits.  A network is given with the    *)
(* bits behind its prefix zero: address_in_net compares them.              *)
(***************************************************************************)
EXTENDS Integers, Sequences, SequencesExt, SortedSets

CONSTANTS
    BITS, BYTES,   \* 8 bits, 16 bytes
    Given,         \* bound: networks that are added
    MaxNets        \* bound: how many

VARIABLES
    vector,        \* the array of networks
    adds,          \* how many have been given
    members        \* the networks that are in the list, by what the header promises

netVars == <<vector, adds, members>>

AllAddresses == [1..BYTES -> 0..(2 ^ BITS - 1)]
Number(a) == FoldLeft(LAMBDA n, b : n * 2 ^ BITS + b, 0, a)

\* A network as the addresses it stands for.
Range_of(net) == Number(net.address) \div 2 ^ (BITS * BYTES - net.bits)
In(a, net) == Number(a) \div 2 ^ (BITS * BYTES - net.bits) = Range_of(net)
Overlap(x, y) == In(x.address, y) \/ In(y.address, x)

Nets == {net \in [address : AllAddresses, bits : 0..(BITS * BYTES)] :
            Number(net.address) % 2 ^ (BITS * BYTES - net.bits) = 0}

-----------------------------------------------------------------------------

\* Mutant: the mask has a bit too few.
Mask_Short(bits) == (2 ^ BITS - 2 ^ (BITS - (bits % BITS) + 1)) % 2 ^ BITS

\* 0x7f00 >> ( bits & 7 ), of which the low byte is used.
Mask(bits) == (((2 ^ (BITS - 1) - 1) * 2 ^ BITS) \div 2 ^ (bits % BITS)) % 2 ^ BITS

\* Both are prefixes of ones, as masks are here: what of x is under the mask m.
Under(m, x) == x - (x % (2 ^ BITS - m))

address_in_net(a, net) ==
    LET whole == net.bits \div BITS
    IN  /\ SubSeq(a, 1, whole) = SubSeq(net.address, 1, whole)
        /\ net.bits % BITS # 0 => Under(Mask(net.bits), a[whole + 1]) = net.address[whole + 1]

\* binary_search of ot_vector.c, from base on: the match or where it would be.
RECURSIVE Search(_, _, _, _)
Search(key, keys, base, interval) ==
    LET lookat == base + interval \div 2
    IN  IF interval = 0 THEN [at |-> base, exact |-> FALSE]
        ELSE IF keys[lookat] = key THEN [at |-> lookat, exact |-> TRUE]
        ELSE IF Before(keys[lookat], key) THEN Search(key, keys, lookat + 1, (interval - 1) \div 2)
        ELSE Search(key, keys, base, interval \div 2)

binary_search(key, keys) == Search(key, keys, 1, Len(keys))

Whole(net) == Append(net.address, net.bits)
Address(net) == net.address

\* Mutant: only networks that hold the new one are found.
Overlaps_One(net) == \E i \in 1..Len(vector) : address_in_net(net.address, vector[i])

\* Check each net in vector for overlap
Overlaps(net) ==
    \E i \in 1..Len(vector) :
        address_in_net(vector[i].address, net) \/ address_in_net(net.address, vector[i])

\* One step back, unless the address is the first of a network.
get_value_for_net(a) ==
    LET r == binary_search(a, [i \in 1..Len(vector) |-> Address(vector[i])])
        net == IF ~r.exact /\ r.at > 1 THEN r.at - 1 ELSE r.at
    IN  net <= Len(vector) /\ address_in_net(a, vector[net])

-----------------------------------------------------------------------------

NetsInit == vector = <<>> /\ adds = 0 /\ members = {}

\* loglist_add_network
set_value_for_net(net) ==
    /\ adds < MaxNets /\ adds' = adds + 1
    /\ vector' = IF Overlaps(net) THEN vector
                 ELSE InsertAt(vector, binary_search(Whole(net), [i \in 1..Len(vector) |-> Whole(vector[i])]).at, net)
    /\ members' = IF \E m \in members : Overlap(m, net) THEN members ELSE members \cup {net}

loglist_reset ==
    /\ vector # <<>>
    /\ vector' = <<>> /\ members' = {} /\ UNCHANGED adds

NetsNext == (\E net \in Given : set_value_for_net(net)) \/ loglist_reset

-----------------------------------------------------------------------------

NetsTypeOK ==
    /\ vector \in Seq(Nets) /\ adds \in 0..MaxNets
    /\ Range(vector) = members /\ Len(vector) = Cardinality(members)

\* An address is found exactly when one of the networks holds it, whatever networks were
\* given before and in whichever order: prefixes that end inside a byte, neighbours that
\* differ in the last bit, networks in networks, the empty prefix.
LookupExact == \A a \in AllAddresses : get_value_for_net(a) <=> \E m \in members : In(a, m)
=============================================================================
