---------------------------- MODULE MCSyncStream -----------------------------
(* Instances of SyncStream for TLC. *)
EXTENDS SyncStream, TLC

\* All but HashD are in one bucket.
HashA == <<1, 0, 1>>
HashB == <<1, 2, 3>>
HashD == <<1, 5, 0>>
Few(c) == <<1, 1, c>>
MCHashes == {HashA, HashB, HashD} \cup {Few(c) : c \in 0..7}

\* Nine torrents with one peer: their number takes both bytes of the header.
Many == [h \in {HashA} \cup {Few(c) : c \in 0..7} |-> {<<1, 0>>}]
\* One, two and four peers: four take two bytes, and HashB is the last of a type 0 block.
Mixed == (HashA :> {<<a, 1>> : a \in 1..4}) @@ (HashB :> {<<1, 0>>}) @@ (HashD :> {<<2, 0>>, <<3, 1>>})
\* Blocks of types 1, 2 and 0 in one bucket.
Three == (HashA :> {<<1, 0>>, <<2, 0>>}) @@ (HashB :> {<<1, 1>>, <<3, 0>>}) @@ (Few(7) :> {<<1, 0>>})
             @@ (Few(5) :> {<<1, 0>>, <<2, 0>>, <<3, 0>>}) @@ (Few(6) :> {<<2, 0>>})
\* One torrent is longer than indata; the other one, of another bucket, is not.
Long == (HashA :> {<<a, 1>> : a \in 1..5}) @@ (HashD :> {<<a, 1>> : a \in 1..3})
MCStarts == {Many, Mixed, Three, Long, << >>}

MCAnnounced == [hash : {HashA}, peer : {<<1, 0>>, <<1, 2>>}] \cup [hash : {HashB}, peer : {<<5, 1>>}]

StreamSpec == StreamInit /\ [][StreamNext]_streamVars
=============================================================================
