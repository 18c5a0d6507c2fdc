----------------------------- MODULE SyncStream -----------------------------
(***************************************************************************)
(* How a peer gets from one tracker to another (ot_livesync.c, proxy.c):   *)
(* the tracker at site A tells it to its multicast group, the proxy there  *)
(* collects it in torrents, streams the torrents of a bucket as blocks of  *)
(* bytes to the proxy at site B, which reads the stream in pieces of any   *)
(* length and tells the peers to its own group, where a tracker listens.   *)
(*                                                                         *)
(* Packets to a group are datagrams: they are lost or overtake each other. *)
(* The stream is one connection, which B closes when its buffer is full,   *)
(* with all that is on it, and which is made again (ProxyConn has the rest *)
(* of that); a bucket that is streamed while it is down is lost.           *)
(*                                                                         *)
(* Bytes are numbers below BYTE.  A hash is OT_HASH bytes, the first of    *)
(* which the stream leaves out; a peer is its address and its flags.  The  *)
(* tracker at A runs without UDP workers: only its event loop tells.       *)
(***************************************************************************)
EXTENDS Integers, Sequences, SequencesExt, FiniteSetsExt, SortedSets

CONSTANTS
    Hashes,           \* torrents
    Addresses,        \* bytes that stand for the address and port of a peer
    Flags,            \* flags of a peer, STOPPED among them
    STOPPED,
    COUNT_BITS,       \* bits of a peer count in one byte of a type 0 block (7)
    OT_BUCKET_COUNT,
    MIN_BLOCK,        \* a block of its own needs more torrents than this (4)
    INDATA,           \* size of indata
    HEADER,           \* tracker id and packet type of a packet
    BUFFSIZE,         \* LIVESYNC_OUTGOING_BUFFSIZE_PEERS
    SIZES,            \* values of a size_t
    Starts,           \* torrents of the proxy at A to begin with
    Announced,        \* bound: records the tracker at A may tell
    MaxTells,         \* bound: records it has told, with those to begin with
    MaxPackets        \* bound: packets on their way when others are sent; one loss

VARIABLES
    g_outbuf,      \* records in the packet buffer of the tracker at A
    packets,       \* packets on their way
    torrents,      \* the torrents of each proxy with their peers
    stream,        \* bytes on the connection from A to B
    peer,          \* what the proxy at B keeps of that connection
    g_peerbuffer,  \* records in the packet buffer of the proxy at B
    swarm,         \* peers of the torrents of the tracker at B
    said,          \* records the tracker at A has told, and those it began with
    tells,         \* how many it has told
    sent, told,    \* records streamed that were not lost with a connection, and told from the stream
    lost           \* a packet, a bucket or a connection was lost

streamVars == <<g_outbuf, packets, torrents, stream, peer, g_peerbuffer, swarm, said, tells, sent, told, lost>>

BYTE == 2 ^ (COUNT_BITS + 1)
OT_HASH == 3
OT_PEER == 2                \* OT_IP_SIZE + 3
RECORD == OT_HASH + OT_PEER + 1

Proxies == {"proxyA", "proxyB"}
StreamPeers == Addresses \X Flags
Records == [hash : Hashes, peer : StreamPeers]

\* mutex_bucket_lock_by_hash: the bucket is in the first bits of the hash.
Bucket(h) == ((h[1] * BYTE + h[2]) * OT_BUCKET_COUNT) \div (BYTE * BYTE)
Prefix(b) == (b * BYTE) \div OT_BUCKET_COUNT

-----------------------------------------------------------------------------
(* Packets to a multicast group *)

\* Mutant: the buffer is sent when it is full, not when no record fits.
Full_Late(records) == HEADER + RECORD * Len(records) >= BUFFSIZE

\* livesync_tell, livesync_proxytell: a record more than this does not fit.
Full(records) == HEADER + RECORD * Len(records) >= BUFFSIZE - RECORD

Size(p) == HEADER + RECORD * Len(p.records)
Packet(from, to, records) == [from |-> from, to |-> to, records |-> records]

\* Mutant: the last record needs a byte behind it.
livesync_handle_peersync_Short(p) == SubSeq(p.records, 1, (Size(p) - HEADER - 1) \div RECORD)

\* livesync_handle_peersync: the records a receiver takes from a packet.
livesync_handle_peersync(p) == SubSeq(p.records, 1, (Size(p) - HEADER) \div RECORD)

\* livesync_issue_peersync of the proxy at B; its own socket gets the packet as well.
FromB(records) == <<Packet("proxyB", "trackerB", records), Packet("proxyB", "proxyB", records)>>

-----------------------------------------------------------------------------
(* Torrents of a proxy *)

PeersAt(ts, h) == IF h \in DOMAIN ts THEN ts[h] ELSE {}
Without(ps, p) == {q \in ps : q[1] # p[1]}

\* add_peer_to_torrent_proxy, remove_peer_from_torrent_proxy
add_peer_to_torrent_proxy(ts, r) ==
    [h \in DOMAIN ts \cup {r.hash} |->
        IF h = r.hash THEN Without(PeersAt(ts, h), r.peer) \cup {r.peer} ELSE ts[h]]
remove_peer_from_torrent_proxy(ts, r) ==
    [h \in DOMAIN ts |-> IF h = r.hash THEN Without(ts[h], r.peer) ELSE ts[h]]

Heard(ts, r) ==
    IF r.peer[2] = STOPPED THEN remove_peer_from_torrent_proxy(ts, r)
                           ELSE add_peer_to_torrent_proxy(ts, r)

-----------------------------------------------------------------------------
(* streamsync_worker: a bucket as bytes *)

InBucket(ts, b) == {h \in DOMAIN ts : Bucket(h) = b}
PeerList(ts, h) == Sorted(ts[h])

\* The torrents with n peers, and those with more than two.
Count(ts, b, n) == Cardinality({h \in InBucket(ts, b) : Cardinality(ts[h]) = n})
CountDef(ts, b) == Cardinality({h \in InBucket(ts, b) : Cardinality(ts[h]) > 2})

\* Torrents with one peer get a block of type 1 if they are many or there is no other.
HasOnes(ts, b) == Count(ts, b, 1) > MIN_BLOCK \/ CountDef(ts, b) = 0
DefAndOnes(ts, b) == CountDef(ts, b) + (IF HasOnes(ts, b) THEN 0 ELSE Count(ts, b, 1))
HasTwos(ts, b) == Count(ts, b, 2) > MIN_BLOCK \/ DefAndOnes(ts, b) = 0

\* The block a torrent with n peers is in.
BlockOf(ts, b, n) ==
    CASE n = 1 /\ HasOnes(ts, b) -> 1
      [] n = 2 /\ HasTwos(ts, b) -> 2
      [] OTHER -> 0

\* Mutant: the seven bits of a byte are taken from the top.
PeerCount_Top[n \in Nat] ==
    IF n < 2 ^ COUNT_BITS THEN <<n>>
    ELSE PeerCount_Top[n \div 2 ^ COUNT_BITS] \o <<2 ^ COUNT_BITS + (n % 2 ^ COUNT_BITS)>>

\* A number of peers, low bits first, each byte but the last marked by its top bit.
PeerCount[n \in Nat] ==
    IF n < 2 ^ COUNT_BITS THEN <<n>>
    ELSE <<2 ^ COUNT_BITS + (n % 2 ^ COUNT_BITS)>> \o PeerCount[n \div 2 ^ COUNT_BITS]

TorrentBytes(ts, type, h) ==
    Tail(h) \o (IF type = 0 THEN PeerCount[Cardinality(ts[h])] ELSE <<>>) \o FlattenSeq(PeerList(ts, h))

\* The torrents of one block, in the order of their hashes.
BlockTorrents(ts, b, type) ==
    Sorted({h \in InBucket(ts, b) : ts[h] # {} /\ BlockOf(ts, b, Cardinality(ts[h])) = type})

\* The blocks of a bucket, in their order in the buffer.
Blocks(ts, b) ==
    LET def == DefAndOnes(ts, b) + (IF HasTwos(ts, b) THEN 0 ELSE Count(ts, b, 2))
    IN  (IF HasOnes(ts, b) THEN <<1>> ELSE <<>>) \o (IF HasTwos(ts, b) THEN <<2>> ELSE <<>>)
            \o (IF def > 0 THEN <<0>> ELSE <<>>)

BlockBytes(ts, b, type) ==
    LET hs == BlockTorrents(ts, b, type)
    IN  <<type, Prefix(b), Len(hs) \div BYTE, Len(hs) % BYTE>>
            \o FlattenSeq([i \in 1..Len(hs) |-> TorrentBytes(ts, type, hs[i])])
BucketBytes(ts, b) ==
    LET types == Blocks(ts, b)
    IN  FlattenSeq([i \in 1..Len(types) |-> BlockBytes(ts, b, types[i])])

\* What the receiver should make of them.
BucketRecords(ts, b) ==
    LET types == Blocks(ts, b)
        hs == FlattenSeq([i \in 1..Len(types) |-> BlockTorrents(ts, b, types[i])])
        Of(h) == LET ps == PeerList(ts, h) IN [i \in 1..Len(ps) |-> [hash |-> h, peer |-> ps[i]]]
    IN  FlattenSeq([i \in 1..Len(hs) |-> Of(hs[i])])

\* Mutant: room for the peer counts of the torrents with more than two peers is left out.
mem_NoCounts(ts, b) ==
    3 * 4 + Count(ts, b, 1) * OT_HASH + Count(ts, b, 2) * OT_HASH + CountDef(ts, b) * (OT_HASH - 1)
        + OT_PEER * SumSet({Cardinality(ts[h]) : h \in InBucket(ts, b)})

\* The bytes streamsync_worker allocates for a bucket.
mem(ts, b) ==
    3 * 4 + (Count(ts, b, 1) + Count(ts, b, 2)) * (OT_HASH - 1 + 1) + CountDef(ts, b) * (OT_HASH - 1 + 8)
        + OT_PEER * MapThenSumSet(LAMBDA h : Cardinality(ts[h]), InBucket(ts, b))

-----------------------------------------------------------------------------
(* process_indata: from bytes to records *)

\* The bytes of the peer count at the start of s.
CountBytes(s) == Min({i \in 1..Len(s) : s[i] < 2 ^ COUNT_BITS})

\* Mutant: the bytes of a count are put together as if they had all their bits.
CountValue_Byte(s) ==
    MapThenSumSet(LAMBDA i : (s[i] % 2 ^ COUNT_BITS) * 2 ^ ((COUNT_BITS + 1) * (i - 1)), 1..CountBytes(s))

\* The value of the peer count at the start of s.
CountValue(s) ==
    MapThenSumSet(LAMBDA i : (s[i] % 2 ^ COUNT_BITS) * 2 ^ (COUNT_BITS * (i - 1)), 1..CountBytes(s))

\* Mutant: the prefix of the packet is left out of the hash.
Decoded_NoPrefix(prefix, tail, ps) ==
    [i \in 1..(Len(ps) \div OT_PEER) |->
        [hash |-> tail, peer |-> SubSeq(ps, OT_PEER * (i - 1) + 1, OT_PEER * i)]]

\* livesync_proxytell: the records of a torrent, its hash put together again.
Decoded(prefix, tail, ps) ==
    [i \in 1..(Len(ps) \div OT_PEER) |->
        [hash |-> <<prefix>> \o tail, peer |-> SubSeq(ps, OT_PEER * (i - 1) + 1, OT_PEER * i)]]

\* A torrent at the start of the data: its number of peers and where they begin and end.
Torrent(in) ==
    LET rest == SubSeq(in.data, OT_HASH, Len(in.data))
        n == IF in.type = 0 THEN CountValue(rest) ELSE in.type
        at == OT_HASH - 1 + (IF in.type = 0 THEN CountBytes(rest) ELSE 0)
    IN  [from |-> at + 1, to |-> at + OT_PEER * n]

Dropped(s, n) == SubSeq(s, n + 1, Len(s))

\* Mutant: the byte left out of the hash and another are waited for.
Minimal_Record(in) == Len(in.data) >= OT_HASH + OT_PEER + 1

\* Ensure size for a minimal torrent block
Minimal(in) == Len(in.data) >= OT_HASH + OT_PEER

\* Outside of a packet the next one is begun, whether it has torrents or not.
Header(in) ==
    IF in.tcount # 0 THEN in
    ELSE [in EXCEPT !.type = in.data[1], !.prefix = in.data[2],
                    !.tcount = in.data[3] * BYTE + in.data[4], !.data = Dropped(@, 4)]

\* A torrent is taken, though the packet may have none; then the count wraps around.
Taken(in) ==
    LET t == Torrent(in)
    IN  [in EXCEPT !.tcount = (@ - 1) % SIZES, !.data = Dropped(@, t.to),
                   !.told = @ \o Decoded(in.prefix, SubSeq(in.data, 1, OT_HASH - 1), SubSeq(in.data, t.from, t.to))]

RECURSIVE process_indata(_)
process_indata(in) ==
    LET at == Header(in)
    IN  IF in.tcount = 0 /\ Len(in.data) < 4 THEN in
        ELSE IF ~Minimal(at) \/ Len(at.data) < Torrent(at).to THEN at
        ELSE process_indata(Taken(at))

\* Mutant: the packet that was being received is not forgotten.
reset_info_block_Data(in) == [in EXCEPT !.data = <<>>]

\* What is left of a connection that is closed.
reset_info_block(in) == [in EXCEPT !.data = <<>>, !.tcount = 0]

\* A torrent was taken from a packet without torrents: no header is found any more.
Astray == peer.tcount >= BYTE * BYTE

-----------------------------------------------------------------------------

StreamInit ==
    /\ g_outbuf = <<>> /\ packets = <<>> /\ stream = <<>> /\ g_peerbuffer = <<>>
    /\ \E ts \in Starts :
           /\ torrents = [p \in Proxies |-> IF p = "proxyA" THEN ts ELSE << >>]
           /\ said = UNION {{[hash |-> h, peer |-> p] : p \in ts[h]} : h \in DOMAIN ts}
    /\ peer = [data |-> <<>>, tcount |-> 0, type |-> 0, prefix |-> 0]
    /\ swarm = {} /\ tells = Cardinality(said) /\ sent = <<>> /\ told = <<>> /\ lost = FALSE

\* An announce or a stop at the tracker of site A.
livesync_tell(r) ==
    LET records == Append(g_outbuf, r)
    IN  /\ tells < MaxTells /\ tells' = tells + 1
        /\ said' = said \cup {r}
        /\ IF Full(records)
           THEN g_outbuf' = <<>> /\ packets' = Append(packets, Packet("trackerA", "proxyA", records))
           ELSE g_outbuf' = records /\ UNCHANGED packets
        /\ UNCHANGED <<torrents, stream, peer, g_peerbuffer, swarm, sent, told, lost>>

\* After LIVESYNC_MAXDELAY seconds.
livesync_ticker ==
    /\ g_outbuf # <<>> /\ Len(packets) < MaxPackets
    /\ packets' = Append(packets, Packet("trackerA", "proxyA", g_outbuf)) /\ g_outbuf' = <<>>
    /\ UNCHANGED <<torrents, stream, peer, g_peerbuffer, swarm, said, tells, sent, told, lost>>

\* The proxy's ticker sends an empty packet as well.
livesync_ticker_proxy ==
    /\ Len(packets) < MaxPackets
    /\ packets' = packets \o FromB(g_peerbuffer) /\ g_peerbuffer' = <<>>
    /\ UNCHANGED <<g_outbuf, torrents, stream, peer, swarm, said, tells, sent, told, lost>>

\* Mutant: a proxy listens to itself.
Ignored_NotOwn(p) == Size(p) <= HEADER

\* Packets without records and packets coming from ourselves
Ignored(p) == Size(p) <= HEADER \/ p.from = p.to

\* livesync_worker of the proxies
livesync_worker_proxy(i) ==
    LET p == packets[i]
    IN  /\ p.to \in Proxies
        /\ packets' = RemoveAt(packets, i)
        /\ torrents' = IF Ignored(p) THEN torrents
                       ELSE [torrents EXCEPT ![p.to] = FoldLeft(Heard, @, livesync_handle_peersync(p))]
        /\ UNCHANGED <<g_outbuf, stream, peer, g_peerbuffer, swarm, said, tells, sent, told, lost>>

\* livesync_worker of the tracker at B: peers of FLAG_MCA, which are not told again.
livesync_worker(i) ==
    LET p == packets[i]
        Apply(s, r) == IF r.peer[2] = STOPPED THEN s \ {<<r.hash, r.peer[1]>>}
                                              ELSE s \cup {<<r.hash, r.peer[1]>>}
    IN  /\ p.to = "trackerB"
        /\ packets' = RemoveAt(packets, i)
        /\ swarm' = IF Ignored(p) THEN swarm ELSE FoldLeft(Apply, swarm, livesync_handle_peersync(p))
        /\ UNCHANGED <<g_outbuf, torrents, stream, peer, g_peerbuffer, said, tells, sent, told, lost>>

Lose(i) ==
    /\ ~lost /\ lost' = TRUE
    /\ packets' = RemoveAt(packets, i)
    /\ UNCHANGED <<g_outbuf, torrents, stream, peer, g_peerbuffer, swarm, said, tells, sent, told>>

\* streamsync_worker: a bucket is encoded, freed and, if the connection is up, queued on it.
streamsync_worker(b) ==
    LET ts == torrents["proxyA"]
    IN  /\ InBucket(ts, b) # {}
        /\ torrents' = [torrents EXCEPT !["proxyA"] = Restrict(ts, DOMAIN ts \ InBucket(ts, b))]
        /\ \/ /\ stream' = stream \o BucketBytes(ts, b)
              /\ sent' = sent \o BucketRecords(ts, b)
              /\ UNCHANGED lost
           \/ ~lost /\ lost' = TRUE /\ UNCHANGED <<stream, sent>>
        /\ UNCHANGED <<g_outbuf, packets, peer, g_peerbuffer, swarm, said, tells, told>>

\* livesync_proxytell of one record after the other: what stays in the buffer, what is sent.
Tell(acc, r) ==
    LET records == Append(acc.buffer, r)
    IN  IF Full(records) THEN [buffer |-> <<>>, out |-> acc.out \o FromB(records)]
                         ELSE [acc EXCEPT !.buffer = records]

\* handle_read at B: some bytes of the stream, as many as fit.  A stream that has gone
\* astray is not followed further.
handle_read_stream(n) ==
    LET in == process_indata([peer EXCEPT !.data = @ \o SubSeq(stream, 1, n)] @@ [told |-> <<>>])
        after == FoldLeft(Tell, [buffer |-> g_peerbuffer, out |-> <<>>], in.told)
    IN  /\ ~Astray /\ n <= INDATA - Len(peer.data) /\ Len(packets) < MaxPackets
        /\ stream' = Dropped(stream, n)
        /\ peer' = [data |-> in.data, tcount |-> in.tcount, type |-> in.type, prefix |-> in.prefix]
        /\ told' = told \o in.told
        /\ g_peerbuffer' = after.buffer
        /\ packets' = packets \o after.out
        /\ UNCHANGED <<g_outbuf, torrents, swarm, said, tells, sent, lost>>

\* handle_read at B when an incomplete torrent fills the buffer: it reads no bytes, and takes that
\* for the end of the connection.
handle_read_full ==
    /\ ~Astray /\ stream # <<>> /\ Len(peer.data) = INDATA
    /\ stream' = <<>> /\ peer' = reset_info_block(peer)
    /\ sent' = told /\ lost' = TRUE
    /\ UNCHANGED <<g_outbuf, packets, torrents, g_peerbuffer, swarm, said, tells, told>>

StreamNext ==
    \/ \E r \in Announced : livesync_tell(r)
    \/ livesync_ticker
    \/ livesync_ticker_proxy
    \/ \E i \in 1..Len(packets) : livesync_worker_proxy(i)
    \/ \E i \in 1..Len(packets) : livesync_worker(i)
    \/ \E i \in 1..Len(packets) : Lose(i)
    \/ \E b \in 0..(OT_BUCKET_COUNT - 1) : streamsync_worker(b)
    \/ \E n \in 1..Len(stream) : handle_read_stream(n)
    \/ handle_read_full

-----------------------------------------------------------------------------

StreamTypeOK ==
    /\ g_outbuf \in Seq(Records)
    /\ ~Astray => g_peerbuffer \in Seq(Records) /\ Range(told) \subseteq Records
    /\ \A i \in 1..Len(packets) : packets[i].from = "trackerA" => packets[i].records \in Seq(Records)
    /\ \A p \in Proxies : \A h \in DOMAIN torrents[p] : h \in Hashes /\ torrents[p][h] \subseteq StreamPeers
    /\ peer.data \in Seq(0..(BYTE - 1)) /\ peer.type \in 0..2 /\ peer.tcount \in Nat
    /\ peer.tcount < SIZES
    /\ lost \in BOOLEAN

\* What the proxy at B tells is what the proxy at A streamed, peer by peer and in order,
\* wherever the stream is cut into reads: headers, counts of several bytes, torrents that
\* come in pieces, hashes whose first byte stands in the header only, and a connection that is
\* closed in the middle of a torrent.
StreamFaithful == ~Astray => IsPrefix(told, sent)

\* When everything has been read everything has been told, though a torrent of a type 1
\* block is a byte shorter than what process_indata waits for: such a block is never the
\* last of a bucket.
NothingWaits == stream = <<>> /\ ~Astray => told = sent

\* "Number of unprocessed torrents in packet we currently receive" (proxy.c:248): what a
\* header can say at most.  It does not hold: a bucket of torrents with one peer ends in a
\* type 2 block without torrents, and a bucket of torrents with two begins with such a
\* block of type 1; if a torrent's worth of bytes follows it in one read, they are taken
\* for a torrent of that block.
TorrentsLeft == peer.tcount < BYTE * BYTE

\* The buffer of the connection is full only if the torrent it waits for is longer: nothing else
\* makes the proxy close a connection that is up.
FullOfLong ==
    ~Astray /\ Len(peer.data) = INDATA =>
        LET h == sent[Len(told) + 1].hash
            n == Cardinality({i \in (Len(told) + 1)..Len(sent) : sent[i].hash = h})
        IN  OT_HASH - 1 + Len(PeerCount[n]) + OT_PEER * n > INDATA

\* A record more fits each packet buffer, and a packet fits its buffer.
PacketsFit ==
    /\ HEADER + RECORD * (Len(g_outbuf) + 1) <= BUFFSIZE
    /\ HEADER + RECORD * (Len(g_peerbuffer) + 1) <= BUFFSIZE
    /\ \A i \in 1..Len(packets) : Size(packets[i]) <= BUFFSIZE

\* streamsync_worker has allocated enough before it writes the bytes of a bucket.
BucketFits ==
    \A b \in {Bucket(h) : h \in DOMAIN torrents["proxyA"]} :
        Len(BucketBytes(torrents["proxyA"], b)) <= mem(torrents["proxyA"], b)

\* What the proxy at B learns from the stream and tells its group does not come back to it.
NoEcho == torrents["proxyB"] = << >>

\* A peer that was told, and never told to have stopped, is somewhere on its way from the
\* tracker at A to the one at B, or has arrived, unless a packet or a bucket was lost or
\* the stream went astray.
RecordsOf(s) == {<<r.hash, r.peer[1]>> : r \in Range(s)}
NothingDropped ==
    LET stopped == {<<r.hash, r.peer[1]>> : r \in {q \in said : q.peer[2] = STOPPED}}
        ts == torrents["proxyA"]
    IN  ~lost /\ ~Astray =>
            {<<r.hash, r.peer[1]>> : r \in said} \ stopped \subseteq
                RecordsOf(g_outbuf) \cup UNION {RecordsOf(packets[i].records) : i \in 1..Len(packets)}
                    \cup UNION {{<<h, p[1]>> : p \in ts[h]} : h \in DOMAIN ts}
                    \cup RecordsOf(Dropped(sent, Len(told))) \cup RecordsOf(g_peerbuffer) \cup swarm

\* The proxy at B tells exactly what the proxy at A streamed, whatever the reads cut, but for what
\* is lost with a connection.  Only a torrent that is longer than the buffer of the connection fills
\* it, and that of a bucket has room for the bucket.
StreamExact == StreamFaithful /\ NothingWaits /\ FullOfLong /\ BucketFits

\* A record reaches the other site and does not go round, in packets that have room for it.
PeersDelivered == NoEcho /\ NothingDropped /\ PacketsFit
=============================================================================
