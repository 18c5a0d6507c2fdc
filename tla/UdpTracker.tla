------------------------------ MODULE UdpTracker ------------------------------
(***************************************************************************)
(* The threads that serve the UDP socket (ot_udp.c): each receives a       *)
(* datagram into its own buffer, handles it and sends the answer from its  *)
(* own buffer.  A datagram overwrites only as much of the buffer as it is  *)
(* long: behind it are the bytes of older ones.  Datagrams are lost,       *)
(* doubled and reordered; what joins them is the connection id of the      *)
(* sender's address.  What an announce does to a swarm is in Swarm, which  *)
(* peers it returns in PeerSelection.                                      *)
(***************************************************************************)
EXTENDS Naturals, Sequences

CONSTANTS
    UdpWorkers,
    Senders,      \* the addresses of clients
    UdpTorrents,
    UdpKinds,     \* what a datagram can ask for, with which length
    Mixed,        \* an id, a transaction or a hash put together of bytes of several datagrams
    MaxSent       \* bound: how many datagrams are sent

VARIABLES
    sent,     \* the datagrams the clients sent; the number of each is its transaction id
    told,     \* the clients that were sent their connection id
    udp,      \* what each worker does, its buffers and the address it believes to serve
    swarms    \* the peers of each torrent; history: whether the datagram that entered one was received

udpVars == <<sent, told, udp, swarms>>

\* The actions of the protocol; any other number is not answered.
CONNECT == 0
ANNOUNCE == 1
SCRAPE == 2

\* The value of the event of an announce that ends the client's part in the swarm.
EVENT_STOPPED == 3

\* udp_make_connectionid: the id depends on the address and on the key made when the program
\* starts, not on age: it is the address that is encrypted, not what the key of the hour made of it.
udp_make_connectionid(address) == address

\* What stands where a connection id is expected when a client has none yet.
Magic == 0

\* The size of a worker's buffer; of a datagram that is longer the rest is lost.
G_INBUF_SIZE == 8192

\* No client's address is taken for the number that stands for no id; what is put together of two
\* ids or two hashes is neither an id nor the hash of a torrent that is tracked; numbers are small.
ASSUME UdpAssumption ==
    /\ Magic \notin Senders
    /\ Mixed \notin Senders \cup UdpTorrents \cup {Magic}
    /\ UdpKinds \subseteq [action : 0..255, event : 0..255, left : 0..255, size : 0..G_INBUF_SIZE]

\* What may be in the buffer of a worker that has not received anything (it is not initialised).
Leftovers == {[conn |-> Mixed, action |-> k.action, transaction |-> Mixed, hash |-> Mixed,
               left |-> k.left, event |-> k.event] : k \in UdpKinds}

NoAnswer == [action |-> 99, transaction |-> 0, conn |-> 0, peers |-> {}, count |-> 0]

\* socket_recv6 returns -1 for an error; in the size_t it is kept in that is a large number.
ErrorSize == 2^16

\* The datagrams client a can send: with the id of an address it had, or with none.
Datagrams(a) ==
    {[action |-> k.action, event |-> k.event, left |-> k.left, size |-> k.size,
      from |-> a, conn |-> id, hash |-> t, transaction |-> Len(sent) + 1] :
        k \in UdpKinds, id \in told \cup {Magic}, t \in UdpTorrents}

Sent == {sent[i] : i \in DOMAIN sent}

-----------------------------------------------------------------------------
(* Clients and network *)

ClientSend(a) ==
    /\ Len(sent) < MaxSent
    /\ \E d \in Datagrams(a) : sent' = Append(sent, d)
    /\ UNCHANGED <<told, udp, swarms>>

\* Bytes first to end of the buffer when the first size bytes of it are received anew: an id or
\* a hash, of which a part may stay.
Part(first, end, size, new, old) ==
    IF size >= end \/ new = old THEN new ELSE IF size <= first THEN old ELSE Mixed

\* The same for a number, which is in its last byte.
Number(end, size, new, old) == IF size >= end THEN new ELSE old

\* The buffer after datagram d was received into it: behind its end are older bytes.
Overwritten(in, d) ==
    [conn        |-> Part(0, 8, d.size, d.conn, in.conn),
     action      |-> Number(12, d.size, d.action, in.action),
     transaction |-> Part(12, 16, d.size, d.transaction, in.transaction),
     hash        |-> Part(16, 36, d.size, d.hash, in.hash),
     left        |-> Number(72, d.size, d.left, in.left),
     event       |-> Number(84, d.size, d.event, in.event)]

\* socket_recv6: any datagram that was sent, once more or never; or an error, which leaves the
\* buffer as it was and the address undefined.
Receive(w) ==
    /\ udp[w].state = "receive"
    /\ \/ \E d \in Sent :
            udp' = [udp EXCEPT ![w] = [@ EXCEPT !.state = "handle",
                                                !.in = Overwritten(udp[w].in, d),
                                                !.remoteip = d.from, !.byte_count = d.size]]
       \/ \E a \in Senders :
            udp' = [udp EXCEPT ![w] = [@ EXCEPT !.state = "handle", !.remoteip = a,
                                                !.byte_count = ErrorSize]]
    /\ UNCHANGED <<sent, told, swarms>>

-----------------------------------------------------------------------------
(* handle_udp6 *)

\* Mutant: the id of any address will do.
ConnectionIdMatches_Any(u) == u.in.action = CONNECT \/ u.in.conn \in Senders

\* A connect needs no id; for anything else it is the one of the address that sent it.
ConnectionIdMatches(u) == u.in.action = CONNECT \/ u.in.conn = udp_make_connectionid(u.remoteip)

\* The worker waits for the next datagram; its buffer keeps the last one.
Done(w) == [udp EXCEPT ![w] = [@ EXCEPT !.state = "receive", !.remoteip = 0, !.byte_count = 0,
                                        !.out = NoAnswer]]

Answers(w, answer) == udp' = [udp EXCEPT ![w] = [@ EXCEPT !.state = "send", !.out = answer]]

\* The packets that are not answered.
Ignore(w) ==
    LET u == udp[w] IN
    /\ u.state = "handle"
    /\ \/ u.byte_count < 16
       \/ /\ ConnectionIdMatches(u)
          /\ \/ u.in.action = CONNECT /\ u.in.conn # Magic
             \/ u.in.action = ANNOUNCE /\ u.byte_count < 98
             \/ u.in.action \notin {CONNECT, ANNOUNCE, SCRAPE}
    /\ udp' = Done(w)
    /\ UNCHANGED <<sent, told, swarms>>

Mismatch(w) ==
    LET u == udp[w] IN
    /\ u.state = "handle" /\ u.byte_count >= 16 /\ ~ConnectionIdMatches(u)
    /\ Answers(w, [NoAnswer EXCEPT !.action = 3, !.transaction = u.in.transaction])
    /\ UNCHANGED <<sent, told, swarms>>

Connect(w) ==
    LET u == udp[w] IN
    /\ u.state = "handle" /\ u.byte_count >= 16
    /\ u.in.action = CONNECT /\ u.in.conn = Magic
    /\ Answers(w, [NoAnswer EXCEPT !.action = CONNECT, !.transaction = u.in.transaction,
                                   !.conn = udp_make_connectionid(u.remoteip)])
    /\ UNCHANGED <<sent, told, swarms>>

\* The announce, with the bucket locked: the peer is the address the datagram came from.  A hash
\* that is no torrent's is answered without peers and with nothing done.
UdpAnnounce(w) ==
    LET u == udp[w]
        others == {p \in swarms[u.in.hash] : p.ip # u.remoteip}
        peer == [ip |-> u.remoteip, seeding |-> u.in.left = 0, received |-> u.byte_count # ErrorSize]
        after == IF u.in.event = EVENT_STOPPED THEN others ELSE others \cup {peer}
        tracked == u.in.hash \in UdpTorrents
    IN
    /\ u.state = "handle" /\ u.byte_count >= 98
    /\ u.in.action = ANNOUNCE /\ ConnectionIdMatches(u)
    /\ swarms' = IF tracked THEN [swarms EXCEPT ![u.in.hash] = after] ELSE swarms
    /\ Answers(w, [NoAnswer EXCEPT !.action = ANNOUNCE, !.transaction = u.in.transaction,
                     !.peers = IF tracked /\ u.in.event # EVENT_STOPPED THEN after ELSE {}])
    /\ UNCHANGED <<sent, told>>

\* The torrents a scrape is answered for: one for every 20 bytes that are begun, 75 at most.
scrape_count(byte_count) ==
    LET begun == (byte_count - 16 + 19) \div 20 IN IF begun > 75 THEN 75 ELSE begun

UdpScrape(w) ==
    LET u == udp[w] IN
    /\ u.state = "handle" /\ u.byte_count >= 16
    /\ u.in.action = SCRAPE /\ ConnectionIdMatches(u)
    /\ Answers(w, [NoAnswer EXCEPT !.action = SCRAPE, !.transaction = u.in.transaction,
                                   !.count = scrape_count(u.byte_count)])
    /\ UNCHANGED <<sent, told, swarms>>

\* socket_send6: the answer leaves, and may get lost.
SendAnswer(w) ==
    LET u == udp[w] IN
    /\ u.state = "send"
    /\ \/ UNCHANGED told
       \/ u.out.action = CONNECT /\ told' = told \cup {u.out.conn}
    /\ udp' = Done(w)
    /\ UNCHANGED <<sent, swarms>>

UdpInit ==
    /\ sent = <<>>
    /\ told \in SUBSET Senders   \* ids given out earlier stay valid
    /\ udp \in [UdpWorkers -> {[state |-> "receive", in |-> in, remoteip |-> 0, byte_count |-> 0,
                                out |-> NoAnswer] : in \in Leftovers}]
    /\ swarms = [t \in UdpTorrents |-> {}]

UdpNext ==
    \/ \E a \in Senders : ClientSend(a)
    \/ \E w \in UdpWorkers : \/ Receive(w) \/ Ignore(w) \/ Mismatch(w) \/ Connect(w)
                             \/ UdpAnnounce(w) \/ UdpScrape(w) \/ SendAnswer(w)

UdpSpec == UdpInit /\ [][UdpNext]_udpVars

-----------------------------------------------------------------------------
(* Properties *)

\* A whole announce for torrent t from address a with the id of this address.
Announced(d, t, a) ==
    /\ d.action = ANNOUNCE /\ d.hash = t /\ d.event # EVENT_STOPPED
    /\ d.conn = a /\ d.from = a /\ d.size >= 98

\* Whoever is a peer has sent the connection id the tracker had told to its address, and, unless
\* a receive failed, an announce for this torrent that says whether it seeds.
PeersAnnounced ==
    \A t \in UdpTorrents : \A p \in swarms[t] :
        /\ p.ip \in told /\ \E d \in Sent : d.conn = p.ip
        /\ \E d \in Sent : d.hash = t
        /\ p.received => \E d \in Sent : Announced(d, t, p.ip) /\ p.seeding = (d.left = 0)

\* An announce or a scrape is answered to an address whose connection id was sent; if it was
\* received, under its own transaction, to the client that sent it, with peers of its torrent: no
\* worker mixes up two datagrams, whatever is left of older ones in its buffer.  (After a receive
\* that failed the answer can be of several datagrams.)
AnswersOwn ==
    \A w \in UdpWorkers :
        LET u == udp[w] IN
        u.state = "send" /\ u.out.action \in {ANNOUNCE, SCRAPE} =>
            \E d \in Sent :
                /\ d.conn = u.remoteip
                /\ u.byte_count # ErrorSize =>
                     /\ d.action = u.out.action /\ d.from = u.remoteip
                     /\ d.transaction = u.out.transaction
                     /\ \A p \in u.out.peers :
                           p.received => \E e \in Sent : Announced(e, d.hash, p.ip)

\* A scrape is answered for 75 torrents at most, and an id is sent to the address it is for.
AnswersBounded ==
    \A w \in UdpWorkers :
        LET u == udp[w] IN
        u.state = "send" =>
            /\ u.out.count <= 75
            /\ u.out.action = CONNECT => u.out.conn = udp_make_connectionid(u.remoteip)

\* The UDP side of the tracker keeps its clients apart (handle_udp6, udp_worker).
UdpExact == PeersAnnounced /\ AnswersOwn /\ AnswersBounded
=============================================================================
