----------------------------- MODULE ProxyConn ------------------------------
(***************************************************************************)
(* Connections between synchronisation proxies (proxy.c): who connects to  *)
(* whom, the handshake in which both ends say their tracker id, and the    *)
(* thread that queues data on connections while the main thread opens and  *)
(* closes them.                                                            *)
(*                                                                         *)
(* Every proxy runs the loop of server_mainloop: each event it is told of  *)
(* is one step.  streamsync_worker looks whether a slot of g_connections   *)
(* is connected in one step and uses the slot in a later one.  A TCP       *)
(* connection is two streams; what an end has written stays on record.     *)
(*                                                                         *)
(* Sync data is one kind of message; what it says is SyncStream's matter.  *)
(***************************************************************************)
EXTENDS Integers, Sequences, FiniteSetsExt

CONSTANTS
    Proxies,    \* running proxies, each with its tracker id
    Peers,      \* Peers[p]: the proxies that the -c options of p name, in order
    None,       \* no tracker id
    MAX_PEERS,  \* slots of g_connections
    MaxConns,   \* bound: TCP connections
    MaxBreaks   \* bound: connections that break

ASSUME SlotsAssumption ==
    /\ None \notin Proxies /\ "data" \notin Proxies
    /\ MAX_PEERS \in Nat /\ MaxConns \in Nat /\ MaxBreaks \in Nat
    /\ \A p \in Proxies : Peers[p] \in Seq(Proxies) /\ Len(Peers[p]) <= MAX_PEERS

VARIABLES
    g_connections,  \* of each proxy: a slot for each connection
    tcp,            \* connections of the network so far
    breaks,         \* connections that have broken
    worker          \* of each proxy: the slot streamsync_worker has found connected, or 0

vars == <<g_connections, tcp, breaks, worker>>

Slots == 1..MAX_PEERS
Ends == {"client", "server"}
Other(e) == IF e = "client" THEN "server" ELSE "client"

\* main: the first slots are for the peers to connect to (FLAG_OUTGOING).
Outgoing(p, i) == i <= Len(Peers[p])

\* Mutant: the descriptor stays in the slot.
reset_info_block_Fd(s) == [s EXCEPT !.state = "DISCONNECTED", !.tracker_id = None, !.outdata = FALSE]

\* reset_info_block; FLAG_OUTGOING stays.
reset_info_block(s) ==
    [s EXCEPT !.state = "DISCONNECTED", !.tracker_id = None, !.fd = 0, !.outdata = FALSE]

Init ==
    /\ g_connections = [p \in Proxies |-> [i \in Slots |->
           [state |-> "DISCONNECTED", tracker_id |-> None, fd |-> 0, outdata |-> FALSE]]]
    /\ tcp = <<>>
    /\ breaks = 0
    /\ worker = [p \in Proxies |-> 0]

\* End e of connection c belongs to proxy p, which has it open; its cookie is slot i.
Has(p, c, e, i) ==
    /\ tcp[c].proxy[e] = p
    /\ tcp[c].open[e]
    /\ tcp[c].slot[e] = i

-----------------------------------------------------------------------------
(* The network. *)

\* What io_wantread, io_wantwrite and a new socket start with.
No == [e \in Ends |-> FALSE]

\* A connection is made or refused.
Connect(c) ==
    /\ tcp[c].status = "connecting"
    /\ \E s \in {"connected", "broken"} : tcp' = [tcp EXCEPT ![c].status = s]
    /\ UNCHANGED <<g_connections, breaks, worker>>

\* A connection breaks.
Break(c) ==
    /\ tcp[c].status = "connected"
    /\ breaks < MaxBreaks
    /\ breaks' = breaks + 1
    /\ tcp' = [tcp EXCEPT ![c].status = "broken"]
    /\ UNCHANGED <<g_connections, worker>>

\* A new connection, which client opens from slot i of its own.
NewConnection(client, server, i) ==
    [status |-> "connecting",
     proxy |-> [e \in Ends |-> IF e = "client" THEN client ELSE server],
     open |-> [e \in Ends |-> TRUE], slot |-> [e \in Ends |-> IF e = "client" THEN i ELSE 0],
     wantread |-> No, wantwrite |-> [No EXCEPT !["client"] = TRUE],
     log |-> [e \in Ends |-> <<>>], read |-> [e \in Ends |-> 0]]

\* A connection that both ends have closed.
Over(c) ==
    [NewConnection(tcp[c].proxy["client"], tcp[c].proxy["server"], 0)
        EXCEPT !.status = "broken", !.open = No, !.wantwrite = No]

\* Closing end e; what was written before is still delivered.
io_close(c, e) ==
    [tcp EXCEPT ![c] = IF ~@.open[Other(e)] THEN Over(c)
                       ELSE [@ EXCEPT !.open[e] = FALSE, !.slot[e] = 0, !.wantread[e] = FALSE, !.wantwrite[e] = FALSE]]

\* End e of c has written m; a second message of data adds nothing that matters here.
Written(c, e, m) ==
    LET log == tcp[c].log[e] IN IF log # <<>> /\ log[Len(log)] = m /\ m = "data" THEN log ELSE Append(log, m)

\* The next message for end e, and whether there will be none.
Available(c, e) == tcp[c].read[e] < Len(tcp[c].log[Other(e)])
AtEnd(c, e) == tcp[c].status = "broken" \/ ~tcp[c].open[Other(e)]

-----------------------------------------------------------------------------
(* The main thread of proxy p. *)

\* A turn of handle_reconnects.
handle_reconnects(p, i) ==
    /\ Outgoing(p, i)
    /\ g_connections[p][i].state = "DISCONNECTED"
    /\ Len(tcp) < MaxConns
    /\ tcp' = Append(tcp, NewConnection(p, Peers[p][i], i))
    /\ g_connections' = [g_connections EXCEPT ![p][i] =
           [reset_info_block(@) EXCEPT !.fd = Len(tcp) + 1, !.state = "CONNECTING"]]
    /\ UNCHANGED <<breaks, worker>>

\* The slots for incoming connections that are free.
Free(p) == {i \in Slots : ~Outgoing(p, i) /\ g_connections[p][i].state = "DISCONNECTED"}

\* handle_accept: the first free slot, or the connection is closed.
handle_accept(p, c) ==
    /\ tcp[c].status # "connecting"
    /\ Has(p, c, "server", 0)
    /\ \/ /\ Free(p) # {}
          /\ LET i == Min(Free(p)) IN
             /\ g_connections' = [g_connections EXCEPT ![p][i] =
                    [reset_info_block(@) EXCEPT !.state = "CONNECTING", !.fd = c]]
             /\ tcp' = [tcp EXCEPT ![c].slot["server"] = i, ![c].wantread["server"] = TRUE]
       \/ /\ Free(p) = {}
          /\ tcp' = io_close(c, "server")
          /\ UNCHANGED g_connections
    /\ UNCHANGED <<breaks, worker>>

\* Close the socket and reset its slot.
Drop(p, c, e, i) ==
    /\ tcp' = io_close(c, e)
    /\ g_connections' = [g_connections EXCEPT ![p][i] = reset_info_block(@)]

\* Mutant: only incoming connections are compared with those there are.
Greeted_Incoming(p, i, id) ==
    /\ ~Outgoing(p, i) => \A j \in Slots :
           ~(g_connections[p][j].state = "CONNECTED" /\ g_connections[p][j].tracker_id = id)
    /\ id # p

\* The tracker id of the other end is one we have no connection to and not our own.
Greeted(p, i, id) ==
    /\ \A j \in Slots : ~(g_connections[p][j].state = "CONNECTED" /\ g_connections[p][j].tracker_id = id)
    /\ id # p

\* Mutant: an id that is known replaces its older connection.
handle_read_handshake_Replace(p, c, e, i) ==
    /\ g_connections[p][i].state \in {"CONNECTING", "WAITTRACKERID"}
    /\ \/ /\ Available(c, e)
          /\ LET id == tcp[c].log[Other(e)][tcp[c].read[e] + 1]
                 answer == ~Outgoing(p, i) /\ g_connections[p][i].state = "CONNECTING" IN
             /\ tcp' = [tcp EXCEPT ![c].read[e] = @ + 1,
                                   ![c].log[e] = IF answer THEN Written(c, e, p) ELSE @]
             /\ g_connections' = [g_connections EXCEPT ![p] = [j \in Slots |->
                    IF j = i THEN [@[i] EXCEPT !.tracker_id = id, !.state = "CONNECTED"]
                    ELSE IF @[j].tracker_id = id THEN reset_info_block(@[j]) ELSE @[j]]]
       \/ Drop(p, c, e, i)

\* Mutant: our id is sent though it may have been.
handle_read_handshake_Again(p, c, e, i) ==
    /\ g_connections[p][i].state \in {"CONNECTING", "WAITTRACKERID"}
    /\ \/ /\ Available(c, e)
          /\ LET id == tcp[c].log[Other(e)][tcp[c].read[e] + 1] IN
             /\ Greeted(p, i, id)
             /\ tcp' = [tcp EXCEPT ![c].read[e] = @ + 1,
                                   ![c].log[e] = IF ~Outgoing(p, i) THEN Written(c, e, p) ELSE @]
             /\ g_connections' = [g_connections EXCEPT ![p][i].tracker_id = id, ![p][i].state = "CONNECTED"]
       \/ Drop(p, c, e, i)

\* handle_read while the other end has not said its id.  If we have not said ours it is the
\* answer.  An end of the stream, fewer than four bytes at once, an error when our id is
\* written, and an id that is known all drop the connection.
handle_read_handshake(p, c, e, i) ==
    /\ g_connections[p][i].state \in {"CONNECTING", "WAITTRACKERID"}
    /\ \/ /\ Available(c, e)
          /\ LET id == tcp[c].log[Other(e)][tcp[c].read[e] + 1]
                 answer == ~Outgoing(p, i) /\ g_connections[p][i].state = "CONNECTING" IN
             /\ Greeted(p, i, id)
             /\ tcp' = [tcp EXCEPT ![c].read[e] = @ + 1,
                                   ![c].log[e] = IF answer THEN Written(c, e, p) ELSE @]
             /\ g_connections' = [g_connections EXCEPT ![p][i].tracker_id = id, ![p][i].state = "CONNECTED"]
       \/ Drop(p, c, e, i)

\* handle_read of a connection that is made: data, or its end.
handle_read_connected(p, c, e, i) ==
    /\ g_connections[p][i].state = "CONNECTED"
    /\ \/ /\ Available(c, e)
          /\ tcp' = [tcp EXCEPT ![c].read[e] = @ + 1]
          /\ UNCHANGED g_connections
       \/ /\ AtEnd(c, e)
          /\ tcp[c].status = "broken" \/ ~Available(c, e)
          /\ Drop(p, c, e, i)

\* handle_read.
handle_read(p, c, e, i) ==
    /\ tcp[c].status # "connecting"
    /\ Has(p, c, e, i)
    /\ tcp[c].wantread[e]
    /\ Available(c, e) \/ AtEnd(c, e)
    /\ handle_read_handshake(p, c, e, i) \/ handle_read_connected(p, c, e, i)
    /\ UNCHANGED <<breaks, worker>>

\* Mutant: a slot is reset and its socket left open.
handle_write_connecting_Leak(p, c, e, i) ==
    /\ g_connections[p][i].state = "CONNECTING"
    /\ \/ /\ AtEnd(c, e)
          /\ g_connections' = [g_connections EXCEPT ![p][i] = reset_info_block(@)]
          /\ UNCHANGED tcp
       \/ /\ tcp[c].status = "connected"
          /\ tcp' = [tcp EXCEPT ![c].log[e] = Written(c, e, p),
                                ![c].wantwrite[e] = FALSE, ![c].wantread[e] = TRUE]
          /\ g_connections' = [g_connections EXCEPT ![p][i].state = "WAITTRACKERID"]

\* handle_write of a new connection: it may have failed; otherwise our id goes first.
handle_write_connecting(p, c, e, i) ==
    /\ g_connections[p][i].state = "CONNECTING"
    /\ \/ AtEnd(c, e) /\ Drop(p, c, e, i)
       \/ /\ tcp[c].status = "connected"
          /\ tcp' = [tcp EXCEPT ![c].log[e] = Written(c, e, p),
                                ![c].wantwrite[e] = FALSE, ![c].wantread[e] = TRUE]
          /\ g_connections' = [g_connections EXCEPT ![p][i].state = "WAITTRACKERID"]

\* handle_write of a connection that is made: iob_send sends all or a part, or fails.
handle_write_connected(p, c, e, i) ==
    /\ g_connections[p][i].state = "CONNECTED"
    /\ \/ AtEnd(c, e) /\ Drop(p, c, e, i)
       \/ /\ tcp[c].status = "connected"
          /\ \E all \in BOOLEAN :
               /\ tcp' = [tcp EXCEPT ![c].log[e] = IF g_connections[p][i].outdata THEN Written(c, e, "data") ELSE @,
                                     ![c].wantwrite[e] = ~all]
               /\ g_connections' = [g_connections EXCEPT ![p][i].outdata = @ /\ ~all]

\* handle_write of a connection that waits for the other's id ("should not happen"): the socket
\* is closed, the slot stays as it is.
handle_write_default(p, c, e, i) ==
    /\ g_connections[p][i].state = "WAITTRACKERID"
    /\ tcp' = io_close(c, e)
    /\ UNCHANGED g_connections

\* handle_write.
handle_write(p, c, e, i) ==
    /\ tcp[c].status # "connecting"
    /\ Has(p, c, e, i)
    /\ tcp[c].wantwrite[e]
    /\ \/ handle_write_connecting(p, c, e, i)
       \/ handle_write_connected(p, c, e, i)
       \/ handle_write_default(p, c, e, i)
    /\ UNCHANGED <<breaks, worker>>

-----------------------------------------------------------------------------
(* The thread that sends: streamsync_worker of proxy p. *)

\* PROXYPEER_ISCONNECTED ...
streamsync_check(p, i) ==
    /\ worker[p] = 0
    /\ g_connections[p][i].state = "CONNECTED"
    /\ worker' = [worker EXCEPT ![p] = i]
    /\ UNCHANGED <<g_connections, tcp, breaks>>

\* The end of connection c that proxy p has.
EndOf(p, c) == IF tcp[c].proxy["client"] = p THEN "client" ELSE "server"

\* ... then the data is queued in the slot, and the socket that is in the slot now is to be
\* told of when it can be written.
streamsync_add(p) ==
    /\ worker[p] # 0
    /\ LET i == worker[p]  c == g_connections[p][i].fd IN
       /\ g_connections' = [g_connections EXCEPT ![p][i].outdata = TRUE]
       /\ tcp' = IF c # 0 /\ tcp[c].open[EndOf(p, c)]
                 THEN [tcp EXCEPT ![c].wantwrite[EndOf(p, c)] = TRUE] ELSE tcp
    /\ worker' = [worker EXCEPT ![p] = 0]
    /\ UNCHANGED breaks

-----------------------------------------------------------------------------

\* server_mainloop: an event of the main thread.
server_mainloop(p) ==
    \/ \E i \in Slots : handle_reconnects(p, i)
    \/ \E c \in 1..Len(tcp) :
         \/ handle_accept(p, c)
         \/ \E e \in Ends, i \in Slots : handle_read(p, c, e, i) \/ handle_write(p, c, e, i)

Proxy(p) ==
    \/ server_mainloop(p)
    \/ \E i \in Slots : streamsync_check(p, i)
    \/ streamsync_add(p)

Network == \E c \in 1..Len(tcp) : Connect(c) \/ Break(c)

\* All connections there can be have been used up.
Finished == Len(tcp) = MaxConns /\ UNCHANGED vars

Next == (\E p \in Proxies : Proxy(p)) \/ Network \/ Finished

Spec == Init /\ [][Next]_vars

-----------------------------------------------------------------------------

States == {"DISCONNECTED", "CONNECTING", "WAITTRACKERID", "CONNECTED"}

Slot == [state : States, tracker_id : Proxies \cup {None}, fd : Nat, outdata : BOOLEAN]

Connection ==
    [status : {"connecting", "connected", "broken"}, proxy : [Ends -> Proxies], open : [Ends -> BOOLEAN],
     slot : [Ends -> Slots \cup {0}], wantread : [Ends -> BOOLEAN], wantwrite : [Ends -> BOOLEAN],
     log : [Ends -> Seq(Proxies \cup {"data"})], read : [Ends -> Nat]]

\* A slot has a descriptor exactly if it is not disconnected, an id exactly if it is connected.
TypeOK ==
    /\ g_connections \in [Proxies -> [Slots -> Slot]]
    /\ \A p \in Proxies : \A i \in Slots :
         LET s == g_connections[p][i] IN
         /\ s.fd \in 0..Len(tcp)
         /\ s.fd = 0 <=> s.state = "DISCONNECTED"
         /\ s.tracker_id # None <=> s.state = "CONNECTED"
    /\ tcp \in Seq(Connection) /\ Len(tcp) <= MaxConns
    /\ \A c \in 1..Len(tcp) : \A e \in Ends : tcp[c].read[e] <= Len(tcp[c].log[Other(e)])
    /\ breaks \in 0..MaxBreaks
    /\ worker \in [Proxies -> Slots \cup {0}]

\* A proxy is connected to a tracker id once and never to itself, though both may connect to
\* each other at the same time and each learns the other's id only from the stream.
OneConnectionPerPeer ==
    \A p \in Proxies : \A i, j \in Slots :
        LET s == g_connections[p] IN
        s[i].state = "CONNECTED" =>
          /\ s[i].tracker_id # p
          /\ i # j /\ s[j].state = "CONNECTED" => s[i].tracker_id # s[j].tracker_id

\* No socket is lost: one that is open is in the slot that its events are handled with.
SocketsOwned ==
    \A c \in 1..Len(tcp) : \A e \in Ends :
        tcp[c].open[e] /\ tcp[c].slot[e] # 0 =>
          g_connections[tcp[c].proxy[e]][tcp[c].slot[e]].fd = c

\* Each end says its id once and before any data, whichever handler does it, and also when the
\* sending thread has mixed up a connection with the one that was in its slot before.  The
\* other end would read a second id as the header of a packet.
GreetsOnce ==
    \A c \in 1..Len(tcp) : \A e \in Ends :
        tcp[c].log[e] \in {<<>>, <<tcp[c].proxy[e]>>, <<tcp[c].proxy[e], "data">>}

\* The connection c is made for both ends.
Made(c) ==
    \A e \in Ends : tcp[c].slot[e] # 0 /\
        LET s == g_connections[tcp[c].proxy[e]][tcp[c].slot[e]] IN s.state = "CONNECTED" /\ s.fd = c

\* Once both ends have each other's id, nothing ends the connection but the network: no
\* other connection's handshake, and not the sending thread.
MadeStays ==
    [][\A c \in 1..Len(tcp) : Made(c) /\ tcp[c].status = "connected" => Made(c)' \/ tcp[c].status' = "broken"]_vars

\* Slots and sockets agree, in each proxy and between the two, in every order of events.
SlotsAgree == TypeOK /\ SocketsOwned /\ OneConnectionPerPeer
=============================================================================
