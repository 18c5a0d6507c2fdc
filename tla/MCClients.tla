----------------------------- MODULE MCClients -----------------------------
(***************************************************************************)
(* Instances for TLC of what clients do at the same time: TorrentRecords,  *)
(* of those that use the database, and UdpTracker, of those that send      *)
(* datagrams.  They share no state and are checked in one run: a behaviour *)
(* is of the part it starts with and leaves the other as it begins.        *)
(***************************************************************************)
EXTENDS TorrentRecords, UdpTracker, TLC

CONSTANTS c1, c2, w1, w2, s1, s2, t1, t2

VARIABLE part

\* Every action, one that does not exist; announces that end behind the header or a byte early,
\* and so leave what older datagrams said, or what the memory held.
Kind(action, event, left, bytes) == [action |-> action, event |-> event, left |-> left, size |-> bytes]
LongAndShort == {Kind(CONNECT, 0, 0, 16), Kind(ANNOUNCE, 0, 0, 98), Kind(ANNOUNCE, EVENT_STOPPED, 1, 98),
                 Kind(ANNOUNCE, 0, 1, 97), Kind(ANNOUNCE, 0, 1, 16),
                 Kind(SCRAPE, 0, 0, 47), Kind(3, 0, 0, 15)}

\* The memory of the buffers looks like a connect or like an announce.
Memory == \A w \in UdpWorkers : udp[w].in.action \in {CONNECT, ANNOUNCE} /\ udp[w].in.left = 0

\* A state of the UDP side to stay in.
NobodyTold == UdpInit /\ told = {} /\ \A w \in UdpWorkers : udp[w].in.action = CONNECT

ClientsInit ==
    \/ part = "records" /\ Init /\ NobodyTold
    \/ part = "udp" /\ Init /\ driver.save = "merge" /\ driver.reports /\ UdpInit /\ Memory

ClientsNext ==
    /\ UNCHANGED part
    /\ \/ part = "records" /\ Next /\ UNCHANGED udpVars
       \/ part = "udp" /\ UdpNext /\ UNCHANGED vars

ClientsSpec == ClientsInit /\ [][ClientsNext]_<<part, vars, udpVars>>

\* The workers, clients and torrents of the UDP side can each be exchanged.
Exchanged == Permutations(UdpWorkers) \cup Permutations(Senders) \cup Permutations(UdpTorrents)
=============================================================================
