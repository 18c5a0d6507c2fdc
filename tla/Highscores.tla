----------------------------- MODULE Highscores -----------------------------
(***************************************************************************)
(* The statistics that walk over all torrents (ot_stats.c): the busiest    *)
(* networks, counted in a tree of nodes that are allocated as addresses    *)
(* are met, and the torrents with the most peers and seeders.              *)
(*                                                                         *)
(* The statistics worker reads one bucket at a time under its lock; peers  *)
(* come and go in between, and the tracker may be told to stop.  An        *)
(* address is a sequence of digits below NODE_COUNT; a node of the tree is *)
(* the digits that lead to it, and those of full length are counters.      *)
(*                                                                         *)
(* The text that is made of a result is left out, and with it that the     *)
(* hashes in it are read through pointers into buckets that are unlocked.  *)
(***************************************************************************)
EXTENDS Integers, Sequences, SequencesExt, FiniteSets, FiniteSetsExt, SortedSets

CONSTANTS
    Buckets,       \* the torrents of each bucket, in order
    Addresses_of,  \* addresses of peers
    Seeders,       \* those that seed
    NODE_COUNT,    \* STATS_NETWORK_NODE_COUNT: digits
    MAXDEPTH,      \* digits of an address that are counted (STATS_NETWORK_NODE_MAXDEPTH)
    LIMIT,         \* digits of a larger network (STATS_NETWORK_NODE_LIMIT)
    amount,        \* places in a list
    WIDTH,         \* bits of an int but one, by which all counters are shifted in the end
    MaxChanges     \* bound: peers that come or go while the worker reads

VARIABLES
    peers,     \* the peers of each torrent
    changes,   \* how many have come or gone
    g_opentracker_running,
    task,      \* what the worker makes: "none", "slash24s" or "top"
    bucket,    \* the next one it reads
    node,      \* nodes of its tree
    counters,  \* counters in their nodes
    top,       \* its lists of torrents, by peers and by seeders
    seen,      \* what it has read: torrents with their peers
    reply      \* what it answers with

statsVars == <<peers, changes, g_opentracker_running, task, bucket, node, counters, top, seen, reply>>

Digits == 0..(NODE_COUNT - 1)
Paths(n) == [1..n -> Digits]
Torrents_of == UNION {Range(Buckets[b]) : b \in DOMAIN Buckets}

ASSUME TreeAssumption ==
    /\ NODE_COUNT \in Nat \ {0} /\ MAXDEPTH \in Nat \ {0} /\ LIMIT \in 1..MAXDEPTH /\ WIDTH \in Nat
    /\ IsFiniteSet(Addresses_of)
    /\ \A ip \in Addresses_of : ip \in Seq(Digits) /\ Len(ip) >= MAXDEPTH
    /\ \A net \in Paths(MAXDEPTH) :
          Cardinality(Torrents_of \X {ip \in Addresses_of : SubSeq(ip, 1, MAXDEPTH) = net}) < 2 ^ WIDTH
ASSUME ListAssumption ==
    /\ amount \in Nat \ {0}
    /\ Buckets \in Seq(Seq(Torrents_of))
    /\ \A b, c \in DOMAIN Buckets : \A i \in DOMAIN Buckets[b], j \in DOMAIN Buckets[c] :
          Buckets[b][i] = Buckets[c][j] => b = c /\ i = j

Lists == {"peers", "seeds"}
Empty == [i \in 1..amount |-> [val |-> 0, torrent |-> <<>>]]

-----------------------------------------------------------------------------
(* The tree of networks *)

\* Mutant: the counters are one level further down.
NodesTo_Deep(ip) == {SubSeq(ip, 1, n) : n \in 0..MAXDEPTH}

\* stat_increase_network_count: the nodes above an address; the last one holds its counter.
NodesTo(ip) == {SubSeq(ip, 1, n) : n \in 0..(MAXDEPTH - 1)}

\* The counters after peers met have been counted.
Increased(met) ==
    [ip \in Paths(MAXDEPTH) |-> counters[ip] + Cardinality({m \in met : SubSeq(m.ip, 1, MAXDEPTH) = ip})]

\* stats_shift_down_network_count: nodes under which nothing is left are freed.
Shifted(cs, n) == [ip \in DOMAIN cs |-> cs[ip] \div 2 ^ n]
Kept(cs) == {p \in node : \E ip \in DOMAIN cs : cs[ip] > 0 /\ IsPrefix(p, ip)}

\* Mutant: a network goes below those with its score less one.
Place_Low(scores, score) == Cardinality({i \in 2..amount : score > scores[i].val + 1})

\* The places after the first with a lower score, all of which are in front: they move down.
Place(scores, score) == Cardinality({i \in 2..amount : score > scores[i].val})

Enter(scores, score, net) ==
    LET j == Place(scores, score)
    IN  [i \in 1..amount |-> IF i <= j THEN scores[i + 1]
                             ELSE IF i = j + 1 THEN [val |-> score, torrent |-> net] ELSE scores[i]]

\* The value of a network: what the nodes and counters below it add up to.
Below(net) == MapThenSumSet(LAMBDA ip : counters[ip], {ip \in DOMAIN counters : IsPrefix(net, ip)})

\* A network enters the list if it beats the lowest score.
Compared(scores, net) ==
    IF Below(net) <= scores[1].val THEN scores ELSE Enter(scores, Below(net), net)

\* stats_get_highscore_networks: the networks of limit digits in order, those the tree has
\* a node for.
Visited(limit) == Sorted({net \in Paths(limit) : SubSeq(net, 1, limit - 1) \in node})
stats_get_highscore_networks(limit) ==
    LET after[n \in 0..Len(Visited(limit))] ==
          IF n = 0 THEN Empty ELSE Compared(after[n - 1], Visited(limit)[n])
    IN  after[Len(Visited(limit))]

-----------------------------------------------------------------------------
(* The lists of torrents *)

\* stats_top_txt: the place of a value, one past the last if it has none.
RankOf(list, val) == 1 + Cardinality({i \in 1..amount : val <= list[i].val})

\* Mutant: those behind a torrent that enters do not move.
Listed_NoMove(list, val, torrent) ==
    [i \in 1..amount |-> IF i = RankOf(list, val) THEN [val |-> val, torrent |-> torrent] ELSE list[i]]

Listed(list, val, torrent) ==
    LET idx == RankOf(list, val)
    IN  [i \in 1..amount |-> IF i < idx THEN list[i]
                             ELSE IF i = idx THEN [val |-> val, torrent |-> torrent] ELSE list[i - 1]]

-----------------------------------------------------------------------------

StatsIdle ==
    /\ changes = 0 /\ g_opentracker_running = TRUE
    /\ task = "none" /\ bucket = 1 /\ node = {} /\ seen = {}
    /\ counters = [ip \in Paths(MAXDEPTH) |-> 0]
    /\ top = [l \in Lists |-> Empty] /\ reply = [kind |-> "none"]

StatsInit == StatsIdle /\ peers \in [Torrents_of -> SUBSET Addresses_of]

\* An announce or a stop, in a bucket the worker does not hold.
Change(t, ip) ==
    /\ changes < MaxChanges /\ changes' = changes + 1
    /\ peers' = [peers EXCEPT ![t] = IF ip \in @ THEN @ \ {ip} ELSE @ \cup {ip}]
    /\ UNCHANGED <<g_opentracker_running, task, bucket, node, counters, top, seen, reply>>

Stop ==
    /\ g_opentracker_running /\ g_opentracker_running' = FALSE
    /\ UNCHANGED <<peers, changes, task, bucket, node, counters, top, seen, reply>>

stats_make(kind) ==
    /\ task = "none" /\ reply.kind = "none" /\ task' = kind
    /\ UNCHANGED <<peers, changes, g_opentracker_running, bucket, node, counters, top, seen, reply>>

\* Between two buckets the worker looks whether the tracker stops.
Goes == bucket = 1 \/ g_opentracker_running

Ts(b) == Range(Buckets[b])
Met(b) == UNION {{[t |-> t, ip |-> ip] : ip \in peers[t]} : t \in Ts(b)}

\* stats_slash24s_txt: the peers of a bucket are counted.
slash24s_bucket ==
    /\ task = "slash24s" /\ bucket <= Len(Buckets) /\ Goes
    /\ counters' = Increased(Met(bucket))
    /\ node' = node \cup UNION {NodesTo(m.ip) : m \in Met(bucket)}
    /\ seen' = seen \cup Met(bucket) /\ bucket' = bucket + 1
    /\ UNCHANGED <<peers, changes, g_opentracker_running, task, top, reply>>

\* The end on every path: the counters are shifted to nothing, which frees the nodes.
Free(cs) == counters' = Shifted(cs, WIDTH) /\ node' = Kept(Shifted(cs, WIDTH))

\* Mutant: what has been built so far stays.
slash24s_bailout_Leak ==
    /\ task = "slash24s" /\ bucket <= Len(Buckets) /\ Goes
    /\ task' = "none" /\ reply' = [kind |-> "failed"]
    /\ UNCHANGED <<peers, changes, g_opentracker_running, bucket, node, counters, top, seen>>

\* bailout_unlock: there is no memory for a node of some peer; those above it are there.
slash24s_bailout ==
    /\ task = "slash24s" /\ bucket <= Len(Buckets) /\ Goes
    /\ \E m \in Met(bucket) : ~(NodesTo(m.ip) \subseteq node)
    /\ Free(counters) /\ task' = "none" /\ reply' = [kind |-> "failed"]
    /\ UNCHANGED <<peers, changes, g_opentracker_running, bucket, top, seen>>

\* bailout_error
slash24s_stopped ==
    /\ task = "slash24s" /\ ~Goes
    /\ Free(counters) /\ task' = "none" /\ reply' = [kind |-> "failed"]
    /\ UNCHANGED <<peers, changes, g_opentracker_running, bucket, top, seen>>

\* The tree is built. Now analyze
slash24s_end ==
    /\ task = "slash24s" /\ bucket > Len(Buckets) /\ Goes
    /\ reply' = [kind |-> "slash24s", small |-> stats_get_highscore_networks(MAXDEPTH),
                 large |-> stats_get_highscore_networks(LIMIT)]
    /\ Free(counters) /\ task' = "none"
    /\ UNCHANGED <<peers, changes, g_opentracker_running, bucket, top, seen>>

\* stats_top_txt: the torrents of a bucket are compared with those in the lists.
ValueIn(l, t) == Cardinality(IF l = "peers" THEN peers[t] ELSE peers[t] \cap Seeders)
Compare(l, ts) ==
    LET after[n \in 0..Len(ts)] ==
          IF n = 0 THEN top[l] ELSE Listed(after[n - 1], ValueIn(l, ts[n]), <<ts[n]>>)
    IN  after[Len(ts)]
top_bucket ==
    /\ task = "top" /\ bucket <= Len(Buckets) /\ Goes
    /\ top' = [l \in Lists |-> Compare(l, Buckets[bucket])]
    /\ seen' = seen \cup Met(bucket) /\ bucket' = bucket + 1
    /\ UNCHANGED <<peers, changes, g_opentracker_running, task, node, counters, reply>>

top_end ==
    /\ task = "top" /\ (bucket > Len(Buckets) \/ ~Goes)
    /\ task' = "none"
    /\ reply' = IF Goes THEN [kind |-> "top", lists |-> top] ELSE [kind |-> "failed"]
    /\ UNCHANGED <<peers, changes, g_opentracker_running, bucket, node, counters, top, seen>>

StatsNext ==
    \/ \E t \in Torrents_of, ip \in Addresses_of : Change(t, ip)
    \/ Stop
    \/ \E kind \in {"slash24s", "top"} : stats_make(kind)
    \/ slash24s_bucket \/ slash24s_bailout \/ slash24s_stopped \/ slash24s_end
    \/ top_bucket \/ top_end

StatsSpec == StatsInit /\ [][StatsNext]_statsVars

-----------------------------------------------------------------------------

StatsTypeOK ==
    /\ peers \in [Torrents_of -> SUBSET Addresses_of]
    /\ task \in {"none", "slash24s", "top"} /\ bucket \in 1..(Len(Buckets) + 1)
    /\ counters \in [Paths(MAXDEPTH) -> Nat]
    /\ \A p \in node : \E ip \in Paths(MAXDEPTH) : IsPrefix(p, ip) /\ p # ip

\* A list, best last or first, has the names with the highest values of all, each once and
\* with its value; nothing that is missing beats what is there.
Exact(list, best, names, ValueOf(_)) ==
    LET used == {i \in 1..amount : list[i].val > 0}
        worst == list[IF best = 1 THEN amount ELSE 1].val
    IN  /\ \A i, j \in used : list[i].torrent = list[j].torrent => i = j
        /\ \A i \in used : list[i].torrent \in names /\ list[i].val = ValueOf(list[i].torrent)
        /\ \A i \in 1..(amount - 1) :
               IF best = 1 THEN list[i].val >= list[i + 1].val ELSE list[i].val <= list[i + 1].val
        /\ \A n \in names : ValueOf(n) > worst => \E i \in used : list[i].torrent = n

\* The networks of an answer are the busiest of the peers that were read, whichever nodes
\* the tree has and in whatever order the scores come.
NetworksExact ==
    LET Peers(net) == Cardinality({m \in seen : IsPrefix(net, m.ip)})
    IN  reply.kind = "slash24s" =>
            /\ Exact(reply.small, amount, Paths(MAXDEPTH), Peers)
            /\ Exact(reply.large, amount, Paths(LIMIT), Peers)

\* The torrents of an answer are those with the most peers and seeders as they were read.
TopExact ==
    LET All(t) == Cardinality({m \in seen : <<m.t>> = t})
        Seeds(t) == Cardinality({m \in seen : <<m.t>> = t /\ m.ip \in Seeders})
        names == {<<t>> : t \in Torrents_of}
    IN  reply.kind = "top" => Exact(reply.lists["peers"], 1, names, All) /\ Exact(reply.lists["seeds"], 1, names, Seeds)

\* However a count ends, early because memory is short or the tracker stops too, no node
\* of its tree is left.
TreeFreed == task = "none" => node = {}

\* Statistics taken bucket by bucket are exact for what was read and leave nothing behind.
StatsExact == NetworksExact /\ TopExact /\ TreeFreed
=============================================================================
