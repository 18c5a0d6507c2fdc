# TLA+ models of the terasaur tracker

This directory holds TLA+ specifications of the tracker in this repository, the
TLC configurations that check them on small instances, and proofs of their main
invariants for every instance. The modules are written from the source; paths
below are relative to the repository.

- [The system](#the-system)
- [Modules](#modules)
- [What the runs check](#what-the-runs-check)
- [Where the code and its comments part](#where-the-code-and-its-comments-part)
- [What is proved](#what-is-proved)
- [What is not modelled](#what-is-not-modelled)
- [Plan](#plan)

## The system

The tracker is opentracker (C, `src/opentracker`) in a C++ program
(`src/terasaur`) that lets it track only the torrents of a MongoDB database and
keeps their statistics there. A second program in Python (`mqclient`) changes
the database on messages of an AMQP broker and captures history from it.

Threads of the tracker in the default build (`Jamfile`): the event loop
(`server_mainloop`: TCP connections, announces and scrapes over HTTP), the UDP
workers (as many as `main.udp_workers` says), the clean worker (a round over
1024 buckets in two minutes) and the statistics worker. Optional builds add a
worker for full scrapes and a synchronisation thread. All state is in process
memory; only the torrent records survive a restart.

| component | state | operations | interacts with |
|---|---|---|---|
| bucket locks (`ot_mutex.c`) | `bucket_locklist`, `g_torrent_count` | `mutex_bucket_lock`, `mutex_bucket_unlock` | every thread that touches a torrent |
| work queue (`ot_mutex.c`) | `tasklist`, `next_free_taskid`, the self pipe | `pushtask`, `canceltask`, `poptask`, `pushresult`, `popresult` | event loop, statistics and full scrape workers |
| event loop, connections (`opentracker.c`, `ot_http.c`) | `http_data` of each socket, libowfat's entry for it | accept, read, write, timeout, death of a connection | work queue, swarms |
| statistics, full scrape (`ot_stats.c`, `ot_fullscrape.c`) | the worker's task, counters | `stats_make`, `fullscrape_make` | work queue, bucket locks |
| swarm (`trackerlogic.c`) | the torrents, their `ot_peerlist` | announce, stop, scrape, clean | bucket locks, database, cleaning |
| cleaning (`ot_clean.c`) | base of each list, time of each peer | `clean_single_torrent`, `clean_worker` | swarm, database |
| selection of peers (`trackerlogic.c`) | a cursor over the buckets of a list | `return_peers_for_torrent` | swarm |
| database access (`ts_export.cpp`, `torrentdb.cpp`, `torrent_acl.cpp`) | the torrent records, a cache of seed bank addresses | is valid, add seed banks, update statistics | swarm; the Python programs |
| peer vectors (`ot_vector.c`) | sorted vectors, hash buckets | find or insert, remove, redistribute | swarm |
| UDP protocol (`ot_udp.c`) | a packet buffer in and one out for each worker, the key of the connection ids | connect, announce, scrape | swarm |
| answers in memory (`ot_fullscrape.c`, `ot_iovec.c`) | the chunks of an answer, zlib's state | `fullscrape_make`, `iovec_increase`, `iovec_fixlast` | bucket locks, work queue |
| query parsing (`scan_urlencoded_query.c`, `ot_http.c`) | the request buffer, decoded in place | scan of an announce, of a scrape | event loop |
| statistics lists (`ot_stats.c`) | a tree of counted networks, lists of top torrents | `stats_slash24s_txt`, `stats_top_txt` | bucket locks, shutdown |
| access lists (`ot_accesslist.c`) | blessed addresses, networks of proxies | is blessed, address in net | event loop |
| live synchronisation (`ot_livesync.c`), proxy (`proxy.c`) | packet buffers; connections to other proxies, the stream on them | tell, receive, send; connect, handshake, stream | swarm |
| shutdown (`opentracker.c`, `trackerlogic.c`) | `g_opentracker_running` | the signal handler, `trackerlogic_deinit` | everything |
| control over AMQP (`mqclient`) | torrent and seed bank records | handlers of control messages, commands of the command line | database |
| capture of statistics (`mqclient`) | minute, hour and day rows; dates of the last capture and the last message | capture, roll up, send updates | database |

What is hard in it, and what makes each part correct:

- **Bucket locks.** A list of locked buckets under one mutex and one condition
  variable. Correct means exclusion, a list that agrees with the holders though
  locks are given back in any order, no lost wakeup, no overflow of an array of
  `OT_MAX_THREADS` places when there are more threads, and a torrent count that
  is exact although it is updated at the unlock only.
- **Work queue and connections.** Tasks cross threads by socket number. Correct
  means that a task is made once by a worker of its class, that its answer is
  owned by exactly one holder until it is released, that the event loop does not
  sleep over a finished task, that a request is answered or its connection
  closed, and that one connection does not take another one's task away.
- **Swarm and cleaning.** Counters kept beside a list by five operations; ages
  kept relative to a base that announces move; a clock that goes on while an
  operation runs; a database that may fail at each of four statements. Correct
  means exact counters, no peer dropped early, no silent peer kept for long,
  one download per peer, a record that follows the swarm.
- **Selection of peers.** Fixed-point arithmetic with random steps, a walk that
  wraps around and passes empty buckets, a reply filled from both ends.
- **UDP.** Datagrams get lost, come twice and late, and a receive may fail; each worker
  uses one pair of buffers again and again, and a short datagram leaves the end of an
  older one behind it. Correct means that nobody enters a swarm from an address that was
  not told an id, and that an answer goes under the transaction of its own datagram to
  where its id belongs.
- **Full scrapes.** Entries of all buckets are printed, or compressed, into chunks
  that grow while other threads change the buckets that are not locked. Correct means
  every torrent once, nothing lost where a chunk or the compressor's input is full,
  nothing written behind one, and no page given back that holds a part of the answer.
- **Records in the database.** The tracker, the consumer of control messages and
  any number of command lines read and write the same records, each in several
  statements, without transactions. Correct means that an id of a seed bank
  stands for one address for all time, that the tracker's cache of addresses may
  live without being invalidated, and that it is clear which update can be lost.
- **History.** cron starts a capture every minute, whether or not the last one is
  done; each selects what is younger than a stored date and moves the date.
  Correct means that no change falls between two dates and no hour counts twice.
- **Synchronisation.** Two proxies connect to each other at the same time, a second
  thread uses a connection the first may close, and torrents are sent as packed
  blocks that are read in pieces of any length. Correct means one connection for
  two trackers, one greeting on it, and a reader that takes from the stream what
  was written into it.
- **Requests and statistics.** A query is decoded over itself; lists are kept sorted
  while what they are made from changes. Correct means what the query says, and
  exact lists that leave no memory behind.

`PROJECT.json` lists the hazards of the code by line with the properties that
watch them.

## Modules

| module | models | built on |
|---|---|---|
| `TorrentStore` | what the bucket locks promise: what a thread does in its bucket is done at once | |
| `BucketLock` | `ot_mutex.c`: bucket locks, torrent count | implements `TorrentStore` |
| `BucketLockProofs` | theorems about `BucketLock` | `BucketLock` |
| `WorkQueue` | `ot_mutex.c`: queue; event loop, connections, workers | |
| `WorkQueueProofs` | theorems about `WorkQueue` | `WorkQueue`, `SequenceLemmas` |
| `Swarm` | one torrent in memory and in the database | |
| `SwarmProofs` | theorems about `Swarm` | `Swarm` |
| `PeerSelection` | `return_peers_for_torrent` | |
| `UdpTracker` | `ot_udp.c`: workers, their buffers, connection ids, the datagrams of clients | |
| `Fullscrape` | `ot_fullscrape.c`, `ot_iovec.c`: a full scrape, compressed or not, and its memory | |
| `PeerSet` | what the operations on a torrent expect of its peers: a set | |
| `PeerVector` | `ot_vector.c`: how the peers are stored | implements `PeerSet` |
| `AnswersProofs` | theorems about `PeerSelection`, `UdpTracker`, `Fullscrape` and `PeerVector` | these four, `SequenceLemmas` |
| `TorrentRecords` | the records of a torrent and its seed banks, all their users | |
| `TorrentRecordsProofs` | theorems about `TorrentRecords` | `TorrentRecords`, `SequenceLemmas` |
| `StatsCapture` | the history of the counters, messages to the web application | |
| `ProxyConn` | `proxy.c`: connections between proxies, handshake, sending thread | |
| `ProxyConnProofs` | theorems about `ProxyConn` | `ProxyConn`, `SequenceLemmas` |
| `SyncStream` | `ot_livesync.c`, `proxy.c`: from a tracker's packets over the stream to another tracker | `SortedSets` |
| `QueryScan` | `scan_urlencoded_query.c` and the loops of `ot_http.c` over it | |
| `Highscores` | `ot_stats.c`: busiest networks, top torrents | `SortedSets` |
| `StatisticsProofs` | theorems about `StatsCapture` and `Highscores` | these two, `SequenceLemmas` |
| `AccessNets` | `ot_accesslist.c`: lists of networks | `SortedSets` |
| `SortedSets` | arrays in the order of `memcmp` | |
| `SequenceLemmas` | facts for the proofs: least elements, places in an order, inserting into and removing from a list, quotients | |
| `MCBucketLock`, `MCWorkQueue`, `MCSwarm`, `MCStatsCapture`, `MCProxyConn`, `MCSyncStream` | instances for TLC | the module each names |
| `MCClients` | instances of `TorrentRecords`, `UdpTracker` | both |
| `MCPeers` | instances of `PeerSelection`, `PeerVector`, `Fullscrape` | all three |
| `MCParts` | instances of `SyncStream`, `QueryScan`, `Highscores`, `AccessNets` | all four |

`MCClients`, `MCPeers` and `MCParts` put parts that share no state into one run: the variable
`part` says which of them a behaviour is of, and the others stay as they begin.
So a run is the disjoint union of the runs of its parts. In `MCSwarm` the parts are of one
module and differ in their bounds.

Operators keep the names of the functions they model. A definition `X_Y` that
is introduced as a mutant is a variant of `X` with a plausible mistake; it is
not part of the specification and documents what the properties would find.

**BucketLock.** A thread is `idle`, `locking` (it is about to take
`bucket_mutex`), `asleep` (in `pthread_cond_wait`) or `holding` a bucket. Each
critical section of `bucket_mutex` is one action: `Acquire` and `Wait` are the
two outcomes of a turn of the loop in `mutex_bucket_lock`, `Unlock` is
`mutex_bucket_unlock` with its broadcast. `InsertTorrent` and `RemoveTorrent`
are what announces, scrapes and the clean worker do between the two, each
with the delta it computes for the unlock. `counted` is a history variable: the
torrents `g_torrent_count` accounts for. It is what `TorrentStore` calls `store`: there a
thread asks for a bucket (`Begin`) and later its section happens in one step (`Happen`),
which is the unlock of `BucketLock`; everything else is a stutter.

**WorkQueue.** The event loop goes through its loops in the code's order:
`io_wait`, readable descriptors (the self pipe, the listener, sockets),
finished tasks, writable sockets, timed-out sockets. The workers go through
`poptask`, `make`, `pushresult` and the byte they write after it has released
the lock (`pushresult_signal`). Critical sections of `tasklist_mutex` are one
action each. A connection is the part of `http_data` and of libowfat's entry
that decides when it can die: flags, wanted events, timeout, batch. A socket is
reused as soon as its connection is closed; `conn[s].id` is a history variable
that tells the connections on it apart. An answer is the identity of its memory
(`memory` is the set of live allocations).

**Swarm.** One torrent: operations on one torrent exclude each other by the
bucket lock, which `BucketLock` establishes, so an operation is a sequence of
steps of `op` between which only the clock (`Tick`) and the clients of the database
(`Edit`) move. An announce runs `Announce`, `Reject` or `Find`, the cleaning,
`Touch`, `AddSeedbanks`, `Insert`; a cleaning runs `Evict` or an early return, then
`Rebase` with the second reading of the clock. `Stop` is atomic: it reads
neither clock nor database. `TicksInside` and `DbFails` switch the hard
environment on and off. `CleanGap` is the time the clean worker needs to come
back to the torrent; the worker itself is the action `Scrape`, which it shares
its code with. `Edit` is what `mqclient` does to the record while the tracker keeps the
swarm: `Withdraw` deletes it, `Publish` inserts one with counters of zero, `EditSeedbanks`
sets the list of seed banks, and `ReadRecord` and `SaveRecord` are the two halves of
`update_torrent`, which writes back all counters of the copy it has read. What a save does
to a record that was replaced meanwhile is left open, as in `TorrentRecords`. `CopiesSaved`
switches the last two on. `seen`, `touched`, `dirty` and `lost` are history variables: `dirty`
says that the record's seeds and peers may differ from the swarm, `lost` how many downloads of
the list the record has not, because a statement failed or found no record or because a
client took them back.

**PeerSelection.** A sequential function as a state machine, one action per
turn of each of its loops; the random numbers are choices. A peer is a pair of
bucket and place. `MAXPRECBIT` is the highest bit of the fixed-point numbers; the
number of peers, which the code keeps in the list, is that of the places
(`VectorsExact` of `PeerVector` has it that they agree).

**UdpTracker.** A worker receives a datagram into its buffer (`Receive`, which may
also fail and leave what was there). `Overwritten` is the buffer after it: a field that the
datagram does not reach stays as it was, an id or a hash it reaches a part of is `Mixed`, which
stands for one that is nobody's; before the first datagram the buffer holds anything
(`Leftovers`). The worker handles it under the bucket lock and sends its
answer (`SendAnswer`). The disjuncts between are the returns and branches of
`handle_udp6`. A datagram's number is its transaction id; `Receive` takes any one
that was sent, any number of times. `told` is a history variable: the addresses that
were sent an id; `received` of a peer says that the announce it entered with was received, and
not what a failed receive left. The cipher that makes an id is an injective function of the
address; the key of the hour and the age that `udp_make_connectionid` computes are
not used by it, so an id stays valid as long as the program runs.

**Fullscrape.** `Start` to `Finish` are `fullscrape_make`, `Deliver` is what
`fullscrape_worker` does with the answer, `OtherThread` what announces and cleaning do
to the buckets that are not locked. A chunk is what is written to it, its `iov_len`
and the pages that are mapped; `re` is the watermark the code compares with. zlib
may hold back any part of what it has read, and a byte stands for itself: that is
where the lengths matter. `printed`, `throughout` and, in each chunk, `from`, the number of
bytes in the chunks before it, are history.

**PeerVector.** `list` is the `ot_peerlist`: `peer_count` and a vector, whose
members are peers or, when its space is less than their number, vectors. The
calls of `ot_vector.c` under one lock are one action each: `Announce` is
`vector_find_or_insert_peer` with what each caller does to the place it returns,
`Stop` is `vector_remove_peer` with the counter, `Clean` is the middle of
`clean_single_torrent` with the redistribution at its end. Which peers are
overdue is a choice here; `Swarm` says which. `answer` is the return value, by
which `PeerSet` tells a peer that was there from one that was not. The set is
the one `Swarm` works on: its actions change `peers` as `PeerSet` changes
`seeding`. Loops are functions applied so many times (`Iterated`): a round of
`binary_search` is `Look`, one of `vector_fixup_peers` is `Shrink`. What `qsort` leaves of a
bucket is `Sorted`.

**TorrentRecords.** A client is the consumer of control messages or a command
line: `handle_action` begins an operation, and each statement to the database is
one action (`find_seedbank`, `get_next_seedbank_id`, `save_seedbank`, `find`, then
the save the operation ends with). The tracker's thread goes through
`hashisvalid`, `get_seedbanks`, one `get_seedbank_for_id` for each id, and
`update_stats`, as it does under the bucket lock. `terasaur.db`, through which the
clients save, is not in the repository: `driver` chooses whether a save of a record
that has an `_id` replaces it or sets fields, and whether a refused insert is
reported. `asked`, `expected` and `stale` are history variables: the ids taken for
an address, what single-step operations would have given, and whether somebody
has saved a copy that was out of date.

**StatsCapture.** A capture is `_capture_minute`, `_capture_hour`, `_capture_day`,
one action for each statement; cron starts it in any minute after the last start
and it may end after any statement. An update of a record reads the clock
(`get_now_mongo`) before the statement that stores it. The sender of updates is
`update_start`, `update_find`, `send_stats_update`, `update_end`. Rows are pairs of
a torrent and a date. `captured`, `late` and `disturbed` are history variables.

**ProxyConn.** Every event `server_mainloop` of a proxy is told of is one action:
`handle_accept`, `handle_read`, `handle_write` by the state of the slot, and the
alarm, `handle_reconnects`. The sending thread is `streamsync_check`, which finds a
slot connected, and `streamsync_add`, which uses whatever is in the slot then. A
connection is two streams of which everything written is on record (`log`).

**SyncStream.** `livesync_tell` and `livesync_ticker` fill and send a tracker's
packets, `livesync_handle_peersync` puts them into the proxy's torrents,
`streamsync_worker` takes a bucket out as bytes (`Blocks`: type 1 and type 2 for
torrents with one and two peers, type 0 for the others and for what is too few for
a block of its own), `handle_read_stream` reads any number of bytes and runs
`process_indata`, which tells peers to the other group. A torrent longer than `indata` fills it;
the next read asks for no bytes, which counts as a close (`handle_read_full`), and everything on
the connection is lost. `sent` is a history variable: the records in the order they were
streamed, without those that were lost like that.

**QueryScan.** One action per call of the scanner by the loops of
`http_handle_announce` and `http_handle_scrape`, with the decoding in place. A
character is a number; `Meaning` and `Scraped` are the reference definitions, on
the query as it came.

**Highscores.** `stats_make` starts the worker, `slash24s_bucket` and `top_bucket`
read a bucket, `slash24s_bailout` is the end without memory, `slash24s_stopped` and
`Stop` the shutdown, `slash24s_end` and `top_end` make the lists. Peers come and go
between two buckets (`Change`). `seen` is a history variable.

**AccessNets.** `set_value_for_net`, `loglist_reset`, and the lookup
`get_value_for_net`. `members` is the set the header promises.

## What the runs check

All sizes are small because every property speaks about two or three actors;
each bound is named in the module and listed here.

| run | properties | instance |
|---|---|---|
| `BucketLock_safe` | `TypeOK`, `LocksExact`, `SleepersBlocked`, `TorrentCountExact`, `SectionsAtomic` | 4 threads, 3 buckets with two, one and no torrents, 2 places: the list overflows and threads wait for a bucket and for a place |
| `BucketLock_live` | `BucketServed` | 4 threads and 4 places, 2 buckets: two threads can hold and two wait for different buckets, which is what a single wakeup could get wrong |
| `WorkQueue` | `TypeOK`, `OneWorkerPerTask`, `NoResultStranded`, `AnswersHeldOnce`, `RequestKept`, `WaitingStaysOpen`, `EventuallyAnswered` | both workers, one type of task for each, 2 descriptors, 2 connections (on one descriptor after the other, too), 2 requests |
| `Swarm_hard` | `TypeOK`, `CountsAgree`, `NoEarlyEviction`, `KeptWhileUseful` | minutes end inside operations, the clean worker may not come at all, every statement to the database may fail; timeouts of 2 and 4 minutes and 5 minutes, which is more than the torrent's timeout after a first announce; the torrent is withdrawn and published again |
| `Swarm_record` | `RecordFollows`, `StalePeersGone`, `CompletedOnce` | 2 peers, one of them a seed bank too; timeouts of 2 and 4 minutes; the clean worker comes every 2 minutes and no minute ends inside an operation; statements may fail. In the part `record` clients withdraw, publish and save copies of the record between any two steps: a copy can be saved before, in the middle of or after an announce, and after the torrent was removed and added again; one minute with 2 downloads or two with one. In the part `pace` they leave it alone; 5 minutes, one more than a peer may stay after its last announce, 2 downloads |
| `Peers`, selection | `SelectionExact`, `Ends` | five layouts of up to 6 peers with empty buckets in every place, every amount up to 7, every choice of seeders and random numbers, the code's 2^29 |
| `Peers`, vectors | `VectorsExact`, `NoThrashing`, `ImplementsSet` | 5 peers in 1, 2 or 4 vectors, the code's ratios, its limits scaled to 5 peers so that each range of `num_buckets_new` has a number of peers; hashes that put three of them into one bucket, more than is allocated in advance; allocations may fail |
| `Clients`, database | `SeedbanksAgree`, `ExactUnlessStale` | 2 clients and the tracker, 2 addresses, 4 operations (add a torrent, give it a seed bank, and two that overlap), 1 announce; every choice of `driver` |
| `Peers`, full scrape | `ScrapeExact` | 4 torrents in 2 buckets, entries of 1 and 2 bytes, chunks of 8 bytes in pages of 2, so that the first two chunks can fill to the last byte; plain and compressed, framed and not |
| `Clients`, UDP | `UdpExact` | 2 workers, 2 clients, 2 torrents, 2 datagrams of seven kinds: every action, announces that end a byte early and behind the header, and an action that does not exist in a datagram that is too short; each may be received any number of times, over any older one or what the memory held, which looks like a connect or like an announce |
| `StatsCapture` | `UpdatesExact`, `RowsOnce` | 1 torrent, 2 captures that may overlap, an hour of two minutes and a day of two hours, the first three minutes of a day, 3 starts of a capture or a sending, 2 updates |
| `ProxyConn` | `SlotsAgree`, `GreetsOnce`, `MadeStays` | 2 proxies, each told to connect to the other, 2 slots each, 3 connections of which one may break |
| `Parts`, stream | `StreamExact`, `PeersDelivered` | bytes of 3 bits, counts of 2 bits each, so that a count and a header's number take two bytes; packet buffers of 2 records; 3 tells, 2 packets on their way, 1 lost; five sets of torrents to begin with, which between them have blocks of each type alone and together, and a torrent that is a byte longer than `indata` |
| `Parts`, scan | `QueryRead` | every query of up to three out of 16 pieces, and of four out of the 12 that are neither cut nor forbidden: keywords, values, escapes that are whole and cut, separators, characters that may not be there; hashes of 2 characters, 1 torrent in a scrape |
| `Parts`, statistics | `StatsExact` | 3 torrents in 2 buckets, 4 addresses in a binary tree of depth 3, lists of 2 places, one torrent with a peer at most to begin with, 1 peer that comes or goes |
| `Parts`, networks | `LookupExact` | addresses of 2 bytes of 3 bits, all networks in the upper quarter and all with less than two bits, 3 of them added in any order |

`PartsTypeOK` is the type invariant of the four parts; `SelectionExact`,
`VectorsExact`, `SeedbanksAgree`, `RowsOnce` and `SlotsAgree` have the type
invariant of their module as a conjunct. `SelectionExact` is `PicksDistinct`,
`RangeNotEmpty` and `ReplyFull`; `VectorsExact` is `FoundAndCounted`, `RoomForAll` and
`BucketsSettle`; `SeedbanksAgree` is `IdsMeanOneAddress`, `CacheNeverStale` and
`LastSeedbankAdded`; `SlotsAgree` is `SocketsOwned` and `OneConnectionPerPeer`;
`LocksExact` is `MutualExclusion` and `LocklistExact`; `UpdatesExact` is
`UpdatesCaptured` and `UpdatesSent`; `ScrapeExact` is `NothingLost`,
`InsideMemory` and `AnswerWhole`; `UdpExact` is `PeersAnnounced`, `AnswersOwn` and
`AnswersBounded`; `StreamExact`, `PeersDelivered`, `QueryRead` and `StatsExact` are
put together likewise, from parts that stand before them in their modules.

Runs of safety properties whose processes are alike use symmetry
(`BucketLock_safe`, the UDP side of `Clients`, `StatsCapture`, `ProxyConn`).

What they show, beyond the types:

- No interleaving of locks and unlocks lets two threads into a bucket, leaves a
  thread asleep in front of a free one, or makes the torrent count drift, also
  when there are more threads than places. (The list can be full although
  `ot_mutex.c:43` says this should not happen: nothing bounds `main.udp_workers`
  by `OT_MAX_THREADS`. Threads then wait for places, which is slow and safe.)
  `SectionsAtomic` sums it up: `BucketLock` implements `TorrentStore`, so the rest of the
  tracker may take what a thread does in a bucket as one step; `Swarm` relies on it.
- An answer is in one place from the worker to the socket; closing a connection
  while its task is queued or being made neither leaks nor frees it twice.
  `WaitingStaysOpen` shows that a connection marked as waiting cannot be closed
  at all, from which it follows that `mutex_workqueue_canceltask`, whose search
  loop would unlink the tasks of others, is never reached with such tasks. In the
  default build the mark is never set.
- The order of "mark the task, unlock, write the byte" in the worker and "read
  the pipe, look for finished tasks" in the event loop loses no answer.
- The counters of a swarm stay exact on every path, also with failing
  statements, seed banks among the peers, and records withdrawn, published and edited in the
  middle of an announce. A peer is never dropped early, although the clock is read three
  times in an operation.
- Whatever a client writes into the record, the next announce that reaches it puts the seeds
  and peers right. Downloads are counted once each but not repaired, as the tracker only
  adds to them: what an old copy or a withdrawal takes back stays lost, and no more than that.
- Peers are found after any sequence of insertions, removals and moves between
  one vector and many; allocations that fail on the way lose nobody. The number
  of buckets does not alternate between cleanings. It may between peers: with
  64 buckets 8191 peers stay in 64 and 8193 need 64, but 8192, which
  `ot_vector.c:180` leaves to its last case, are moved to 16.
- The fixed-point steps never make an empty range for the modulo, and never add
  up to more than a round.
- No datagram, however old or often received, makes a peer of an address that was
  not told its id, and an announce that was received has nothing of what an older datagram
  left behind it, as one of less than 98 bytes is not handled. (A scrape that ends inside a hash
  takes the rest of that hash from there, and is answered about it.) After a receive that
  failed a worker handles what its buffer held, which can be the id of one datagram and the
  hash of an older one, of another client. It answers only if the id is that of the
  address left in the other variable; a client can so enter a swarm another one announced
  itself in, and `UdpExact` claims no more for such peers than that their id and that hash
  were sent.
- A full scrape lists what was there from its beginning to its end exactly once, in
  whole entries, although buckets change behind and before the worker, and neither a
  chunk nor the buffer for zlib overflows.
- Whatever clients do at the same time, an id never comes to mean two addresses,
  and the tracker's cache is right for ever, because stored seed banks never
  change. Of the records only what a save of an outdated copy overwrites is lost.
  That is the condition of `ExactUnlessStale`, and such saves are possible: a client may undo what the tracker
  or another client stored in between, and may bring a removed torrent back.
- No change of a record is lost to the history or to the web application, though
  captures overlap, break off, and put the date of the last capture back; except a
  change that is dated before a selection and stored after it, which waits for the
  next change of the record. An hour has one row, a day has one unless captures
  overlapped or failed.
- Two proxies that connect to each other never keep two connections, no socket is
  lost, and the race of the sending thread with the handshake makes no end greet
  twice.
- Until it goes astray (below), the stream is read as it was written, however it is cut, also
  after the reader closed a connection on a torrent that was too long for it, which nothing
  else makes it do,
  and nothing waits in the reader for bytes that do not come: a torrent of a type 1
  block is a byte shorter than what the reader asks for, but such a block is never
  the last of a bucket.
- A query means what it says although it is decoded over itself, and every call of
  the scanner ends the loop or moves on. Left out are queries with the characters
  that `is_unreserved` does not know: `BAD` characters have no flag and separate
  like `&` when a value is skipped; `ODD` ones are marked as terminators but end no
  parameter.
- The networks and torrents listed are exact for the peers the worker has read, and
  the nodes of its tree are freed on every path.

**Fairness.** `BucketLock_live` assumes weak fairness of `Acquire`, `Wait` and
`Unlock` of each thread: threads are scheduled, and no section between lock and
unlock waits for another bucket. It does not assume that the mutex is fair;
hence `BucketServed` speaks about a bucket being held by somebody, not about a
particular thread, and it needs as many places as threads: with fewer, threads that
take turns on other buckets can keep the list full. `WorkQueue` assumes
weak fairness of each worker and of the event loop's own steps; `io_wait` must
return only if there is a byte in the pipe, so that the property cannot lean on clients
or on the alarm signal. `PeerSelection` is a function that runs on
(`SelectionRunsOn`). No other run assumes fairness: that a scan ends is the
invariant `ScanAdvances` of the rounds.

**Deadlock** is checked in every run but `Parts` and `SyncStream`, whose behaviours
stop: a scan ends, a statistics task is made once, a list is full, and the bounds
end the stream. `Finished` of `PeerSelection` and of `StatsCapture`, the
clients' edits and late announces in `Swarm` and the receives of `UdpTracker` are steps that stay enabled at the end.

## Where the code and its comments part

Two runs are expected to fail; each checks what a comment of the code says.

| run | comment | what happens |
|---|---|---|
| `WorkQueue_late` | `ot_http.c:133`, who comes here has waited for the answer | the statistics handler does not mark the connection as waiting; if it is closed its task stays, and the answer goes to the next connection on the socket |
| `SyncStream` | `proxy.c:248`, `packet_tcount` is the number of unprocessed torrents | `streamsync_worker` writes blocks without torrents (a bucket with one-peer torrents only ends in an empty type 2 block, one with two-peer torrents only begins with an empty type 1 block); `process_indata` begins such a block and then takes a torrent from the bytes that follow, if there are enough: the counter wraps around and no header is found any more |

The model does not follow a stream further once it is astray; the properties of
the stream are about streams that are not.

Other things met while modelling, which no run is about:

- `ot_http.c:136` says that answers never are 0 vectors; modes that are accepted
  but not compiled in have such an answer, and `http_senddata` then closes the
  connection without releasing an answer that is still being sent. `WorkQueue`
  leaves such modes out.
- `ot_clean.c:110` says an empty torrent was touched `OT_PEER_TIMEOUT` minutes
  before; a stop may have emptied it a minute ago. It is then forgotten early,
  unless it was downloaded (`KeptWhileUseful`).
- `stats_issue_event`: the case for scrapes runs on into the one for full
  scrapes. The answer
  for /24 networks begins with a list of /28 ones.
- `ot_stats.c:179` copies overlapping memory with `memcpy`; the model takes it as a
  move.
- `proxy.c:267` says that of two connections to one tracker the incoming one is dropped; the
  code drops an outgoing one too, so that two proxies may close both and try again
  half a minute later. `handle_write`'s default branch, which "should not happen",
  is reached through a late `io_wantwrite`, and the slot then stays as it is.
- A bucket is freed after it was streamed, whether or not anybody was connected.
- `torrent_stats_capture.py` promises 168 hours; an hour whose first minute has no
  capture is skipped. The averages divide by a constant number of rows.
- A failed connection to the database yields an empty record that refuses the
  announce; an exception a null pointer that is used (`torrent_acl.cpp:46`). An
  `update_torrent` that names the field `published` ends in a `NameError`
  (`torrent.py:85`). With a driver that replaces records, a save drops the list of
  seed banks, and reading the record fails after that.
- `get_value_for_net` steps back by the size of a log list's entry whatever `member_size` is
  (`--net`, `ot_accesslist.c:193`); the entries of the proxy list are longer. `LookupExact` is about
  the log list only.
- `ot_udp.c:38` makes a key of the hour, which ends up in no connection id.
- `ot_udp.c:70` says that the test for short packets also catches errors; `byte_count` is unsigned,
  so that a failed receive passes for a long datagram and the buffer is handled again (`Receive`).
- `proxy.c:402` says that `indata_length` is less than 20+256*7 for incomplete torrents. It is not for
  a torrent of more than 256 peers, whose number may take any number of bytes. With more than about
  18700 `indata` is full, and the read of 0 bytes that follows closes the connection
  (`handle_read_full`).
- `ot_iovec.c:24` looks for the null pointer, but `mmap` fails with `MAP_FAILED`. An
  answer that ends on the border of a page keeps a page more than it needs.
- A network given with bits behind its prefix never matches in its last, partial
  byte; `AccessNets` takes those bits as zero.

## What is proved

The proofs are checked by TLAPS for every value of the constants. They assume only
the named assumptions of the modules. These say that the sets of threads, torrents
and peers are finite, that things told apart by the code are told apart by the model
(descriptors of the event loop, a proxy's id and `None`, an address and the number that
stands for no id), and what the code's constants are like: at least one place in
`bucket_locklist`; the timeout of a peer positive and less than that of a torrent;
hours of whole minutes, days of whole hours, rows kept for longer than it takes to sum
them up; a list of peers to connect to that fits `MAX_PEERS`; a torrent's peers fewer
than `2 * MAXPRECBIT`, which is 2^30; entries of a full scrape shorter than
`OT_SCRAPE_MAXENTRYLEN`, and chunks of whole pages, longer than two entries; vectors that
grow and shrink by a ratio of at least 2, below a share of their space
(`OT_VECTOR_SHRINK_THRESH`) that is at least `OT_VECTOR_GROW_RATIO` and twice
`OT_VECTOR_SHRINK_RATIO`, as it is in `ot_vector.h`; limits of `num_buckets_new` that increase;
a list of statistics with at least one place, addresses that have the digits counted
of them, each torrent in one place of one bucket, and in a smallest network fewer peers of
all torrents than `2 ^ WIDTH`, which is 2^31. No bound of
a run is among them: `MaxRequests`, `MaxTime` and the like are any number.

Few of the invariants are inductive as they stand. What is added to make them so is the
named formula `IInv` of each module; `AnswersProofs`, which is about four of them, has
`SelectionIInv`, `UdpIInv`, `ScrapeIInv` and `VectorIInv`, and `StatisticsProofs` has `StatsIInv`
for `Highscores`.

**`BucketLockProofs`**: the four invariants of `BucketLock_safe` and the refinement. `IInv` adds that only a
thread in a section names a bucket, and the accounts of the counter: the torrents in
`torrents` and not in `counted`, or the other way round, are all in held buckets, and
the delta of a holder is the difference in its bucket. The heart of the argument is
`Unlock`: taking the first entry for the bucket out of the list is taking out its only
one, because entries are distinct, and moving the bucket's torrents into `counted`
changes its size by the delta. For the refinement, `SectionOK` says what a holder has done
to its bucket since it was given back last (nothing, one torrent more or fewer, any fewer,
as its job is); it is kept because the others are in other buckets. An unlock then makes
of `counted` what the job may make of it, and by the accounts `g_torrent_count` is
its size at every moment.

**`WorkQueueProofs`**: the invariants of the run `WorkQueue`, and `NoTaskCancelled`. `IInv`
ties the parts of the queue together:

- `TasksDiffer`, `WorkersOwn`, `AnswersApart`: a request is one task and an id is one
  task's; a busy worker has the id of a task that stays in the list (`TasksStay`), and no
  answer before it is made; the answers in tasks, workers and connections are disjoint
  and allocated.
- `ConnectionStates`: a connection reads, waits or writes. One that waits wants no
  write and has no timeout, so no event can close it; from this follows
  `WaitingStaysOpen`, and that `canceltask` never finds a task to cancel.
- `Signalled`: between `pushresult` and the end of the event loop's round there is the byte,
  a worker about to write it, or the loop on its way to `popresult`; this is
  `NoResultStranded`.
- `IdsCounted`: ids given out and requests not yet taken are at most the requests made.

That no answer is forgotten is claimed, in the theorem as in the run, where no type of
task has answers of 0 vectors.

**`SwarmProofs`**: all properties of `Swarm`. `IInv` consists of

- `OpOK`: an operation that has passed its checks is on a torrent that is known,
  after `Touch` the base is a point in time, and the bound on downloads has room;
- `CountsAgree`, which is inductive by the lemmas on cardinalities `CountWith` and
  `CountWithout`;
- `AgesBounded`: for each peer, the minute it was heard of plus the time the
  list keeps for it is at most the base, or at most the current minute between
  `Evict` and `Rebase`. Aging by the time since the base keeps it, because the
  clock is read again, never earlier, for the new base; `Touch` moves the base
  only forward. From it a peer that is dropped was silent for the timeout.
- `CountedHasFlag`: a peer counted as a download carries its flag.

`DownloadsCountOnce` and `RecordCorrect` add one more inductive formula each,
that the record and `lost` together count what the list counts, and that the record equals the
counters, unless it is dirty, outside the two places where an operation has changed them and
not stored them yet. Both hold whatever clients save and withdraw; what they do to the record
is in `dirty` and `lost`. `TorrentKept` adds `BaseFollowsTouch`: the base is not before the last
announce while there are peers, and at most a peer's timeout before it without.
`SilentPeersGo` needs the opposite of `AgesBounded`, `PaceKept`: the age the list keeps
is not too little. It holds only while the clean worker keeps its pace, so the theorem
is under the hypotheses that no minute ends inside an operation (`~TicksInside`) and that
the clean worker comes back before a torrent idles out (`CleanGap <=
OT_TORRENT_TIMEOUT`). The run `Swarm_record` satisfies both. Without the first, a minute that
ends between the two readings of the clock is lost to the ages of the peers.

**`TorrentRecordsProofs`**: `SeedbanksAgree` and `ExactUnlessStale`, for both behaviours of
the driver. `IInv` says what each client has learnt before its next statement: the seed
bank in hand has an id that was taken for its address, the copy it is about to save
is of a record that there was, changed as its operation says; and that the
tracker, in the middle of resolving a list, has the address of the id it has just
read. Ids are taken by counting (`IdsCounted`), so an id is taken for one address, and
as a stored seed bank never changes, the cache is right for ever.

**`StatisticsProofs`**: `UpdatesExact`, `RowsOnce` and `StatsExact`.

- Captures: `IInv` says of a process that is
  under way what it has still to do: a change up to its own date is on record or in its
  list (`CapturesComplete`, `SenderComplete`). Rows are told apart by division: an hour is
  captured in its first minute, a minute starts one capture (`MinutesDiffer`), and
  without overlap or failure the date of the last day moves with its row (`DaysApart`).
- Statistics over all torrents: `StatsIInv` relates the worker to what it has read, `seen`.
  A counter is the number of peers in `seen` under it, and every peer of `seen` has its nodes
  (`CountersOK`); the lists of torrents are in order and have the highest values of
  those that were read (`ListsOK`). Peers that come and go do not disturb it, as a bucket is read
  once and its torrents are in no other. The counters below a network add up to its peers
  (`BelowFacts`, by the lemma `SumFacts` on sums over a finite set), and a network that the walk of
  `stats_get_highscore_networks` does not come to has none (`VisitedFacts`). A list that is
  in order stays so, and the best of what was compared, when one more enters
  (`EnterFacts`, `ListedFacts`); from there it is an induction over what is visited, in an order that
  exists because any two networks differ first at some digit (`SortedFacts`). At the
  end each counter is less than `2 ^ WIDTH`, so that the shift leaves nothing of it and every node is freed
  (`Freed`).

**`ProxyConnProofs`**: `SlotsAgree`, `GreetsOnce` and the action property `MadeStays`. `IInv` is
about each end of each connection: what it has written and read by the state of its
slot (`EndProper`), and that a connection of a proxy to itself has two slots
(`SlotsDiffer`). An event touches one connection and the slot that its cookie names;
that the other ends keep what holds of them is one lemma, used in every action. The
sending thread, which uses a slot that may have another connection by now, finds it
connected when it writes, and so after the greeting.

**`AnswersProofs`**: `SelectionExact`, `UdpExact`, `ScrapeExact`, `VectorsExact`, the action
property `NoThrashing` and the refinement `ImplementsSet`.

- The selection of peers: the peers of all buckets have one place each, in a row
  (`PlaceFacts`). The walk of `return_peers_selection` is somewhere on that row, and
  behind its end it is where it began, because all buckets together hold
  `peer_count` peers. `WalkOK` says that it is ahead of its start by at most what the picks so far
  may lead it (`Reach`), and every picked peer behind it. `Reach` rises by one or
  more with each pick, as a step is at least one peer long (`RangeNotEmpty`), and to no more
  than `peer_count`, as the quotient of the shifted number is rounded down: so the walk
  never passes its start again and a peer it picks is a new one. `ReplyOK` keeps the
  two ends of the reply apart; they meet when all is written. No number of
  the fixed-point arithmetic is more than `2 * MAXPRECBIT`.
- UDP: `UdpIInv` ties the buffers to the datagrams that were sent. A buffer is overlaid by
  datagrams of any length; what the last one was long enough for is in it as it was sent
  (`Carried`), and an id or a hash that is not put together of two was sent by somebody
  (`Received`), also after a receive that failed. A datagram carries no id that was not told before.
- Full scrapes: `ScrapeIInv` follows each byte that was printed. It is in a chunk, in what
  zlib holds or in `compress_buffer`, in that order and without a gap, so that the answer
  is what was printed (`StoreOK`). The torrents listed so far are, by where the worker is, those of
  the buckets behind it and the first ones of its own (`Listed`); a place among the
  torrents of a bucket is a number (`RankFacts`), and the bucket stays as it is while it is
  held. No chunk and no buffer is left with less room than the next entry needs
  (`RoomOK`): zlib leaves input only when the chunk is full, and a chunk has room
  for two entries.
- The vectors of peers: `VectorIInv` says that each array is sorted and has room, that a
  peer is in the bucket of its hash, and that `peer_count` is the number of all places.
  The binary search keeps `Narrowed`: a peer that is in the array is among the entries
  that are left to look at, and the place where another belongs is among them or behind
  the last one. The number of entries left goes down with each round, so that as many rounds
  as there are entries end it. From there on an operation on one array is known by its set
  of entries, and the list after it by the union of those of all arrays: that gives
  the counter, and each step as one of `PeerSet` or a stutter. A redistribution, a
  qsort included, is known by the same means, as a bucket gets the entries of its hash in the order of
  their peers. `NoThrashing` is arithmetic about what the two loops leave: the space behind
  `vector_fixup_peers` is more than the size, because the threshold is at least
  twice the ratio.

Induction appears in these proofs as the least element of a set of numbers: the least
round after which a formula about a loop did not hold, or the least size for which a
fact about sets is wrong (`NumbersInduction`).

`SequenceLemmas` holds what several of these need of the community modules: the
least element of a set of numbers, which is what the searches of the code find, the
insertion and removal of an entry of a list, the place of a number among others, products and
quotients.

**Only model-checked**, and why:

- All liveness (`BucketServed`, `EventuallyAnswered`, `Ends`): TLAPS does not reason about
  fairness and `ENABLED`.
- `SyncStream`, `QueryScan`, `AccessNets` and with them `MCParts`: parsers and a binary
  search that are `RECURSIVE` operators, which TLAPS cannot be used with.

## What is not modelled

- Failing allocations outside `PeerVector` and `Highscores`: the code has an error
  path for each, the models take memory to suffice. One of these paths keeps its
  bucket locked (`proxy.c:131`).
- A clock that is set back: `now` of `Swarm` only grows.
- Texts: paths of requests, bencoding, the layout of statistics, logging. Numbers
  in queries are short enough for an `int`.
- `libtorrent`, Rijndael, libowfat and MongoDB: third-party code. libowfat's
  events and MongoDB's statements appear as the environment of the event loop,
  of an announce and of the clients.
- That the event loop and the UDP workers read one socket, which may block; and that the event
  loop receives datagrams into the buffer that it reads HTTP requests into. `UdpTracker` is about the
  workers, whose buffers hold datagrams only. What an
  announce over UDP does to a swarm is in `Swarm`, which threads lock its bucket in
  `BucketLock`.
- Shutdown: the signal handler frees the torrents while other threads may use
  them; what comes out of that is undefined, and the process ends after it. That
  the readers of the buckets notice `g_opentracker_running` is in `Highscores`.
- Access lists of hashes read from a file: replaced by the database in this
  program. `proxylist`, with the lookup among its longer entries, and the list of blessed
  addresses.
- `ot_sync.c` is older code no build switch reaches. Live synchronisation, the proxy
  and the lists of networks are optional and not in the default build; they are
  modelled as they are when built. With UDP workers `livesync_tell` is called by
  several threads without a lock; `SyncStream` is a tracker without them.
- In `StatsCapture`: more than one process that sends updates. The commands that send can
  overlap as captures do; the module has one `update` at a time, and `UpdatesExact` is about it.
- In `SyncStream`: the time a connection is down after it was closed on a torrent that was too
  long. What is streamed meanwhile is lost, as a bucket that finds nobody connected is.
- In `ProxyConn`: events that were already fetched for a descriptor that is closed
  and used again.
- In `Swarm`: several torrents (they share nothing but the locks), the loading
  of a saved state. In `Swarm` a database failure while the access list is asked
  is taken to refuse the announce.
- The width of `int` in `PeerSelection`: `bucket_offset` is never more than twice the
  number of peers, which is proved; the product in the length of a step is at most
  `2 * MAXPRECBIT`, which is `PrecisionAssumption`.
- The counters of `stats_issue_event`, which several threads change without a lock;
  values in a history row beyond whether there is one.

## Plan

Done: all modules of the table with their runs; theorems about all but `SyncStream`, `QueryScan` and `AccessNets`. Next, in
this order:

1. An abstract specification with a proved refinement: one owner for each answer, which
   `WorkQueue` implements.
2. A model of the one socket that the event loop and the UDP workers read.
