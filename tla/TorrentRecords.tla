--------------------------- MODULE TorrentRecords ---------------------------
(***************************************************************************)
(* The records of one torrent and of the seed banks in the database, and   *)
(* everybody who uses them.                                                *)
(*                                                                         *)
(* Clients are the consumer of control messages (mqclient) and every run   *)
(* of the command line tool on the database: they read a record, change    *)
(* their copy and save it in a later statement.  The tracker, under the    *)
(* lock of the torrent's bucket, asks whether the torrent is known, reads  *)
(* its seed banks through a cache and updates its counters.  A statement   *)
(* to the database is one step, nothing else is.                           *)
(*                                                                         *)
(* terasaur.db, which makes the statements of the clients, is not in the   *)
(* repository.  What cannot be told from its use is the choice "driver":   *)
(* whether a save with an _id replaces the record or sets the fields it    *)
(* has, and whether a refused insert is reported.  The index on info_hash  *)
(* is taken to be unique, as the class says of the field.                  *)
(***************************************************************************)
EXTENDS Integers, Sequences, SequencesExt, FiniteSets

CONSTANTS
    Clients,      \* processes that change the records
    Addresses,    \* addresses of seed banks
    MaxOps,       \* bound: operations of clients
    MaxAnnounces  \* bound: announces of the tracker

ASSUME BoundsAssumption == MaxOps \in Nat /\ MaxAnnounces \in Nat

ASSUME AddressesAssumption == Addresses # {}

VARIABLES
    driver,      \* how terasaur.db saves
    torrent,     \* the torrent's record
    seedbanks,   \* the collection of seed banks
    counter,     \* counters.seedbank_id
    client,      \* each client: its operation, where it is, what it has read
    ops,         \* operations started
    tracker,     \* the tracker's thread: where it is, what it has read
    cache,       \* _seedbank_map
    announces,   \* announces started
    asked,       \* history: <<id, address>> for every id taken for an address
    expected,    \* history: the record that the operations give when each is one step
    stale        \* history: a copy was saved after someone else had changed what it was read from

database == <<torrent, seedbanks, counter>>
history == <<asked, expected, stale>>
vars == <<driver, database, client, ops, tracker, cache, announces, history>>

\* The values of the field seedbanks that are not a list of ids.
Null == <<0>>
Missing == <<-1>>

\* The absence of a record.  An oid is the order of its insertion.
NoTorrent == [oid |-> 0, seedbanks |-> Null, completed |-> 0]
NoSeedbank == [id |-> 0, address |-> CHOOSE a \in Addresses : TRUE]

Operations == {"add_torrent", "remove_torrent", "add_seedbank", "remove_seedbank", "update_torrent"}

\* What an idle client has: nothing it has read is kept for the next operation.
Idle == [pc |-> "idle", op |-> "add_torrent", sb |-> NoSeedbank, torrent |-> NoTorrent, list |-> Null]
Resting == [pc |-> "rest", list |-> <<>>, next |-> 1, ip_port |-> {}]

Init ==
    /\ driver \in [save : {"replace", "merge"}, reports : BOOLEAN]
    /\ torrent = NoTorrent
    /\ seedbanks = {}
    /\ counter = 0
    /\ client = [c \in Clients |-> Idle]
    /\ ops = 0
    /\ tracker = Resting
    /\ cache = {}
    /\ announces = 0
    /\ asked = {}
    /\ expected = [known |-> FALSE, seedbanks |-> {}, completed |-> 0]
    /\ stale = FALSE

\* The ids in a list that may be null or missing.
Ids(list) == {list[i] : i \in DOMAIN list} \ {0, -1}

-----------------------------------------------------------------------------
(* Clients. *)

\* _handle_action, or the command line: an operation begins.
handle_action(c) ==
    /\ client[c].pc = "idle"
    /\ ops < MaxOps
    /\ ops' = ops + 1
    /\ \E op \in Operations :
         IF op \in {"add_seedbank", "remove_seedbank"}
         THEN \E a \in Addresses :
                client' = [client EXCEPT ![c] = [Idle EXCEPT !.op = op, !.pc = "find_seedbank",
                                                             !.sb = [id |-> 0, address |-> a]]]
         ELSE client' = [client EXCEPT ![c] = [Idle EXCEPT !.op = op, !.pc = "find"]]
    /\ UNCHANGED <<driver, database, tracker, cache, announces, history>>

\* Seedbank.find for the address, the first statement of _get_seedbank.
find_seedbank(c) ==
    /\ client[c].pc = "find_seedbank"
    /\ LET found == {s \in seedbanks : s.address = client[c].sb.address} IN
       client' = IF found = {} THEN [client EXCEPT ![c].pc = "next_id"]
                 ELSE [client EXCEPT ![c].pc = "find", ![c].sb = CHOOSE s \in found : TRUE]
    /\ UNCHANGED <<driver, database, ops, tracker, cache, announces, history>>

\* Mutant: the next id is the number of seed banks, not a count of its own.
get_next_seedbank_id_Count(c) ==
    /\ client[c].pc = "next_id"
    /\ LET id == Cardinality(seedbanks) + 1 IN
       /\ client' = [client EXCEPT ![c].pc = "save_seedbank", ![c].sb.id = id]
       /\ asked' = asked \cup {<<id, client[c].sb.address>>}
       /\ counter' = counter
    /\ UNCHANGED <<driver, torrent, seedbanks, ops, tracker, cache, announces, expected, stale>>

\* _get_next_seedbank_id: one statement that counts and returns.
get_next_seedbank_id(c) ==
    /\ client[c].pc = "next_id"
    /\ counter' = counter + 1
    /\ client' = [client EXCEPT ![c].pc = "save_seedbank", ![c].sb.id = counter + 1]
    /\ asked' = asked \cup {<<counter + 1, client[c].sb.address>>}
    /\ UNCHANGED <<driver, torrent, seedbanks, ops, tracker, cache, announces, expected, stale>>

\* Mutant: a seed bank with the address is replaced.
save_seedbank_Replace(c) ==
    /\ client[c].pc = "save_seedbank"
    /\ seedbanks' = {s \in seedbanks : s.address # client[c].sb.address} \cup {client[c].sb}
    /\ client' = [client EXCEPT ![c].pc = "find"]
    /\ UNCHANGED <<driver, torrent, counter, ops, tracker, cache, announces, history>>

\* Seedbank.save: the insert, which the unique indexes refuse when another client has stored
\* a seed bank with this address since; without a report the client goes on with its id.
save_seedbank(c) ==
    /\ client[c].pc = "save_seedbank"
    /\ \/ /\ \A s \in seedbanks : s.address # client[c].sb.address /\ s.id # client[c].sb.id
          /\ seedbanks' = seedbanks \cup {client[c].sb}
          /\ client' = [client EXCEPT ![c].pc = "find"]
       \/ /\ \E s \in seedbanks : s.address = client[c].sb.address \/ s.id = client[c].sb.id
          /\ client' = [client EXCEPT ![c] = IF driver.reports THEN Idle ELSE [@ EXCEPT !.pc = "find"]]
          /\ UNCHANGED seedbanks
    /\ UNCHANGED <<driver, torrent, counter, ops, tracker, cache, announces, history>>

\* Torrent.find does what the operation needs: it returns a torrent or none, and does not
\* raise because the record has no list of seed banks.
Found(op) ==
    IF op = "add_torrent" THEN torrent = NoTorrent
    ELSE torrent # NoTorrent /\ torrent.seedbanks # Missing

\* Mutant: an id is appended to a list that is null.
NewList_Null(op, id) ==
    IF op = "add_seedbank" THEN Append(torrent.seedbanks, id) ELSE RemoveFirst(torrent.seedbanks, id)

\* add_seedbank and remove_seedbank on the copy that find returned.
NewList(op, id) ==
    IF op = "add_seedbank" THEN Append(IF torrent.seedbanks = Null THEN <<>> ELSE torrent.seedbanks, id)
    ELSE RemoveFirst(torrent.seedbanks, id)

\* The copy can be changed: add_seedbank raises for an id that is in the list, remove_seedbank
\* for a list that is null; update_torrent raises in _handle_update_torrent when it has a date.
Changes(op, id) ==
    CASE op = "add_seedbank"    -> id \notin Ids(torrent.seedbanks)
      [] op = "remove_seedbank" -> torrent.seedbanks # Null
      [] OTHER                  -> TRUE

\* Torrent.find and what is done to the copy, up to the next statement.
find(c) ==
    /\ client[c].pc = "find"
    /\ LET op == client[c].op  id == client[c].sb.id IN
       \/ /\ Found(op) /\ Changes(op, id)
          /\ client' = [client EXCEPT ![c].pc = op, ![c].torrent = torrent,
                                      ![c].list = IF op \in {"add_seedbank", "remove_seedbank"}
                                                  THEN NewList(op, id) ELSE @]
       \/ /\ ~(Found(op) /\ Changes(op, id)) \/ op = "update_torrent"
          /\ client' = [client EXCEPT ![c] = Idle]
    /\ UNCHANGED <<driver, database, ops, tracker, cache, announces, history>>

\* The operation of client c ends with a statement.
Ends(c, op) ==
    /\ client[c].pc = op
    /\ client' = [client EXCEPT ![c] = Idle]
    /\ UNCHANGED <<driver, seedbanks, counter, ops, tracker, cache, announces, asked>>

\* TorrentManager.add: an insert, refused if the torrent has been added since.
add_torrent(c) ==
    /\ Ends(c, "add_torrent")
    /\ \/ /\ torrent = NoTorrent
          /\ torrent' = [NoTorrent EXCEPT !.oid = ops]
          /\ expected' = [known |-> TRUE, seedbanks |-> {}, completed |-> 0]
       \/ /\ torrent # NoTorrent
          /\ UNCHANGED <<torrent, expected>>
    /\ UNCHANGED stale

\* TorrentManager.remove deletes by info hash, whichever record has it.
remove_torrent(c) ==
    /\ Ends(c, "remove_torrent")
    /\ torrent' = NoTorrent
    /\ expected' = [known |-> FALSE, seedbanks |-> {}, completed |-> 0]
    /\ UNCHANGED stale

\* Mutant: the whole copy is saved with the list.
save_seedbanks_Whole(c, op) ==
    /\ Ends(c, op)
    /\ torrent' = IF torrent.oid = client[c].torrent.oid
                  THEN [client[c].torrent EXCEPT !.seedbanks = client[c].list] ELSE torrent
    /\ expected' = [expected EXCEPT !.seedbanks = IF op = "add_seedbank" THEN @ \cup {client[c].sb.id}
                                                  ELSE @ \ {client[c].sb.id}]
    /\ stale' = (stale \/ torrent.oid # client[c].torrent.oid
                       \/ torrent.seedbanks # client[c].torrent.seedbanks)

\* _save_seedbanks: the list is set in the record with the _id, if that is still there.
save_seedbanks(c, op) ==
    /\ Ends(c, op)
    /\ torrent' = IF torrent.oid = client[c].torrent.oid
                  THEN [torrent EXCEPT !.seedbanks = client[c].list] ELSE torrent
    /\ expected' = [expected EXCEPT !.seedbanks = IF op = "add_seedbank" THEN @ \cup {client[c].sb.id}
                                                  ELSE @ \ {client[c].sb.id}]
    /\ stale' = (stale \/ torrent.oid # client[c].torrent.oid
                       \/ torrent.seedbanks # client[c].torrent.seedbanks)

\* Mutant: a save that merges makes a record that is not there any more.
SavedRecord_Upsert(copy) ==
    IF driver.save = "replace"
    THEN [copy EXCEPT !.seedbanks = Missing]
    ELSE [torrent EXCEPT !.completed = copy.completed, !.oid = copy.oid]

\* The record after torrent_db.save of a copy with an _id: the copy has no list of seed banks.
SavedRecord(copy) ==
    IF driver.save = "replace"
    THEN IF torrent.oid \in {0, copy.oid} THEN [copy EXCEPT !.seedbanks = Missing] ELSE torrent
    ELSE IF torrent.oid = copy.oid THEN [torrent EXCEPT !.completed = copy.completed] ELSE torrent

\* Torrent.save at the end of _handle_update_torrent: the counters go back with the copy.
update_torrent(c) ==
    /\ Ends(c, "update_torrent")
    /\ torrent' = SavedRecord(client[c].torrent)
    /\ stale' = (stale \/ torrent.oid # client[c].torrent.oid
                       \/ torrent.completed # client[c].torrent.completed)
    /\ UNCHANGED expected

-----------------------------------------------------------------------------
(* The tracker. *)

TrackerOnly == UNCHANGED <<driver, seedbanks, counter, client, ops, asked, stale>>

\* The torrent made of what was looked up can be announced: of no record its hash is zero, which
\* is not the hash that was asked for.
Valid == torrent # NoTorrent

\* hashisvalid: the record is looked up; without one, without a connection, or before the date
\* it is published, the announce is refused.
hashisvalid ==
    /\ tracker.pc = "rest"
    /\ announces < MaxAnnounces
    /\ announces' = announces + 1
    /\ \/ Valid /\ tracker' = [Resting EXCEPT !.pc = "get_seedbanks"]
       \/ UNCHANGED tracker
    /\ TrackerOnly /\ UNCHANGED <<torrent, cache, expected>>

\* look_up_info_hash catches an exception of the database and returns no torrent at all, which
\* hashisvalid goes on to use: the tracker ends and is started again, its cache is empty.
hashisvalid_null ==
    /\ tracker.pc = "rest"
    /\ announces < MaxAnnounces
    /\ announces' = announces + 1
    /\ cache' = {}
    /\ tracker' = Resting
    /\ TrackerOnly /\ UNCHANGED <<torrent, expected>>

\* get_seedbanks reads the record again; it may be gone, or the statement fail.
get_seedbanks ==
    /\ tracker.pc = "get_seedbanks"
    /\ \/ /\ torrent # NoTorrent /\ torrent.seedbanks \notin {Null, Missing}
          /\ tracker' = [tracker EXCEPT !.pc = "resolve", !.list = torrent.seedbanks]
       \/ tracker' = [tracker EXCEPT !.pc = "update_stats"]
    /\ TrackerOnly /\ UNCHANGED <<torrent, cache, announces, expected>>

\* The ip_port of the tracker after it has been given the seed bank s.
AddressOf(s) == {s.address}

\* Mutant: a seed bank that is not found is passed over.
get_seedbank_for_id_Skip(id) ==
    LET known == {s \in cache : s.id = id}  stored == {s \in seedbanks : s.id = id} IN
    /\ tracker' = [tracker EXCEPT !.next = @ + 1,
                                  !.ip_port = IF known \cup stored = {} THEN @
                                              ELSE UNION {AddressOf(s) : s \in known \cup stored}]
    /\ cache' = cache \cup stored

\* _get_seedbank_for_id: from the cache, or from the collection into the cache.  Without a
\* record an exception ends the loop and the list is lost.
get_seedbank_for_id(id) ==
    LET known == {s \in cache : s.id = id}  stored == {s \in seedbanks : s.id = id} IN
    \/ /\ known # {}
       /\ tracker' = [tracker EXCEPT !.next = @ + 1, !.ip_port = UNION {AddressOf(s) : s \in known}]
       /\ UNCHANGED cache
    \/ /\ known = {} /\ stored # {}
       /\ tracker' = [tracker EXCEPT !.next = @ + 1, !.ip_port = UNION {AddressOf(s) : s \in stored}]
       /\ cache' = cache \cup stored
    \/ /\ known = {}
       /\ tracker' = [tracker EXCEPT !.pc = "update_stats", !.ip_port = {}]
       /\ UNCHANGED cache

\* A turn of the loop in _get_seedbanks.
get_seedbanks_next ==
    /\ tracker.pc = "resolve"
    /\ tracker.next <= Len(tracker.list)
    /\ get_seedbank_for_id(tracker.list[tracker.next])
    /\ TrackerOnly /\ UNCHANGED <<torrent, announces, expected>>

\* After the loop the last address, and no other, is put into the result and becomes a peer.
\* Of an empty list the result is an empty address, which is no peer.
add_seedbanks ==
    /\ tracker.pc = "resolve"
    /\ tracker.next > Len(tracker.list)
    /\ tracker' = [tracker EXCEPT !.pc = "update_stats"]
    /\ TrackerOnly /\ UNCHANGED <<torrent, cache, announces, expected>>

\* update_stats: one statement that sets and counts in the record with the info hash.
update_stats ==
    /\ tracker.pc = "update_stats"
    /\ \E increment_completed \in BOOLEAN :
         LET n == IF increment_completed /\ torrent # NoTorrent THEN 1 ELSE 0 IN
         /\ torrent' = [torrent EXCEPT !.completed = @ + n]
         /\ expected' = [expected EXCEPT !.completed = @ + n]
    /\ tracker' = Resting
    /\ TrackerOnly /\ UNCHANGED <<cache, announces>>

-----------------------------------------------------------------------------

Client(c) ==
    \/ handle_action(c)
    \/ find_seedbank(c)
    \/ get_next_seedbank_id(c)
    \/ save_seedbank(c)
    \/ find(c)
    \/ add_torrent(c)
    \/ remove_torrent(c)
    \/ \E op \in {"add_seedbank", "remove_seedbank"} : save_seedbanks(c, op)
    \/ update_torrent(c)

Tracker ==
    \/ hashisvalid
    \/ hashisvalid_null
    \/ get_seedbanks
    \/ get_seedbanks_next
    \/ add_seedbanks
    \/ update_stats

\* All operations and announces are over.
Finished ==
    /\ ops = MaxOps /\ announces = MaxAnnounces
    /\ tracker = Resting /\ \A c \in Clients : client[c] = Idle
    /\ UNCHANGED vars

Next == (\E c \in Clients : Client(c)) \/ Tracker \/ Finished

Spec == Init /\ [][Next]_vars

-----------------------------------------------------------------------------

Seedbanks == [id : Nat \ {0}, address : Addresses]

\* A list of ids, or what stands for none.
Lists == Seq(Nat \ {0}) \cup {Null, Missing}

Torrent == [oid : Nat, seedbanks : Lists, completed : Nat]

ClientRecord ==
    [pc : Operations \cup {"idle", "find_seedbank", "next_id", "save_seedbank", "find"}, op : Operations,
     sb : [id : Nat, address : Addresses], torrent : Torrent, list : Lists]

TrackerRecord ==
    [pc : {"rest", "get_seedbanks", "resolve", "update_stats"},
     list : Seq(Nat \ {0}), next : Nat, ip_port : SUBSET Addresses]

TypeOK ==
    /\ driver \in [save : {"replace", "merge"}, reports : BOOLEAN]
    /\ torrent \in Torrent
    /\ seedbanks \subseteq Seedbanks
    /\ counter \in Nat
    /\ client \in [Clients -> ClientRecord]
    /\ ops \in 0..MaxOps
    /\ tracker \in TrackerRecord /\ tracker.next \in 1..(Len(tracker.list) + 1)
    /\ cache \subseteq Seedbanks
    /\ announces \in 0..MaxAnnounces
    /\ asked \subseteq Nat \X Addresses
    /\ expected \in [known : BOOLEAN, seedbanks : SUBSET Nat, completed : Nat]
    /\ stale \in BOOLEAN

\* An id stands for one address for all time, whoever took it and whether or not its record
\* was stored: two clients that add seed banks at the same time never put an id into the
\* torrent's list that means the other's address.
IdsMeanOneAddress ==
    /\ \A p, q \in asked : p[1] = q[1] => p = q
    /\ \A s \in seedbanks : <<s.id, s.address>> \in asked
    /\ \A id \in Ids(torrent.seedbanks) : \E a \in Addresses : <<id, a>> \in asked

\* The tracker's cache of addresses, which nothing invalidates, agrees with the database,
\* because a seed bank's record is never changed or removed once it is stored.
CacheNeverStale == cache \subseteq seedbanks

\* The address that the tracker adds to a swarm is the one that was asked for with the last
\* id of the list it read, though the ids are resolved one statement at a time; if one of
\* them cannot be resolved none is added.
LastSeedbankAdded ==
    tracker.pc = "update_stats" /\ tracker.ip_port # {} =>
      /\ tracker.list # <<>>
      /\ \E a \in Addresses : tracker.ip_port = {a} /\ <<Last(tracker.list), a>> \in asked

\* As long as nobody has saved a copy that was out of date, the record is what the same
\* operations give when each is a single step: no download and no removal is undone, and no
\* seed bank is lost, except by an update through a driver that replaces records.
ExactUnlessStale ==
    ~stale =>
      /\ expected.known <=> torrent # NoTorrent
      /\ torrent.completed = expected.completed
      /\ torrent.seedbanks # Missing => Ids(torrent.seedbanks) = expected.seedbanks

\* The records, the ids in the torrent's list and the tracker's cache agree on who a seed bank
\* is, however the statements of the clients and the tracker interleave.
SeedbanksAgree == TypeOK /\ IdsMeanOneAddress /\ CacheNeverStale /\ LastSeedbankAdded
=============================================================================
