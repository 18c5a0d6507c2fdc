------------------------ MODULE TorrentRecordsProofs ------------------------
(***************************************************************************)
(* What holds of TorrentRecords for any number of clients and seed banks,  *)
(* for either behaviour of the driver.                                     *)
(*                                                                         *)
(* The inductive invariant says what a client has learnt before its next   *)
(* statement, and what the tracker has resolved of the list it read: the   *)
(* ids they hold are among those that were taken for an address.           *)
(***************************************************************************)
EXTENDS TorrentRecords, SequenceLemmas

-----------------------------------------------------------------------------
(* The inductive invariant *)

SeedbankOps == {"add_seedbank", "remove_seedbank"}

Distinct(list) == \A i, j \in DOMAIN list : list[i] = list[j] => i = j

\* The ids were taken for an address.
Taken(ids) == \A id \in ids : \E a \in Addresses : <<id, a>> \in asked

\* The record: an absent one has no fields; a list has an id once.
RecordProper ==
    /\ torrent.oid = 0 => torrent = NoTorrent
    /\ Distinct(torrent.seedbanks)

\* A client: the seed bank it means has an id that was taken for the address; the copy it is
\* about to save is of a record that there was, with the list changed as the operation says.
ClientProper(c) ==
    LET pc == client[c].pc  op == client[c].op  sb == client[c].sb  copy == client[c].torrent IN
    /\ pc # "idle" => ops > 0
    /\ pc \in {"find_seedbank", "next_id", "save_seedbank"} => op \in SeedbankOps
    /\ pc \in Operations => pc = op
    /\ op \in SeedbankOps /\ pc \in {"save_seedbank", "find"} \cup SeedbankOps
         => <<sb.id, sb.address>> \in asked
    /\ pc \in SeedbankOps \cup {"update_torrent"} => copy.oid # 0 /\ copy.seedbanks # Missing
    /\ pc \in SeedbankOps =>
         /\ client[c].list # Missing
         /\ Distinct(client[c].list)
         /\ Taken(Ids(client[c].list))
         /\ Ids(client[c].list) = IF pc = "add_seedbank" THEN Ids(copy.seedbanks) \cup {sb.id}
                                  ELSE Ids(copy.seedbanks) \ {sb.id}

ClientsProper == \A c \in Clients : ClientProper(c)

\* An id is taken once, by counting.
IdsCounted == \A p \in asked : p[1] \in 1..counter

\* The tracker: an address in hand is that of the id before the next one.
Resolving ==
    /\ tracker.pc \in {"rest", "get_seedbanks"} => tracker = [Resting EXCEPT !.pc = tracker.pc]
    /\ tracker.ip_port # {} =>
         /\ tracker.next > 1
         /\ \E a \in Addresses : tracker.ip_port = {a} /\ <<tracker.list[tracker.next - 1], a>> \in asked
    /\ tracker.pc = "update_stats" /\ tracker.ip_port # {} => tracker.next = Len(tracker.list) + 1

IInv ==
    /\ TypeOK
    /\ RecordProper
    /\ ClientsProper
    /\ IdsCounted
    /\ IdsMeanOneAddress
    /\ CacheNeverStale
    /\ Resolving
    /\ ExactUnlessStale

-----------------------------------------------------------------------------
(* Lists of ids *)

Id == Nat \ {0}

LEMMA NoIds == /\ Ids(Null) = {} /\ Ids(Missing) = {} /\ Ids(<<>>) = {}
               /\ Distinct(Null) /\ Distinct(Missing) /\ Distinct(<<>>)
BY DEF Ids, Null, Missing, Distinct

\* A list of ids is neither of the values that stand for none.
LEMMA ListsApart ==
    ASSUME NEW l \in Seq(Id)
    PROVE  l # Null /\ l # Missing /\ Ids(l) = {l[i] : i \in 1..Len(l)}
<1>1. ASSUME l = Null \/ l = Missing
      PROVE  FALSE
  <2>1. Len(l) = 1 /\ l[1] \notin Id
    BY <1>1 DEF Null, Missing, Id
  <2>. QED
    BY <2>1
<1>2. \A i \in 1..Len(l) : l[i] # 0 /\ l[i] # -1
  BY DEF Id
<1>3. Ids(l) = {l[i] : i \in 1..Len(l)}
  BY <1>2 DEF Ids
<1>. QED
  BY <1>1, <1>3

LEMMA AppendIds ==
    ASSUME NEW l \in Seq(Id), Distinct(l), NEW id \in Id, id \notin Ids(l)
    PROVE  /\ Append(l, id) \in Seq(Id)
           /\ Distinct(Append(l, id))
           /\ Ids(Append(l, id)) = Ids(l) \cup {id}
<1>. DEFINE m == Append(l, id)
<1>1. m \in Seq(Id) /\ Len(m) = Len(l) + 1 /\ m[Len(l) + 1] = id /\ \A i \in 1..Len(l) : m[i] = l[i]
  OBVIOUS
<1>2. Len(l) \in Nat /\ DOMAIN m = 1..(Len(l) + 1) /\ DOMAIN l = 1..Len(l)
  BY <1>1
<1>3. Ids(m) = {m[i] : i \in 1..Len(m)} /\ Ids(l) = {l[i] : i \in 1..Len(l)}
  BY <1>1, ListsApart
<1>. HIDE DEF m
<1>4. \A i \in 1..Len(m) : i \in 1..Len(l) \/ i = Len(l) + 1
  BY <1>1, <1>2
<1>5. Distinct(m)
  BY <1>1, <1>2, <1>3, <1>4 DEF Distinct
<1>6. Ids(m) = Ids(l) \cup {id}
  <2>1. Ids(m) \subseteq Ids(l) \cup {id}
    BY <1>1, <1>3, <1>4
  <2>2. Ids(l) \cup {id} \subseteq Ids(m)
    BY <1>1, <1>2, <1>3
  <2>. QED
    BY <2>1, <2>2
<1>. QED
  BY <1>1, <1>5, <1>6 DEF m

LEMMA RemoveIds ==
    ASSUME NEW l \in Seq(Id), Distinct(l), NEW id
    PROVE  /\ RemoveFirst(l, id) \in Seq(Id)
           /\ Distinct(RemoveFirst(l, id))
           /\ Ids(RemoveFirst(l, id)) = Ids(l) \ {id}
<1>0. Len(l) \in Nat /\ DOMAIN l = 1..Len(l) /\ Ids(l) = {l[i] : i \in 1..Len(l)}
  BY ListsApart
<1>1. CASE id \notin Ids(l)
  <2>1. RemoveFirst(l, id) = l
    BY <1>0, <1>1 DEF RemoveFirst
  <2>. QED
    BY <1>1, <2>1
<1>2. CASE id \in Ids(l)
  <2>1. PICK k \in 1..Len(l) : l[k] = id
    BY <1>0, <1>2
  <2>2. \A i \in 1..Len(l) : l[i] = l[k] => i = k
    BY <1>0 DEF Distinct
  <2>. DEFINE m == RemoveFirst(l, id)
  <2>3. m = RemoveAt(l, k)
    BY <2>1, <2>2, RemoveFirstProperties
  <2>4. /\ m \in Seq(Id) /\ Len(m) = Len(l) - 1
        /\ \A j \in 1..(Len(l) - 1) : m[j] = IF j < k THEN l[j] ELSE l[j + 1]
    BY <2>3, RemoveAtProperties
  <2>5. DOMAIN m = 1..(Len(l) - 1) /\ Ids(m) = {m[i] : i \in 1..(Len(l) - 1)}
    BY <2>4, ListsApart
  <2>. HIDE DEF m
  <2>6. Distinct(m)
    BY <1>0, <2>4, <2>5, SMTT(30) DEF Distinct
  <2>7. ASSUME NEW i \in 1..Len(l), i # k
        PROVE  \E j \in 1..(Len(l) - 1) : m[j] = l[i]
    <3>1. CASE i < k
      BY <1>0, <2>4, <3>1
    <3>2. CASE i > k
      <4>1. i - 1 \in 1..(Len(l) - 1) /\ ~(i - 1 < k) /\ (i - 1) + 1 = i
        BY <1>0, <3>2
      <4>. QED
        BY <2>4, <4>1
    <3>. QED
      BY <1>0, <2>7, <3>1, <3>2
  <2>8. \A j \in 1..(Len(l) - 1) : \E i \in 1..Len(l) : i # k /\ m[j] = l[i]
    BY <1>0, <2>4
  <2>9. Ids(m) = Ids(l) \ {id}
    <3>1. Ids(m) \subseteq Ids(l) \ {id}
      BY <1>0, <2>1, <2>2, <2>5, <2>8
    <3>2. Ids(l) \ {id} \subseteq Ids(m)
      BY <1>0, <2>1, <2>5, <2>7
    <3>. QED
      BY <3>1, <3>2
  <2>. QED
    BY <2>4, <2>6, <2>9 DEF m
<1>. QED
  BY <1>1, <1>2

-----------------------------------------------------------------------------
(* What the actions of a client make of its record *)

LEMMA ListTypes == Null \in Lists /\ Missing \in Lists /\ <<>> \in Seq(Id) /\ <<>> \in Lists /\ Seq(Id) \subseteq Lists
BY DEF Lists, Id

LEMMA NothingType ==
    /\ NoTorrent \in Torrent /\ NoTorrent.oid = 0 /\ NoTorrent.seedbanks = Null /\ NoTorrent.completed = 0
    /\ NoSeedbank \in [id : Nat, address : Addresses]
BY ListTypes, AddressesAssumption DEF NoTorrent, NoSeedbank, Torrent

LEMMA IdleType ==
    /\ Idle \in ClientRecord /\ Idle.pc = "idle" /\ Idle.op = "add_torrent"
    /\ Idle.torrent = NoTorrent /\ Idle.list = Null /\ Idle.sb = NoSeedbank
BY ListTypes, NothingType DEF Idle, ClientRecord, Operations

LEMMA RestingType ==
    /\ Resting \in TrackerRecord /\ Resting.pc = "rest" /\ Resting.list = <<>> /\ Resting.next = 1
    /\ Resting.ip_port = {}
BY DEF Resting, TrackerRecord

Same(c) == \A d \in Clients \ {c} : client'[d] = client[d]

LEMMA HandleFields ==
    ASSUME TypeOK, NEW c \in Clients, handle_action(c)
    PROVE  /\ Same(c) /\ client' \in [Clients -> ClientRecord]
           /\ \/ client'[c].pc = "find_seedbank" /\ client'[c].op \in SeedbankOps
              \/ client'[c].pc = "find" /\ client'[c].op \notin SeedbankOps
<1>1. PICK op \in Operations :
        IF op \in {"add_seedbank", "remove_seedbank"}
        THEN \E a \in Addresses :
                client' = [client EXCEPT ![c] = [Idle EXCEPT !.op = op, !.pc = "find_seedbank",
                                                             !.sb = [id |-> 0, address |-> a]]]
        ELSE client' = [client EXCEPT ![c] = [Idle EXCEPT !.op = op, !.pc = "find"]]
  BY DEF handle_action
<1>2. ASSUME NEW p \in ClientRecord, client' = [client EXCEPT ![c] = p]
      PROVE  Same(c) /\ client' \in [Clients -> ClientRecord] /\ client'[c] = p
  BY <1>2 DEF TypeOK, Same
<1>3. ASSUME NEW a \in Addresses
      PROVE  /\ [Idle EXCEPT !.op = op, !.pc = "find_seedbank", !.sb = [id |-> 0, address |-> a]] \in ClientRecord
             /\ [Idle EXCEPT !.op = op, !.pc = "find_seedbank", !.sb = [id |-> 0, address |-> a]].pc = "find_seedbank"
             /\ [Idle EXCEPT !.op = op, !.pc = "find_seedbank", !.sb = [id |-> 0, address |-> a]].op = op
  BY <1>3, IdleType DEF ClientRecord
<1>4. /\ [Idle EXCEPT !.op = op, !.pc = "find"] \in ClientRecord
      /\ [Idle EXCEPT !.op = op, !.pc = "find"].pc = "find"
      /\ [Idle EXCEPT !.op = op, !.pc = "find"].op = op
  BY IdleType DEF ClientRecord
<1>5. CASE op \in SeedbankOps
  <2>1. PICK a \in Addresses : client' = [client EXCEPT ![c] =
                                 [Idle EXCEPT !.op = op, !.pc = "find_seedbank", !.sb = [id |-> 0, address |-> a]]]
    BY <1>1, <1>5 DEF SeedbankOps
  <2>. DEFINE p == [Idle EXCEPT !.op = op, !.pc = "find_seedbank", !.sb = [id |-> 0, address |-> a]]
  <2>2. p \in ClientRecord /\ p.pc = "find_seedbank" /\ p.op = op
    BY <1>3
  <2>3. client' = [client EXCEPT ![c] = p]
    BY <2>1
  <2>. HIDE DEF p
  <2>. QED
    BY <1>2, <1>5, <2>2, <2>3
<1>6. CASE op \notin SeedbankOps
  <2>. DEFINE p == [Idle EXCEPT !.op = op, !.pc = "find"]
  <2>1. p \in ClientRecord /\ p.pc = "find" /\ p.op = op
    BY <1>4
  <2>2. client' = [client EXCEPT ![c] = p]
    BY <1>1, <1>6 DEF SeedbankOps
  <2>. HIDE DEF p
  <2>. QED
    BY <1>2, <1>6, <2>1, <2>2
<1>. QED
  BY <1>5, <1>6

LEMMA FindSeedbankFields ==
    ASSUME TypeOK, NEW c \in Clients, find_seedbank(c)
    PROVE  /\ Same(c) /\ client' \in [Clients -> ClientRecord]
           /\ client'[c].op = client[c].op
           /\ \/ client'[c].pc = "next_id" /\ client'[c].sb = client[c].sb
              \/ client'[c].pc = "find" /\ client'[c].sb \in seedbanks
<1>. DEFINE found == {s \in seedbanks : s.address = client[c].sb.address}
<1>0. client[c] \in ClientRecord
  BY DEF TypeOK
<1>1. CASE found = {}
  <2>1. client' = [client EXCEPT ![c] = [client[c] EXCEPT !.pc = "next_id"]]
    BY <1>0, <1>1 DEF find_seedbank, TypeOK
  <2>2. [client[c] EXCEPT !.pc = "next_id"] \in ClientRecord
    BY <1>0 DEF ClientRecord
  <2>. QED
    BY <1>0, <2>1, <2>2 DEF TypeOK, Same, ClientRecord
<1>2. CASE found # {}
  <2>. DEFINE s == CHOOSE s \in found : TRUE
  <2>1. s \in seedbanks /\ s \in [id : Nat, address : Addresses]
    BY <1>2 DEF TypeOK, Seedbanks
  <2>2. client' = [client EXCEPT ![c] = [client[c] EXCEPT !.pc = "find", !.sb = s]]
    <3>1. client' = [client EXCEPT ![c].pc = "find", ![c].sb = s]
      BY <1>2 DEF find_seedbank
    <3>. HIDE DEF s
    <3>. QED
      BY <1>0, <3>1 DEF TypeOK
  <2>. HIDE DEF s
  <2>3. [client[c] EXCEPT !.pc = "find", !.sb = s] \in ClientRecord
    BY <1>0, <2>1 DEF ClientRecord
  <2>. QED
    BY <1>0, <2>1, <2>2, <2>3 DEF TypeOK, Same, ClientRecord
<1>. QED
  BY <1>1, <1>2

LEMMA NextIdFields ==
    ASSUME TypeOK, NEW c \in Clients, get_next_seedbank_id(c)
    PROVE  /\ Same(c) /\ client' \in [Clients -> ClientRecord]
           /\ client'[c].op = client[c].op /\ client'[c].pc = "save_seedbank"
           /\ client'[c].sb.id = counter + 1 /\ client'[c].sb.address = client[c].sb.address
<1>0. client[c] \in ClientRecord /\ client[c].sb \in [id : Nat, address : Addresses] /\ counter + 1 \in Nat
  BY DEF TypeOK, ClientRecord
<1>. DEFINE sb == [client[c].sb EXCEPT !.id = counter + 1]
<1>1. sb \in [id : Nat, address : Addresses] /\ sb.id = counter + 1 /\ sb.address = client[c].sb.address
  BY <1>0
<1>2. client' = [client EXCEPT ![c] = [client[c] EXCEPT !.pc = "save_seedbank", !.sb = sb]]
  BY <1>0 DEF get_next_seedbank_id, TypeOK, ClientRecord
<1>. HIDE DEF sb
<1>3. [client[c] EXCEPT !.pc = "save_seedbank", !.sb = sb] \in ClientRecord
  BY <1>0, <1>1 DEF ClientRecord
<1>. QED
  BY <1>0, <1>1, <1>2, <1>3 DEF TypeOK, Same, ClientRecord

LEMMA SaveFields ==
    ASSUME TypeOK, NEW c \in Clients, save_seedbank(c)
    PROVE  /\ Same(c) /\ client' \in [Clients -> ClientRecord]
           /\ \/ client'[c] = [client[c] EXCEPT !.pc = "find"]
              \/ client'[c] = Idle
<1>0. client[c] \in ClientRecord /\ [client[c] EXCEPT !.pc = "find"] \in ClientRecord /\ Idle \in ClientRecord
  BY IdleType DEF TypeOK, ClientRecord
<1>1. \/ client' = [client EXCEPT ![c] = [client[c] EXCEPT !.pc = "find"]]
      \/ client' = [client EXCEPT ![c] = Idle]
  BY DEF save_seedbank
<1>. QED
  BY <1>0, <1>1 DEF TypeOK, Same

\* The list that a seed bank is added to or taken from, of a record that is found.
LEMMA NewListProperties ==
    ASSUME TypeOK, RecordProper, NEW op \in SeedbankOps, NEW id \in Id, Found(op), Changes(op, id)
    PROVE  /\ NewList(op, id) \in Seq(Id)
           /\ Distinct(NewList(op, id))
           /\ Ids(NewList(op, id)) = IF op = "add_seedbank" THEN Ids(torrent.seedbanks) \cup {id}
                                     ELSE Ids(torrent.seedbanks) \ {id}
<1>1. torrent.seedbanks \in Seq(Id) \cup {Null} /\ Distinct(torrent.seedbanks)
  BY DEF TypeOK, Torrent, Lists, Id, Found, RecordProper, SeedbankOps
<1>2. CASE op = "add_seedbank"
  <2>. DEFINE l == IF torrent.seedbanks = Null THEN <<>> ELSE torrent.seedbanks
  <2>1. l \in Seq(Id) /\ Distinct(l) /\ Ids(l) = Ids(torrent.seedbanks)
    BY <1>1, NoIds, ListTypes
  <2>2. id \notin Ids(l)
    BY <1>2, <2>1 DEF Changes
  <2>3. NewList(op, id) = Append(l, id)
    BY <1>2 DEF NewList
  <2>. HIDE DEF l
  <2>. QED
    BY <1>2, <2>1, <2>2, <2>3, AppendIds
<1>3. CASE op = "remove_seedbank"
  <2>1. torrent.seedbanks \in Seq(Id)
    BY <1>1, <1>3 DEF Changes
  <2>2. NewList(op, id) = RemoveFirst(torrent.seedbanks, id)
    BY <1>3 DEF NewList
  <2>. QED
    BY <1>1, <1>3, <2>1, <2>2, RemoveIds
<1>. QED
  BY <1>2, <1>3 DEF SeedbankOps

LEMMA FindFields ==
    ASSUME TypeOK, RecordProper, IdsCounted, ClientsProper, NEW c \in Clients, find(c)
    PROVE  /\ Same(c) /\ client' \in [Clients -> ClientRecord]
           /\ \/ /\ client'[c].pc = client[c].op /\ client'[c].op = client[c].op
                 /\ client'[c].sb = client[c].sb
                 /\ client'[c].torrent = torrent
                 /\ Found(client[c].op) /\ Changes(client[c].op, client[c].sb.id)
                 /\ client[c].op \in SeedbankOps => client'[c].list = NewList(client[c].op, client[c].sb.id)
              \/ client'[c] = Idle
<1>. DEFINE op == client[c].op
            id == client[c].sb.id
<1>0. client[c] \in ClientRecord /\ client[c].pc = "find" /\ op \in Operations /\ torrent \in Torrent
  BY DEF TypeOK, ClientRecord, find
<1>1. CASE client' = [client EXCEPT ![c] = Idle]
  BY <1>1, IdleType DEF TypeOK, Same
<1>2. CASE /\ Found(op) /\ Changes(op, id)
           /\ client' = [client EXCEPT ![c].pc = op, ![c].torrent = torrent,
                                       ![c].list = IF op \in {"add_seedbank", "remove_seedbank"}
                                                   THEN NewList(op, id) ELSE @]
  <2>. DEFINE l == IF op \in {"add_seedbank", "remove_seedbank"} THEN NewList(op, id) ELSE client[c].list
  <2>1. l \in Lists
    <3>1. CASE op \in SeedbankOps
      <4>1. <<id, client[c].sb.address>> \in asked
        BY <1>0, <3>1 DEF ClientsProper, ClientProper
      <4>2. id \in Id
        BY <4>1 DEF IdsCounted, Id, TypeOK
      <4>. QED
        BY <1>2, <3>1, <4>2, NewListProperties, ListTypes DEF SeedbankOps
    <3>2. CASE op \notin SeedbankOps
      BY <1>0, <3>2 DEF ClientRecord, SeedbankOps
    <3>. QED
      BY <3>1, <3>2
  <2>2. client' = [client EXCEPT ![c] = [client[c] EXCEPT !.pc = op, !.torrent = torrent, !.list = l]]
    BY <1>0, <1>2 DEF TypeOK, ClientRecord
  <2>3. op \in SeedbankOps => l = NewList(op, id)
    BY DEF SeedbankOps
  <2>. HIDE DEF l, op, id
  <2>4. [client[c] EXCEPT !.pc = op, !.torrent = torrent, !.list = l] \in ClientRecord
    BY <1>0, <2>1 DEF ClientRecord
  <2>5. /\ client'[c].pc = op /\ client'[c].op = client[c].op /\ client'[c].sb = client[c].sb
        /\ client'[c].torrent = torrent /\ client'[c].list = l
    BY <1>0, <2>2 DEF TypeOK, ClientRecord
  <2>6. Same(c) /\ client' \in [Clients -> ClientRecord]
    BY <2>2, <2>4 DEF TypeOK, Same
  <2>. QED
    BY <1>2, <2>3, <2>5, <2>6 DEF op, id
<1>. QED
  BY <1>1, <1>2 DEF find

LEMMA EndsFields ==
    ASSUME TypeOK, NEW c \in Clients, NEW op, Ends(c, op)
    PROVE  Same(c) /\ client' \in [Clients -> ClientRecord] /\ client'[c] = Idle
BY IdleType DEF TypeOK, Same, Ends

\* The other clients keep what they know.
LEMMA OthersProper ==
    ASSUME ClientsProper, NEW c \in Clients, Same(c), asked \subseteq asked', ops' >= ops,
           ops \in Nat, ops' \in Nat, ClientProper(c)'
    PROVE  ClientsProper'
<1>. SUFFICES ASSUME NEW d \in Clients, d # c
              PROVE  ClientProper(d)'
  BY DEF ClientsProper
<1>1. client'[d] = client[d] /\ ClientProper(d)
  BY DEF Same, ClientsProper
<1>2. Taken(Ids(client[d].list)) => Taken(Ids(client[d].list))'
  BY <1>1 DEF Taken, Ids
<1>. QED
  BY <1>1, <1>2 DEF ClientProper

-----------------------------------------------------------------------------
(* What the actions of the tracker make of its state *)

\* What the clients know does not change with the tracker.
LEMMA KnowledgeKept ==
    ASSUME ClientsProper, UNCHANGED <<client, ops, asked>>
    PROVE  ClientsProper'
<1>. SUFFICES ASSUME NEW d \in Clients
              PROVE  ClientProper(d)'
  BY DEF ClientsProper
<1>1. client'[d] = client[d] /\ ops' = ops /\ asked' = asked /\ ClientProper(d)
  BY DEF ClientsProper
<1>2. Taken(Ids(client[d].list)) => Taken(Ids(client[d].list))'
  BY <1>1 DEF Taken, Ids
<1>. QED
  BY <1>1, <1>2 DEF ClientProper

LEMMA TrackerPc ==
    ASSUME NEW r \in TrackerRecord, NEW pc \in {"rest", "get_seedbanks", "resolve", "update_stats"}
    PROVE  /\ [r EXCEPT !.pc = pc] \in TrackerRecord
           /\ [r EXCEPT !.pc = pc].pc = pc /\ [r EXCEPT !.pc = pc].list = r.list
           /\ [r EXCEPT !.pc = pc].next = r.next /\ [r EXCEPT !.pc = pc].ip_port = r.ip_port
BY DEF TrackerRecord

LEMMA ReadFields ==
    ASSUME TypeOK, Resolving, get_seedbanks
    PROVE  /\ tracker' \in TrackerRecord /\ tracker'.next = 1 /\ tracker'.ip_port = {}
           /\ tracker'.pc \in {"resolve", "update_stats"}
<1>1. /\ tracker \in TrackerRecord /\ tracker.pc = "get_seedbanks"
      /\ tracker.list = <<>> /\ tracker.next = 1 /\ tracker.ip_port = {}
  <2>1. tracker \in TrackerRecord /\ tracker.pc = "get_seedbanks"
    BY DEF get_seedbanks, TypeOK
  <2>2. tracker = [Resting EXCEPT !.pc = "get_seedbanks"]
    BY <2>1 DEF Resolving
  <2>. QED
    BY <2>1, <2>2, TrackerPc, RestingType
<1>2. CASE tracker' = [tracker EXCEPT !.pc = "update_stats"]
  BY <1>1, <1>2, TrackerPc
<1>3. CASE /\ torrent.seedbanks \notin {Null, Missing}
           /\ tracker' = [tracker EXCEPT !.pc = "resolve", !.list = torrent.seedbanks]
  <2>1. torrent.seedbanks \in Seq(Nat \ {0})
    BY <1>3 DEF TypeOK, Torrent, Lists
  <2>. QED
    BY <1>1, <1>3, <2>1 DEF TrackerRecord
<1>. QED
  BY <1>2, <1>3 DEF get_seedbanks

\* A turn of the loop: an address is that of a seed bank with the id.
LEMMA TurnFields ==
    ASSUME TypeOK, CacheNeverStale, get_seedbanks_next
    PROVE  /\ tracker' \in TrackerRecord /\ tracker'.list = tracker.list
           /\ tracker.next \in 1..Len(tracker.list)
           /\ \/ /\ tracker'.pc = tracker.pc /\ tracker'.next = tracker.next + 1
                 /\ \E S \in (SUBSET seedbanks) \ {{}} :
                      /\ \A s \in S : s.id = tracker.list[tracker.next]
                      /\ tracker'.ip_port = UNION {AddressOf(s) : s \in S}
              \/ tracker'.pc = "update_stats" /\ tracker'.next = tracker.next /\ tracker'.ip_port = {}
<1>. DEFINE id == tracker.list[tracker.next]
            known == {s \in cache : s.id = id}
            stored == {s \in seedbanks : s.id = id}
<1>1. tracker \in TrackerRecord /\ tracker.next \in Nat /\ tracker.next \in 1..Len(tracker.list)
  BY DEF get_seedbanks_next, TypeOK, TrackerRecord
<1>2. ASSUME NEW S \in SUBSET seedbanks, S # {}, \A s \in S : s.id = id,
             tracker' = [tracker EXCEPT !.next = @ + 1, !.ip_port = UNION {AddressOf(s) : s \in S}]
      PROVE  /\ tracker' \in TrackerRecord /\ tracker'.list = tracker.list
             /\ tracker'.pc = tracker.pc /\ tracker'.next = tracker.next + 1
             /\ tracker'.ip_port = UNION {AddressOf(s) : s \in S}
  <2>. DEFINE A == UNION {AddressOf(s) : s \in S}
  <2>1. A \in SUBSET Addresses
    BY DEF TypeOK, Seedbanks, AddressOf
  <2>2. tracker' = [tracker EXCEPT !.next = tracker.next + 1, !.ip_port = A]
    BY <1>2
  <2>. HIDE DEF A
  <2>3. tracker' \in TrackerRecord /\ tracker'.list = tracker.list
        /\ tracker'.pc = tracker.pc /\ tracker'.next = tracker.next + 1 /\ tracker'.ip_port = A
    <3>. DEFINE n == tracker.next + 1
    <3>1. n \in Nat
      BY <1>1
    <3>2. tracker' = [tracker EXCEPT !.next = n, !.ip_port = A]
      BY <2>2
    <3>. HIDE DEF n
    <3>3. /\ tracker' \in TrackerRecord /\ tracker'.list = tracker.list
          /\ tracker'.pc = tracker.pc /\ tracker'.next = n /\ tracker'.ip_port = A
      <4>1. tracker \in TrackerRecord
        BY <1>1
      <4>2. /\ [tracker EXCEPT !.next = n, !.ip_port = A] \in TrackerRecord
            /\ [tracker EXCEPT !.next = n, !.ip_port = A].list = tracker.list
            /\ [tracker EXCEPT !.next = n, !.ip_port = A].pc = tracker.pc
            /\ [tracker EXCEPT !.next = n, !.ip_port = A].next = n
            /\ [tracker EXCEPT !.next = n, !.ip_port = A].ip_port = A
        <5>. HIDE DEF id, known, stored
        <5>. QED
          BY <2>1, <3>1, <4>1 DEF TrackerRecord
      <4>. QED
        BY <3>2, <4>2
    <3>. QED
      BY <3>3 DEF n
  <2>. QED
    BY <2>3 DEF A
<1>3. known \in SUBSET seedbanks /\ stored \in SUBSET seedbanks
  BY DEF CacheNeverStale
<1>4. \/ known # {} /\ tracker' = [tracker EXCEPT !.next = @ + 1, !.ip_port = UNION {AddressOf(s) : s \in known}]
      \/ stored # {} /\ tracker' = [tracker EXCEPT !.next = @ + 1, !.ip_port = UNION {AddressOf(s) : s \in stored}]
      \/ tracker' = [tracker EXCEPT !.pc = "update_stats", !.ip_port = {}]
  BY DEF get_seedbanks_next, get_seedbank_for_id
<1>5. (\A s \in known : s.id = id) /\ (\A s \in stored : s.id = id)
  OBVIOUS
<1>. HIDE DEF known, stored
<1>6. CASE tracker' = [tracker EXCEPT !.pc = "update_stats", !.ip_port = {}]
  BY <1>1, <1>6 DEF TrackerRecord
<1>7. CASE known # {} /\ tracker' = [tracker EXCEPT !.next = @ + 1, !.ip_port = UNION {AddressOf(s) : s \in known}]
  <2>1. known \in (SUBSET seedbanks) \ {{}} /\ \A s \in known : s.id = id
    BY <1>3, <1>5, <1>7
  <2>2. /\ tracker' \in TrackerRecord /\ tracker'.list = tracker.list
        /\ tracker'.pc = tracker.pc /\ tracker'.next = tracker.next + 1
        /\ tracker'.ip_port = UNION {AddressOf(s) : s \in known}
    BY <1>2, <1>7, <2>1
  <2>. QED
    BY <1>1, <2>1, <2>2
<1>8. CASE stored # {} /\ tracker' = [tracker EXCEPT !.next = @ + 1, !.ip_port = UNION {AddressOf(s) : s \in stored}]
  <2>1. stored \in (SUBSET seedbanks) \ {{}} /\ \A s \in stored : s.id = id
    BY <1>3, <1>5, <1>8
  <2>2. /\ tracker' \in TrackerRecord /\ tracker'.list = tracker.list
        /\ tracker'.pc = tracker.pc /\ tracker'.next = tracker.next + 1
        /\ tracker'.ip_port = UNION {AddressOf(s) : s \in stored}
    BY <1>2, <1>8, <2>1
  <2>. QED
    BY <1>1, <2>1, <2>2
<1>. QED
  BY <1>4, <1>6, <1>7, <1>8

-----------------------------------------------------------------------------
(* Types *)

LEMMA OpsNat == TypeOK => ops \in Nat /\ MaxOps \in Nat /\ announces \in Nat /\ MaxAnnounces \in Nat
BY BoundsAssumption DEF TypeOK

LEMMA TypeInit == Init => TypeOK
<1>1. 0 \in 0..MaxOps /\ 0 \in 0..MaxAnnounces
  BY BoundsAssumption
<1>. SUFFICES ASSUME Init
              PROVE  TypeOK
  OBVIOUS
<1>2. client \in [Clients -> ClientRecord] /\ torrent \in Torrent
  BY IdleType, NothingType DEF Init
<1>3. tracker \in TrackerRecord /\ tracker.next \in 1..(Len(tracker.list) + 1)
  BY RestingType DEF Init
<1>. QED
  BY <1>1, <1>2, <1>3 DEF Init, TypeOK

\* Every step keeps the types; a client that saves a seed bank has an id for it.
LEMMA TypeStep == IInv /\ [Next]_vars => TypeOK'
<1>. SUFFICES ASSUME TypeOK, RecordProper, ClientsProper, IdsCounted, CacheNeverStale, Resolving, [Next]_vars
              PROVE  TypeOK'
  BY DEF IInv
<1>. USE DEF TypeOK, database, history, TrackerOnly
<1>1. CASE UNCHANGED vars
  BY <1>1 DEF vars
<1>2. ASSUME NEW c \in Clients, Client(c)
      PROVE  TypeOK'
  <2>1. CASE handle_action(c)
    <3>1. client' \in [Clients -> ClientRecord]
      BY <2>1, HandleFields
    <3>2. ops' \in 0..MaxOps
      <4>1. ops \in Nat /\ MaxOps \in Nat
        BY OpsNat
      <4>2. ops < MaxOps /\ ops' = ops + 1
        BY <2>1 DEF handle_action
      <4>. QED
        BY <4>1, <4>2
    <3>. QED
      BY <2>1, <3>1, <3>2 DEF handle_action
  <2>2. CASE find_seedbank(c)
    BY <2>2, FindSeedbankFields DEF find_seedbank
  <2>3. CASE get_next_seedbank_id(c)
    <3>0. client' \in [Clients -> ClientRecord]
      BY <2>3, NextIdFields
    <3>1. /\ client' \in [Clients -> ClientRecord] /\ counter' = counter + 1 /\ counter' \in Nat
          /\ client[c].sb \in [id : Nat, address : Addresses]
      BY <2>3, <3>0 DEF get_next_seedbank_id, ClientRecord
    <3>2. asked' \subseteq Nat \X Addresses
      BY <2>3, <3>1 DEF get_next_seedbank_id
    <3>. QED
      BY <2>3, <3>1, <3>2 DEF get_next_seedbank_id
  <2>4. CASE save_seedbank(c)
    <3>1. client' \in [Clients -> ClientRecord]
      BY <2>4, SaveFields
    <3>2. client[c].sb \in Seedbanks
      <4>1. client[c].pc = "save_seedbank" /\ client[c].sb \in [id : Nat, address : Addresses]
        BY <2>4 DEF save_seedbank, ClientRecord
      <4>2. <<client[c].sb.id, client[c].sb.address>> \in asked
        BY <4>1 DEF ClientsProper, ClientProper
      <4>3. client[c].sb.id # 0
        BY <4>2 DEF IdsCounted
      <4>. QED
        BY <4>1, <4>3 DEF Seedbanks
    <3>. QED
      BY <2>4, <3>1, <3>2 DEF save_seedbank
  <2>5. CASE find(c)
    BY <2>5, FindFields DEF find
  <2>6. CASE add_torrent(c)
    <3>1. client' \in [Clients -> ClientRecord] /\ [NoTorrent EXCEPT !.oid = ops] \in Torrent
      <4>1. ops \in Nat
        BY BoundsAssumption
      <4>. QED
        BY <2>6, <4>1, EndsFields, NothingType DEF add_torrent, Torrent
    <3>2. torrent' \in Torrent
      BY <2>6, <3>1 DEF add_torrent
    <3>3. expected' \in [known : BOOLEAN, seedbanks : SUBSET Nat, completed : Nat]
      <4>1. \/ expected' = [known |-> TRUE, seedbanks |-> {}, completed |-> 0]
            \/ expected' = expected
        BY <2>6 DEF add_torrent
      <4>2. expected \in [known : BOOLEAN, seedbanks : SUBSET Nat, completed : Nat]
        OBVIOUS
      <4>3. [known |-> TRUE, seedbanks |-> {}, completed |-> 0] \in [known : BOOLEAN, seedbanks : SUBSET Nat, completed : Nat]
        OBVIOUS
      <4>4. CASE expected' = expected
        BY <4>2, <4>4
      <4>5. CASE expected' = [known |-> TRUE, seedbanks |-> {}, completed |-> 0]
        BY <4>3, <4>5
      <4>. QED
        BY <4>1, <4>4, <4>5
    <3>. QED
      BY <2>6, <3>1, <3>2, <3>3 DEF add_torrent, Ends
  <2>7. CASE remove_torrent(c)
    BY <2>7, EndsFields, NothingType DEF remove_torrent, Ends
  <2>8. ASSUME NEW op \in SeedbankOps, save_seedbanks(c, op)
        PROVE  TypeOK'
    <3>1. Ends(c, op) /\ client' \in [Clients -> ClientRecord] /\ client[c].sb.id \in Nat /\ client[c].list \in Lists
      BY <2>8, EndsFields DEF save_seedbanks, ClientRecord
    <3>2. torrent' \in Torrent
      BY <2>8, <3>1 DEF save_seedbanks, Torrent
    <3>3. expected' \in [known : BOOLEAN, seedbanks : SUBSET Nat, completed : Nat]
      BY <2>8, <3>1 DEF save_seedbanks
    <3>4. stale' \in BOOLEAN
      BY <2>8 DEF save_seedbanks
    <3>. QED
      BY <3>1, <3>2, <3>3, <3>4 DEF Ends
  <2>9. CASE update_torrent(c)
    BY <2>9, EndsFields, ListTypes DEF update_torrent, Ends, SavedRecord, Torrent, ClientRecord
  <2>. QED
    BY <1>2, <2>1, <2>2, <2>3, <2>4, <2>5, <2>6, <2>7, <2>8, <2>9 DEF Client, SeedbankOps
<1>3. CASE Tracker
  <2>1. CASE hashisvalid
    <3>1. tracker' \in TrackerRecord /\ tracker'.next = 1 /\ tracker'.list = <<>>
      <4>1. \/ tracker' = [Resting EXCEPT !.pc = "get_seedbanks"]
            \/ tracker' = tracker /\ tracker.pc = "rest"
        BY <2>1 DEF hashisvalid
      <4>2. tracker.pc = "rest" => tracker = [Resting EXCEPT !.pc = "rest"]
        BY DEF Resolving
      <4>3. PICK pc \in {"rest", "get_seedbanks", "resolve", "update_stats"} : tracker' = [Resting EXCEPT !.pc = pc]
        BY <4>1, <4>2
      <4>. HIDE DEF TypeOK
      <4>. QED
        BY <4>3, TrackerPc, RestingType
    <3>2. Len(<<>>) = 0
      OBVIOUS
    <3>. QED
      BY <2>1, <3>1, <3>2, BoundsAssumption DEF hashisvalid
  <2>2. CASE hashisvalid_null
    BY <2>2, RestingType, BoundsAssumption DEF hashisvalid_null
  <2>3. CASE get_seedbanks
    <3>1. tracker' \in TrackerRecord /\ tracker'.next = 1 /\ Len(tracker'.list) \in Nat
      BY <2>3, ReadFields DEF TrackerRecord
    <3>. QED
      BY <2>3, <3>1 DEF get_seedbanks
  <2>4. CASE get_seedbanks_next
    <3>1. tracker' \in TrackerRecord /\ tracker'.list = tracker.list
          /\ tracker.next \in 1..Len(tracker.list) /\ tracker'.next \in {tracker.next, tracker.next + 1}
      BY <2>4, TurnFields
    <3>2. cache' \subseteq Seedbanks
      BY <2>4 DEF get_seedbanks_next, get_seedbank_for_id
    <3>3. tracker'.next \in 1..(Len(tracker'.list) + 1)
      <4>1. Len(tracker.list) \in Nat
        BY DEF TrackerRecord
      <4>. QED
        BY <3>1, <4>1
    <3>. QED
      BY <2>4, <3>1, <3>2, <3>3 DEF get_seedbanks_next
  <2>5. CASE add_seedbanks
    BY <2>5, TrackerPc DEF add_seedbanks
  <2>6. CASE update_stats
    <3>1. PICK n \in {0, 1} : /\ torrent' = [torrent EXCEPT !.completed = @ + n]
                              /\ expected' = [expected EXCEPT !.completed = @ + n]
      BY <2>6 DEF update_stats
    <3>2. torrent' \in Torrent /\ expected' \in [known : BOOLEAN, seedbanks : SUBSET Nat, completed : Nat]
      BY <3>1 DEF Torrent
    <3>. QED
      BY <2>6, <3>2, RestingType DEF update_stats
  <2>. QED
    BY <1>3, <2>1, <2>2, <2>3, <2>4, <2>5, <2>6 DEF Tracker
<1>. QED
  BY <1>1, <1>2, <1>3 DEF Next, Finished

\* A record comes into being by an insert, or by a save that replaces, with an oid.
LEMMA RecordProperStep == IInv /\ [Next]_vars => RecordProper'
<1>. SUFFICES ASSUME TypeOK, RecordProper, ClientsProper, [Next]_vars
              PROVE  RecordProper'
  BY TypeStep DEF IInv
<1>. USE DEF RecordProper, database, history, TrackerOnly
<1>1. CASE UNCHANGED vars
  BY <1>1 DEF vars, TypeOK
<1>2. ASSUME NEW c \in Clients, Client(c)
      PROVE  RecordProper'
  <2>1. CASE handle_action(c)
    BY <2>1 DEF handle_action, TypeOK
  <2>2. CASE find_seedbank(c)
    BY <2>2 DEF find_seedbank, TypeOK
  <2>3. CASE get_next_seedbank_id(c)
    BY <2>3 DEF get_next_seedbank_id, TypeOK
  <2>4. CASE save_seedbank(c)
    BY <2>4 DEF save_seedbank, TypeOK
  <2>5. CASE find(c)
    BY <2>5 DEF find, TypeOK
  <2>6. CASE add_torrent(c)
    BY <2>6, NothingType, NoIds DEF add_torrent, Ends, TypeOK, Torrent
  <2>7. CASE remove_torrent(c)
    BY <2>7, NothingType, NoIds DEF remove_torrent, Ends, TypeOK
  <2>8. ASSUME NEW op \in SeedbankOps, save_seedbanks(c, op)
        PROVE  RecordProper'
    BY <2>8 DEF save_seedbanks, Ends, TypeOK, ClientsProper, ClientProper, Torrent
  <2>9. CASE update_torrent(c)
    BY <2>9, NoIds DEF update_torrent, Ends, TypeOK, SavedRecord, Torrent, ClientsProper, ClientProper, ClientRecord
  <2>. QED
    BY <1>2, <2>1, <2>2, <2>3, <2>4, <2>5, <2>6, <2>7, <2>8, <2>9 DEF Client, SeedbankOps
<1>3. CASE Tracker
  <2>1. CASE hashisvalid
    BY <2>1 DEF hashisvalid, TypeOK
  <2>2. CASE hashisvalid_null
    BY <2>2 DEF hashisvalid_null, TypeOK
  <2>3. CASE get_seedbanks
    BY <2>3 DEF get_seedbanks, TypeOK
  <2>4. CASE get_seedbanks_next
    BY <2>4 DEF get_seedbanks_next, TypeOK
  <2>5. CASE add_seedbanks
    BY <2>5 DEF add_seedbanks, TypeOK
  <2>6. CASE update_stats
    BY <2>6, NothingType DEF update_stats, TypeOK, Torrent
  <2>. QED
    BY <1>3, <2>1, <2>2, <2>3, <2>4, <2>5, <2>6 DEF Tracker
<1>. QED
  BY <1>1, <1>2, <1>3 DEF Next, Finished

\* A client goes on with what its last statement returned.
LEMMA ClientsProperStep == IInv /\ [Next]_vars => ClientsProper'
<1>. SUFFICES ASSUME TypeOK, TypeOK', RecordProper, ClientsProper, IdsCounted, IdsMeanOneAddress, [Next]_vars
              PROVE  ClientsProper'
  BY TypeStep DEF IInv
<1>. USE DEF database, history, TrackerOnly
<1>1. CASE UNCHANGED vars
  BY <1>1, KnowledgeKept DEF vars
<1>2. ASSUME NEW c \in Clients, Client(c)
      PROVE  ClientsProper'
  <2>1. CASE handle_action(c)
    <3>1. Same(c) /\ ops' = ops + 1 /\ asked' = asked /\ ops \in Nat
      BY <2>1, HandleFields, OpsNat DEF handle_action
    <3>2. ClientProper(c)'
      <4>1. \/ client'[c].pc = "find_seedbank" /\ client'[c].op \in SeedbankOps
            \/ client'[c].pc = "find" /\ client'[c].op \notin SeedbankOps
        BY <2>1, HandleFields
      <4>. QED
        BY <3>1, <4>1 DEF ClientProper, SeedbankOps, Operations
    <3>. QED
      BY <3>1, <3>2, OthersProper
  <2>2. CASE find_seedbank(c)
    <3>1. Same(c) /\ ops' = ops /\ asked' = asked /\ ops \in Nat
      BY <2>2, FindSeedbankFields, OpsNat DEF find_seedbank
    <3>2. ClientProper(c) /\ client[c].pc = "find_seedbank"
      BY <2>2 DEF ClientsProper, find_seedbank
    <3>3. /\ client'[c].op = client[c].op
          /\ \/ client'[c].pc = "next_id"
             \/ client'[c].pc = "find" /\ client'[c].sb \in seedbanks
      BY <2>2, FindSeedbankFields
    <3>4. \A s \in seedbanks : <<s.id, s.address>> \in asked
      BY DEF IdsMeanOneAddress
    <3>5. ClientProper(c)'
      BY <3>1, <3>2, <3>3, <3>4 DEF ClientProper, SeedbankOps, Operations
    <3>. QED
      BY <3>1, <3>5, OthersProper
  <2>3. CASE get_next_seedbank_id(c)
    <3>1. Same(c) /\ ops' = ops /\ ops \in Nat /\ asked' = asked \cup {<<counter + 1, client[c].sb.address>>}
      BY <2>3, NextIdFields, OpsNat DEF get_next_seedbank_id
    <3>2. ClientProper(c) /\ client[c].pc = "next_id"
      BY <2>3 DEF ClientsProper, get_next_seedbank_id
    <3>3. /\ client'[c].op = client[c].op /\ client'[c].pc = "save_seedbank"
          /\ client'[c].sb.id = counter + 1 /\ client'[c].sb.address = client[c].sb.address
      BY <2>3, NextIdFields
    <3>5. ClientProper(c)'
      BY <3>1, <3>2, <3>3 DEF ClientProper, SeedbankOps, Operations
    <3>. QED
      BY <3>1, <3>5, OthersProper
  <2>4. CASE save_seedbank(c)
    <3>1. Same(c) /\ ops' = ops /\ ops \in Nat /\ asked' = asked
      BY <2>4, SaveFields, OpsNat DEF save_seedbank
    <3>2. ClientProper(c) /\ client[c].pc = "save_seedbank" /\ client[c] \in ClientRecord
      BY <2>4 DEF ClientsProper, save_seedbank, TypeOK
    <3>3. \/ /\ client'[c].op = client[c].op /\ client'[c].pc = "find" /\ client'[c].sb = client[c].sb
          \/ client'[c].pc = "idle" /\ client'[c].op = "add_torrent"
      BY <2>4, <3>2, SaveFields, IdleType, ZenonT(30) DEF ClientRecord
    <3>5. ClientProper(c)'
      BY <3>1, <3>2, <3>3 DEF ClientProper, SeedbankOps, Operations
    <3>. QED
      BY <3>1, <3>5, OthersProper
  <2>5. CASE find(c)
    <3>1. Same(c) /\ ops' = ops /\ ops \in Nat /\ asked' = asked
      BY <2>5, FindFields, OpsNat DEF find
    <3>2. ClientProper(c) /\ client[c].pc = "find" /\ client[c] \in ClientRecord
      BY <2>5 DEF ClientsProper, find, TypeOK
    <3>3. ASSUME client'[c] = Idle
          PROVE  ClientProper(c)'
      <4>1. client'[c].pc = "idle" /\ client'[c].op = "add_torrent"
        BY <3>3, IdleType
      <4>. QED
        BY <4>1 DEF ClientProper, SeedbankOps, Operations
    <3>4. ASSUME client'[c] # Idle
          PROVE  ClientProper(c)'
      <4>. DEFINE op == client[c].op
                  id == client[c].sb.id
      <4>1. /\ client'[c].pc = op /\ client'[c].op = op /\ client'[c].sb = client[c].sb
            /\ client'[c].torrent = torrent /\ Found(op) /\ Changes(op, id)
            /\ op \in SeedbankOps => client'[c].list = NewList(op, id)
        BY <2>5, <3>4, FindFields
      <4>2. op \in Operations
        BY <3>2 DEF ClientRecord
      <4>3. op # "add_torrent" => torrent.oid # 0 /\ torrent.seedbanks # Missing
        BY <4>1 DEF Found, RecordProper
      <4>4. op \in SeedbankOps =>
              /\ <<id, client[c].sb.address>> \in asked /\ id \in Id /\ client[c].sb.address \in Addresses
        BY <3>2, SMTT(30) DEF ClientProper, IdsCounted, TypeOK, Id
      <4>5. op \in SeedbankOps =>
              /\ NewList(op, id) \in Seq(Id)
              /\ Distinct(NewList(op, id))
              /\ Ids(NewList(op, id)) = IF op = "add_seedbank" THEN Ids(torrent.seedbanks) \cup {id}
                                        ELSE Ids(torrent.seedbanks) \ {id}
        BY <4>1, <4>4, NewListProperties
      <4>6. op \in SeedbankOps => NewList(op, id) # Missing /\ Taken(Ids(NewList(op, id)))
        <5>1. Taken(Ids(torrent.seedbanks))
          BY DEF IdsMeanOneAddress, Taken
        <5>. HIDE DEF op, id
        <5>. QED
          BY <4>4, <4>5, <5>1, ListsApart DEF Taken, id
      <4>7. ops > 0
        BY <3>2 DEF ClientProper
      <4>8. op \notin {"find_seedbank", "next_id", "save_seedbank", "find", "idle"}
        BY <4>2 DEF Operations
      <4>. HIDE DEF op, id
      <4>10. op \notin SeedbankOps => op \in {"add_torrent", "remove_torrent", "update_torrent"}
        BY <4>2 DEF Operations, SeedbankOps
      <4>11. Taken(Ids(client[c].list))' <=> Taken(Ids(client[c].list'))
        BY <3>1 DEF Taken, Ids
      <4>12. CASE op \notin SeedbankOps
        BY <3>1, <4>1, <4>3, <4>7, <4>8, <4>10, <4>12 DEF ClientProper, SeedbankOps
      <4>13. CASE op \in SeedbankOps
        <5>. DEFINE l == NewList(op, id)
        <5>1. /\ client'[c].list = l /\ l # Missing /\ Distinct(l) /\ Taken(Ids(l))
              /\ Ids(l) = IF op = "add_seedbank" THEN Ids(torrent.seedbanks) \cup {id}
                          ELSE Ids(torrent.seedbanks) \ {id}
          BY <4>1, <4>5, <4>6, <4>13
        <5>. HIDE DEF l
        <5>2. Taken(Ids(client[c].list))'
          BY <3>1, <4>11, <5>1 DEF Taken
        <5>3. /\ torrent.oid # 0 /\ torrent.seedbanks # Missing
              /\ <<client'[c].sb.id, client'[c].sb.address>> \in asked' /\ client'[c].sb.id = id
          BY <3>1, <4>1, <4>3, <4>4, <4>13 DEF id, SeedbankOps
        <5>. QED
          BY <3>1, <4>1, <4>7, <4>8, <4>13, <5>1, <5>2, <5>3 DEF ClientProper, SeedbankOps
      <4>. QED
        BY <4>12, <4>13
    <3>. QED
      BY <3>1, <3>3, <3>4, OthersProper
  <2>6. CASE add_torrent(c)
    <3>1. Ends(c, "add_torrent")
      BY <2>6 DEF add_torrent
    <3>2. Same(c) /\ client'[c] = Idle /\ ops' = ops /\ ops \in Nat /\ asked' = asked
      BY <3>1, EndsFields, OpsNat DEF Ends
    <3>3. ClientProper(c)'
      BY <3>2, IdleType DEF ClientProper, SeedbankOps, Operations
    <3>. QED
      BY <3>2, <3>3, OthersProper
  <2>7. CASE remove_torrent(c)
    <3>1. Ends(c, "remove_torrent")
      BY <2>7 DEF remove_torrent
    <3>2. Same(c) /\ client'[c] = Idle /\ ops' = ops /\ ops \in Nat /\ asked' = asked
      BY <3>1, EndsFields, OpsNat DEF Ends
    <3>3. ClientProper(c)'
      BY <3>2, IdleType DEF ClientProper, SeedbankOps, Operations
    <3>. QED
      BY <3>2, <3>3, OthersProper
  <2>8. ASSUME NEW op \in SeedbankOps, save_seedbanks(c, op)
        PROVE  ClientsProper'
    <3>1. Ends(c, op)
      BY <2>8 DEF save_seedbanks
    <3>2. Same(c) /\ client'[c] = Idle /\ ops' = ops /\ ops \in Nat /\ asked' = asked
      BY <3>1, EndsFields, OpsNat DEF Ends
    <3>3. ClientProper(c)'
      BY <3>2, IdleType DEF ClientProper, SeedbankOps, Operations
    <3>. QED
      BY <3>2, <3>3, OthersProper
  <2>9. CASE update_torrent(c)
    <3>1. Ends(c, "update_torrent")
      BY <2>9 DEF update_torrent
    <3>2. Same(c) /\ client'[c] = Idle /\ ops' = ops /\ ops \in Nat /\ asked' = asked
      BY <3>1, EndsFields, OpsNat DEF Ends
    <3>3. ClientProper(c)'
      BY <3>2, IdleType DEF ClientProper, SeedbankOps, Operations
    <3>. QED
      BY <3>2, <3>3, OthersProper
  <2>. QED
    BY <1>2, <2>1, <2>2, <2>3, <2>4, <2>5, <2>6, <2>7, <2>8, <2>9 DEF Client, SeedbankOps
<1>3. CASE Tracker
  <2>1. CASE hashisvalid
    BY <2>1, KnowledgeKept DEF hashisvalid
  <2>2. CASE hashisvalid_null
    BY <2>2, KnowledgeKept DEF hashisvalid_null
  <2>3. CASE get_seedbanks
    BY <2>3, KnowledgeKept DEF get_seedbanks
  <2>4. CASE get_seedbanks_next
    BY <2>4, KnowledgeKept DEF get_seedbanks_next
  <2>5. CASE add_seedbanks
    BY <2>5, KnowledgeKept DEF add_seedbanks
  <2>6. CASE update_stats
    BY <2>6, KnowledgeKept DEF update_stats
  <2>. QED
    BY <1>3, <2>1, <2>2, <2>3, <2>4, <2>5, <2>6 DEF Tracker
<1>. QED
  BY <1>1, <1>2, <1>3 DEF Next, Finished

\* Only the statement that counts takes an id.
LEMMA IdsCountedStep == IInv /\ [Next]_vars => IdsCounted'
<1>. SUFFICES ASSUME TypeOK, IdsCounted, [Next]_vars
              PROVE  IdsCounted'
  BY TypeStep DEF IInv
<1>. USE DEF IdsCounted, database, history, TrackerOnly
<1>1. CASE UNCHANGED vars
  BY <1>1 DEF vars, TypeOK
<1>2. ASSUME NEW c \in Clients, Client(c)
      PROVE  IdsCounted'
  <2>1. CASE handle_action(c)
    BY <2>1 DEF handle_action, TypeOK
  <2>2. CASE find_seedbank(c)
    BY <2>2 DEF find_seedbank, TypeOK
  <2>3. CASE get_next_seedbank_id(c)
    BY <2>3 DEF get_next_seedbank_id, TypeOK
  <2>4. CASE save_seedbank(c)
    BY <2>4 DEF save_seedbank, TypeOK
  <2>5. CASE find(c)
    BY <2>5 DEF find, TypeOK
  <2>6. CASE add_torrent(c)
    BY <2>6 DEF add_torrent, Ends, TypeOK
  <2>7. CASE remove_torrent(c)
    BY <2>7 DEF remove_torrent, Ends, TypeOK
  <2>8. ASSUME NEW op \in SeedbankOps, save_seedbanks(c, op)
        PROVE  IdsCounted'
    BY <2>8 DEF save_seedbanks, Ends, TypeOK
  <2>9. CASE update_torrent(c)
    BY <2>9 DEF update_torrent, Ends, TypeOK
  <2>. QED
    BY <1>2, <2>1, <2>2, <2>3, <2>4, <2>5, <2>6, <2>7, <2>8, <2>9 DEF Client, SeedbankOps
<1>3. CASE Tracker
  <2>1. CASE hashisvalid
    BY <2>1 DEF hashisvalid, TypeOK
  <2>2. CASE hashisvalid_null
    BY <2>2 DEF hashisvalid_null, TypeOK
  <2>3. CASE get_seedbanks
    BY <2>3 DEF get_seedbanks, TypeOK
  <2>4. CASE get_seedbanks_next
    BY <2>4 DEF get_seedbanks_next, TypeOK
  <2>5. CASE add_seedbanks
    BY <2>5 DEF add_seedbanks, TypeOK
  <2>6. CASE update_stats
    BY <2>6 DEF update_stats, TypeOK
  <2>. QED
    BY <1>3, <2>1, <2>2, <2>3, <2>4, <2>5, <2>6 DEF Tracker
<1>. QED
  BY <1>1, <1>2, <1>3 DEF Next, Finished

\* An id that is taken is new; what is stored or listed was taken.
LEMMA IdsMeanOneAddressStep == IInv /\ [Next]_vars => IdsMeanOneAddress'
<1>. SUFFICES ASSUME TypeOK, TypeOK', ClientsProper, IdsCounted, IdsMeanOneAddress, [Next]_vars
              PROVE  IdsMeanOneAddress'
  BY TypeStep DEF IInv
<1>. USE DEF IdsMeanOneAddress, database, history, TrackerOnly
<1>1. CASE UNCHANGED vars
  BY <1>1 DEF vars, TypeOK
<1>2. ASSUME NEW c \in Clients, Client(c)
      PROVE  IdsMeanOneAddress'
  <2>1. CASE handle_action(c)
    BY <2>1 DEF handle_action, TypeOK
  <2>2. CASE find_seedbank(c)
    BY <2>2 DEF find_seedbank, TypeOK
  <2>3. CASE get_next_seedbank_id(c)
    <3>1. asked' = asked \cup {<<counter + 1, client[c].sb.address>>} /\ torrent' = torrent /\ seedbanks' = seedbanks
      BY <2>3 DEF get_next_seedbank_id
    <3>2. \A p \in asked : p[1] # counter + 1
      BY DEF IdsCounted, TypeOK
    <3>3. \A p, q \in asked' : p[1] = q[1] => p = q
      BY <3>1, <3>2
    <3>. QED
      BY <3>1, <3>3, ZenonT(30) DEF Ids
  <2>4. CASE save_seedbank(c)
    BY <2>4 DEF save_seedbank, TypeOK, ClientsProper, ClientProper, Seedbanks
  <2>5. CASE find(c)
    BY <2>5 DEF find, TypeOK
  <2>6. CASE add_torrent(c)
    <3>1. /\ torrent'.seedbanks = torrent.seedbanks \/ torrent'.seedbanks = Null
          /\ asked' = asked /\ seedbanks' = seedbanks
      BY <2>6, NothingType DEF add_torrent, Ends, Torrent
    <3>2. Ids(torrent'.seedbanks) \subseteq Ids(torrent.seedbanks)
      BY <3>1, NoIds
    <3>3. Ids(torrent.seedbanks)' = Ids(torrent'.seedbanks)
      BY DEF Ids
    <3>. QED
      BY <3>1, <3>2, <3>3
  <2>7. CASE remove_torrent(c)
    BY <2>7, NothingType, NoIds DEF remove_torrent, Ends, TypeOK
  <2>8. ASSUME NEW op \in SeedbankOps, save_seedbanks(c, op)
        PROVE  IdsMeanOneAddress'
    <3>1. /\ torrent'.seedbanks = torrent.seedbanks \/ torrent'.seedbanks = client[c].list
          /\ asked' = asked /\ seedbanks' = seedbanks /\ client[c].pc \in SeedbankOps
      BY <2>8 DEF save_seedbanks, Ends, TypeOK, Torrent
    <3>2. Taken(Ids(client[c].list))
      BY <3>1 DEF ClientsProper, ClientProper
    <3>3. Ids(torrent.seedbanks)' = Ids(torrent'.seedbanks)
      BY DEF Ids
    <3>. QED
      BY <3>1, <3>2, <3>3 DEF Taken
  <2>9. CASE update_torrent(c)
    BY <2>9, NoIds DEF update_torrent, Ends, TypeOK, SavedRecord
  <2>. QED
    BY <1>2, <2>1, <2>2, <2>3, <2>4, <2>5, <2>6, <2>7, <2>8, <2>9 DEF Client, SeedbankOps
<1>3. CASE Tracker
  <2>1. CASE hashisvalid
    BY <2>1 DEF hashisvalid, TypeOK
  <2>2. CASE hashisvalid_null
    BY <2>2 DEF hashisvalid_null, TypeOK
  <2>3. CASE get_seedbanks
    BY <2>3 DEF get_seedbanks, TypeOK
  <2>4. CASE get_seedbanks_next
    BY <2>4 DEF get_seedbanks_next, TypeOK
  <2>5. CASE add_seedbanks
    BY <2>5 DEF add_seedbanks, TypeOK
  <2>6. CASE update_stats
    <3>1. torrent'.seedbanks = torrent.seedbanks /\ asked' = asked /\ seedbanks' = seedbanks
      BY <2>6 DEF update_stats, TypeOK, Torrent
    <3>2. Ids(torrent.seedbanks)' = Ids(torrent.seedbanks)
      BY <3>1 DEF Ids
    <3>. QED
      BY <3>1, <3>2
  <2>. QED
    BY <1>3, <2>1, <2>2, <2>3, <2>4, <2>5, <2>6 DEF Tracker
<1>. QED
  BY <1>1, <1>2, <1>3 DEF Next, Finished

\* Seed banks are only added.
LEMMA CacheNeverStaleStep == IInv /\ [Next]_vars => CacheNeverStale'
<1>. SUFFICES ASSUME TypeOK, CacheNeverStale, [Next]_vars
              PROVE  CacheNeverStale'
  BY TypeStep DEF IInv
<1>. USE DEF CacheNeverStale, database, history, TrackerOnly
<1>1. CASE UNCHANGED vars
  BY <1>1 DEF vars
<1>2. ASSUME NEW c \in Clients, Client(c)
      PROVE  CacheNeverStale'
  <2>1. CASE handle_action(c)
    BY <2>1 DEF handle_action
  <2>2. CASE find_seedbank(c)
    BY <2>2 DEF find_seedbank
  <2>3. CASE get_next_seedbank_id(c)
    BY <2>3 DEF get_next_seedbank_id
  <2>4. CASE save_seedbank(c)
    BY <2>4 DEF save_seedbank
  <2>5. CASE find(c)
    BY <2>5 DEF find
  <2>6. CASE add_torrent(c)
    BY <2>6 DEF add_torrent, Ends
  <2>7. CASE remove_torrent(c)
    BY <2>7 DEF remove_torrent, Ends
  <2>8. ASSUME NEW op \in SeedbankOps, save_seedbanks(c, op)
        PROVE  CacheNeverStale'
    BY <2>8 DEF save_seedbanks, Ends
  <2>9. CASE update_torrent(c)
    BY <2>9 DEF update_torrent, Ends
  <2>. QED
    BY <1>2, <2>1, <2>2, <2>3, <2>4, <2>5, <2>6, <2>7, <2>8, <2>9 DEF Client, SeedbankOps
<1>3. CASE Tracker
  <2>1. CASE hashisvalid
    BY <2>1 DEF hashisvalid
  <2>2. CASE hashisvalid_null
    BY <2>2 DEF hashisvalid_null
  <2>3. CASE get_seedbanks
    BY <2>3 DEF get_seedbanks
  <2>4. CASE get_seedbanks_next
    BY <2>4 DEF get_seedbanks_next, get_seedbank_for_id
  <2>5. CASE add_seedbanks
    BY <2>5 DEF add_seedbanks
  <2>6. CASE update_stats
    BY <2>6 DEF update_stats
  <2>. QED
    BY <1>3, <2>1, <2>2, <2>3, <2>4, <2>5, <2>6 DEF Tracker
<1>. QED
  BY <1>1, <1>2, <1>3 DEF Next, Finished

\* A turn of the loop finds seed banks of one address or ends it.
LEMMA ResolvingStep == IInv /\ [Next]_vars => Resolving'
<1>. SUFFICES ASSUME TypeOK, TypeOK', IdsMeanOneAddress, CacheNeverStale, Resolving, [Next]_vars
              PROVE  Resolving'
  BY TypeStep DEF IInv
<1>. USE DEF Resolving, database, history, TrackerOnly
<1>1. CASE UNCHANGED vars
  BY <1>1 DEF vars, TypeOK, TrackerRecord
<1>2. ASSUME NEW c \in Clients, Client(c)
      PROVE  Resolving'
  <2>1. CASE handle_action(c)
    BY <2>1 DEF handle_action, TypeOK, TrackerRecord
  <2>2. CASE find_seedbank(c)
    BY <2>2 DEF find_seedbank, TypeOK, TrackerRecord
  <2>3. CASE get_next_seedbank_id(c)
    BY <2>3 DEF get_next_seedbank_id, TypeOK, TrackerRecord
  <2>4. CASE save_seedbank(c)
    BY <2>4 DEF save_seedbank, TypeOK, TrackerRecord
  <2>5. CASE find(c)
    BY <2>5 DEF find, TypeOK, TrackerRecord
  <2>6. CASE add_torrent(c)
    BY <2>6 DEF add_torrent, Ends, TypeOK, TrackerRecord
  <2>7. CASE remove_torrent(c)
    BY <2>7 DEF remove_torrent, Ends, TypeOK, TrackerRecord
  <2>8. ASSUME NEW op \in SeedbankOps, save_seedbanks(c, op)
        PROVE  Resolving'
    BY <2>8 DEF save_seedbanks, Ends, TypeOK, TrackerRecord
  <2>9. CASE update_torrent(c)
    BY <2>9 DEF update_torrent, Ends, TypeOK, TrackerRecord
  <2>. QED
    BY <1>2, <2>1, <2>2, <2>3, <2>4, <2>5, <2>6, <2>7, <2>8, <2>9 DEF Client, SeedbankOps
<1>3. CASE Tracker
  <2>1. CASE hashisvalid
    BY <2>1, RestingType DEF hashisvalid, TypeOK, TrackerRecord
  <2>2. CASE hashisvalid_null
    BY <2>2, RestingType DEF hashisvalid_null, TypeOK, TrackerRecord
  <2>3. CASE get_seedbanks
    BY <2>3, ReadFields DEF get_seedbanks
  <2>4. CASE get_seedbanks_next
    <3>1. /\ tracker'.list = tracker.list /\ tracker.next \in 1..Len(tracker.list) /\ asked' = asked
          /\ tracker.pc = "resolve"
      BY <2>4, TurnFields DEF get_seedbanks_next
    <3>2. CASE tracker'.pc = "update_stats" /\ tracker'.ip_port = {}
      BY <3>2
    <3>3. CASE /\ tracker'.pc = tracker.pc /\ tracker'.next = tracker.next + 1
               /\ \E S \in (SUBSET seedbanks) \ {{}} :
                    /\ \A s \in S : s.id = tracker.list[tracker.next]
                    /\ tracker'.ip_port = UNION {AddressOf(s) : s \in S}
      <4>1. PICK S \in (SUBSET seedbanks) \ {{}} :
              /\ \A s \in S : s.id = tracker.list[tracker.next]
              /\ tracker'.ip_port = UNION {AddressOf(s) : s \in S}
        BY <3>3
      <4>2. PICK s \in S : TRUE
        <5>1. S # {}
          BY <4>1
        <5>. QED
          BY <5>1
      <4>3. \A r \in S : <<tracker.list[tracker.next], r.address>> \in asked /\ r.address \in Addresses
        BY <4>1, SMTT(30) DEF IdsMeanOneAddress, TypeOK, Seedbanks
      <4>4. \A r \in S : r.address = s.address
        BY <4>2, <4>3 DEF IdsMeanOneAddress
      <4>5. tracker'.ip_port = {s.address}
        BY <4>1, <4>2, <4>4 DEF AddressOf
      <4>6. tracker'.next > 1 /\ tracker'.next - 1 = tracker.next
        BY <3>1, <3>3
      <4>. QED
        BY <3>1, <3>3, <4>2, <4>3, <4>5, <4>6
    <3>. QED
      BY <2>4, <3>2, <3>3, TurnFields
  <2>5. CASE add_seedbanks
    <3>1. /\ tracker'.pc = "update_stats" /\ tracker'.list = tracker.list /\ tracker'.next = tracker.next
          /\ tracker'.ip_port = tracker.ip_port /\ asked' = asked
      BY <2>5, TrackerPc DEF add_seedbanks, TypeOK
    <3>2. tracker.next = Len(tracker.list) + 1
      <4>1. Len(tracker.list) \in Nat /\ tracker.next \in 1..(Len(tracker.list) + 1)
        BY DEF TypeOK, TrackerRecord
      <4>2. tracker.next > Len(tracker.list)
        BY <2>5 DEF add_seedbanks
      <4>. QED
        BY <4>1, <4>2
    <3>. QED
      BY <3>1, <3>2
  <2>6. CASE update_stats
    BY <2>6, RestingType DEF update_stats, TypeOK, TrackerRecord
  <2>. QED
    BY <1>3, <2>1, <2>2, <2>3, <2>4, <2>5, <2>6 DEF Tracker
<1>. QED
  BY <1>1, <1>2, <1>3 DEF Next, Finished

\* A statement on a copy that is up to date does what the operation would do at once.
LEMMA ExactUnlessStaleStep == IInv /\ [Next]_vars => ExactUnlessStale'
<1>. SUFFICES ASSUME TypeOK, TypeOK', RecordProper, ClientsProper, ExactUnlessStale, [Next]_vars
              PROVE  ExactUnlessStale'
  BY TypeStep DEF IInv
<1>. USE DEF ExactUnlessStale, database, history, TrackerOnly
<1>1. CASE UNCHANGED vars
  BY <1>1 DEF vars, TypeOK
<1>2. ASSUME NEW c \in Clients, Client(c)
      PROVE  ExactUnlessStale'
  <2>1. CASE handle_action(c)
    BY <2>1 DEF handle_action, TypeOK
  <2>2. CASE find_seedbank(c)
    BY <2>2 DEF find_seedbank, TypeOK
  <2>3. CASE get_next_seedbank_id(c)
    BY <2>3 DEF get_next_seedbank_id, TypeOK
  <2>4. CASE save_seedbank(c)
    BY <2>4 DEF save_seedbank, TypeOK
  <2>5. CASE find(c)
    BY <2>5 DEF find, TypeOK
  <2>6. CASE add_torrent(c)
    <3>1. stale' = stale
      BY <2>6 DEF add_torrent
    <3>2. CASE torrent = NoTorrent /\ torrent' = [NoTorrent EXCEPT !.oid = ops]
               /\ expected' = [known |-> TRUE, seedbanks |-> {}, completed |-> 0]
      <4>1. client[c].pc # "idle"
        BY <2>6 DEF add_torrent, Ends
      <4>2. ops > 0 /\ ops \in Nat
        BY <4>1, OpsNat DEF ClientsProper, ClientProper
      <4>3. torrent'.oid = ops /\ torrent'.seedbanks = Null /\ torrent'.completed = 0
        BY <3>2, NothingType DEF Torrent
      <4>4. torrent' # NoTorrent
        BY <4>2, <4>3, NothingType
      <4>5. Ids(torrent.seedbanks)' = {}
        BY <4>3, NoIds DEF Ids
      <4>. QED
        BY <3>2, <4>3, <4>4, <4>5
    <3>3. CASE torrent # NoTorrent /\ UNCHANGED <<torrent, expected>>
      BY <3>1, <3>3 DEF Ids
    <3>. QED
      BY <2>6, <3>2, <3>3 DEF add_torrent
  <2>7. CASE remove_torrent(c)
    <3>1. /\ torrent' = NoTorrent /\ expected' = [known |-> FALSE, seedbanks |-> {}, completed |-> 0]
      BY <2>7 DEF remove_torrent
    <3>2. Ids(torrent.seedbanks)' = {}
      BY <3>1, NothingType, NoIds DEF Ids
    <3>. QED
      BY <3>1, <3>2, NothingType
  <2>8. ASSUME NEW op \in SeedbankOps, save_seedbanks(c, op)
        PROVE  ExactUnlessStale'
    <3>. SUFFICES ASSUME ~stale, torrent.oid = client[c].torrent.oid,
                         torrent.seedbanks = client[c].torrent.seedbanks
                  PROVE  /\ expected'.known <=> torrent' # NoTorrent
                         /\ torrent'.completed = expected'.completed
                         /\ Ids(torrent.seedbanks)' = expected'.seedbanks
      BY <2>8 DEF save_seedbanks, TypeOK
    <3>1. client[c].pc = op /\ ClientProper(c)
      BY <2>8 DEF save_seedbanks, Ends, ClientsProper
    <3>2. /\ torrent' = [torrent EXCEPT !.seedbanks = client[c].list]
          /\ expected' = [expected EXCEPT !.seedbanks = IF op = "add_seedbank" THEN @ \cup {client[c].sb.id}
                                                        ELSE @ \ {client[c].sb.id}]
      BY <2>8 DEF save_seedbanks
    <3>3. /\ torrent'.oid = torrent.oid /\ torrent'.completed = torrent.completed
          /\ torrent'.seedbanks = client[c].list
          /\ expected'.known = expected.known /\ expected'.completed = expected.completed
          /\ expected'.seedbanks = IF op = "add_seedbank" THEN expected.seedbanks \cup {client[c].sb.id}
                                   ELSE expected.seedbanks \ {client[c].sb.id}
      BY <3>2 DEF TypeOK, Torrent
    <3>4. torrent.oid # 0 /\ torrent.seedbanks # Missing
      BY <3>1 DEF ClientProper
    <3>5. torrent # NoTorrent /\ torrent' # NoTorrent
      BY <3>3, <3>4, NothingType
    <3>6. Ids(torrent.seedbanks)' = Ids(client[c].list)
      BY <3>3 DEF Ids
    <3>7. Ids(client[c].list) = IF op = "add_seedbank" THEN Ids(torrent.seedbanks) \cup {client[c].sb.id}
                                ELSE Ids(torrent.seedbanks) \ {client[c].sb.id}
      BY <3>1 DEF ClientProper
    <3>. QED
      BY <3>3, <3>4, <3>5, <3>6, <3>7
  <2>9. CASE update_torrent(c)
    <3>. SUFFICES ASSUME ~stale, torrent.oid = client[c].torrent.oid,
                         torrent.completed = client[c].torrent.completed
                  PROVE  /\ expected'.known <=> torrent' # NoTorrent
                         /\ torrent'.completed = expected'.completed
                         /\ torrent'.seedbanks # Missing => Ids(torrent.seedbanks)' = expected'.seedbanks
      BY <2>9 DEF update_torrent, TypeOK
    <3>1. client[c].pc = "update_torrent" /\ ClientProper(c) /\ client[c].torrent \in Torrent
      BY <2>9 DEF update_torrent, Ends, ClientsProper, TypeOK, ClientRecord
    <3>2. torrent.oid # 0
      BY <3>1 DEF ClientProper
    <3>3. torrent'.oid = torrent.oid /\ torrent'.completed = torrent.completed
          /\ torrent'.seedbanks \in {torrent.seedbanks, Missing}
      <4>1. torrent' = SavedRecord(client[c].torrent)
        BY <2>9 DEF update_torrent
      <4>. QED
        BY <3>1, <3>2, <4>1 DEF SavedRecord, TypeOK, Torrent
    <3>4. expected' = expected
      BY <2>9 DEF update_torrent
    <3>5. torrent # NoTorrent /\ torrent' # NoTorrent
      BY <3>2, <3>3, NothingType
    <3>6. torrent'.seedbanks = torrent.seedbanks => Ids(torrent.seedbanks)' = Ids(torrent.seedbanks)
      BY DEF Ids
    <3>. QED
      BY <3>3, <3>4, <3>5, <3>6
  <2>. QED
    BY <1>2, <2>1, <2>2, <2>3, <2>4, <2>5, <2>6, <2>7, <2>8, <2>9 DEF Client, SeedbankOps
<1>3. CASE Tracker
  <2>1. CASE hashisvalid
    BY <2>1 DEF hashisvalid, TypeOK
  <2>2. CASE hashisvalid_null
    BY <2>2 DEF hashisvalid_null, TypeOK
  <2>3. CASE get_seedbanks
    BY <2>3 DEF get_seedbanks, TypeOK
  <2>4. CASE get_seedbanks_next
    BY <2>4 DEF get_seedbanks_next, TypeOK
  <2>5. CASE add_seedbanks
    BY <2>5 DEF add_seedbanks, TypeOK
  <2>6. CASE update_stats
    <3>1. PICK n \in {0, 1} : /\ torrent' = [torrent EXCEPT !.completed = @ + n]
                              /\ expected' = [expected EXCEPT !.completed = @ + n]
                              /\ torrent = NoTorrent => n = 0
      BY <2>6 DEF update_stats
    <3>2. /\ torrent'.oid = torrent.oid /\ torrent'.completed = torrent.completed + n
          /\ torrent'.seedbanks = torrent.seedbanks /\ expected'.known = expected.known
          /\ expected'.seedbanks = expected.seedbanks /\ expected'.completed = expected.completed + n
      BY <3>1 DEF TypeOK, Torrent
    <3>3. torrent' = NoTorrent <=> torrent = NoTorrent
      <4>1. torrent = NoTorrent => torrent' = torrent
        BY <3>1 DEF TypeOK, Torrent
      <4>2. torrent' = NoTorrent => torrent.oid = 0
        BY <3>2, NothingType
      <4>. QED
        BY <4>1, <4>2 DEF RecordProper
    <3>4. Ids(torrent.seedbanks)' = Ids(torrent.seedbanks)
      BY <3>2 DEF Ids
    <3>5. stale' = stale
      BY <2>6 DEF update_stats
    <3>. QED
      BY <3>2, <3>3, <3>4, <3>5
  <2>. QED
    BY <1>3, <2>1, <2>2, <2>3, <2>4, <2>5, <2>6 DEF Tracker
<1>. QED
  BY <1>1, <1>2, <1>3 DEF Next, Finished

-----------------------------------------------------------------------------
(* The invariant and the theorems *)

LEMMA InvInit == Init => IInv
<1>. SUFFICES ASSUME Init
              PROVE  IInv
  OBVIOUS
<1>1. TypeOK
  BY TypeInit
<1>2. torrent = NoTorrent /\ torrent.oid = 0 /\ torrent.seedbanks = Null /\ torrent.completed = 0
  BY NothingType DEF Init
<1>3. RecordProper
  BY <1>2, NoIds DEF RecordProper
<1>4. ClientsProper
  BY IdleType DEF Init, ClientsProper, ClientProper, SeedbankOps, Operations
<1>5. IdsCounted /\ IdsMeanOneAddress /\ CacheNeverStale
  BY <1>2, NoIds DEF Init, IdsCounted, IdsMeanOneAddress, CacheNeverStale
<1>6. Resolving
  <2>1. tracker = [Resting EXCEPT !.pc = "rest"] /\ tracker.pc = "rest" /\ tracker.ip_port = {}
    BY RestingType DEF Init, Resting
  <2>. QED
    BY <2>1 DEF Resolving
<1>7. ExactUnlessStale
  BY <1>2, NoIds DEF Init, ExactUnlessStale
<1>. QED
  BY <1>1, <1>3, <1>4, <1>5, <1>6, <1>7 DEF IInv

\* The inductive invariant holds, for any clients and addresses and either driver.
THEOREM Invariance == Spec => []IInv
<1>1. Init => IInv
  BY InvInit
<1>2. IInv /\ [Next]_vars => IInv'
  BY TypeStep, RecordProperStep, ClientsProperStep, IdsCountedStep, IdsMeanOneAddressStep, CacheNeverStaleStep,
     ResolvingStep, ExactUnlessStaleStep DEF IInv
<1>. QED
  BY <1>1, <1>2, PTL DEF Spec

\* What the tracker has resolved when it goes on to update the counters.
LEMMA LastResolved == TypeOK /\ Resolving => LastSeedbankAdded
<1>. SUFFICES ASSUME TypeOK, Resolving, tracker.pc = "update_stats", tracker.ip_port # {}
              PROVE  /\ tracker.list # <<>>
                     /\ \E a \in Addresses : tracker.ip_port = {a} /\ <<Last(tracker.list), a>> \in asked
  BY DEF LastSeedbankAdded
<1>1. tracker.next > 1 /\ tracker.next = Len(tracker.list) + 1 /\ Len(tracker.list) \in Nat
  BY DEF Resolving, TypeOK, TrackerRecord
<1>2. tracker.next - 1 = Len(tracker.list) /\ Len(tracker.list) # 0
  BY <1>1
<1>3. tracker.list # <<>>
  BY <1>2
<1>4. Last(tracker.list) = tracker.list[tracker.next - 1]
  BY <1>2 DEF Last
<1>. QED
  BY <1>3, <1>4 DEF Resolving

\* A seed bank's id means one address to everybody, however statements interleave: no two
\* addresses share an id, the cache is never out of date, and the peer that the tracker adds is
\* the last seed bank of the list it read.
THEOREM SeedbanksCorrect == Spec => []SeedbanksAgree
<1>1. IInv => SeedbanksAgree
  BY LastResolved DEF IInv, SeedbanksAgree
<1>. QED
  BY <1>1, Invariance, PTL

\* The record is what the operations give one by one, unless a copy was saved that was out of date.
THEOREM RecordExact == Spec => []ExactUnlessStale
<1>1. IInv => ExactUnlessStale
  BY DEF IInv
<1>. QED
  BY <1>1, Invariance, PTL
=============================================================================
