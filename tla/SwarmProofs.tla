---------------------------- MODULE SwarmProofs -----------------------------
(***************************************************************************)
(* What holds of Swarm for any peers, seed banks, timeouts and bounds.     *)
(* The inductive invariant IInv relates three accounts of a peer: that it  *)
(* is in the list (and counted), the time the list keeps for it, and when  *)
(* it was heard of.  The time a peer has is never more than the minutes    *)
(* from when it was heard of to the base of the list, so what cleaning     *)
(* drops was silent for OT_PEER_TIMEOUT minutes.                           *)
(***************************************************************************)
EXTENDS Swarm, FiniteSetTheorems, TLAPS

\* The announces and the cleanings that may hold the bucket.
Announces == [kind : {"announce"},
              pc : {"validate", "clean", "rebase", "rebase_update", "touch", "seedbanks",
                    "insert"},
              peer : Peers, seeding : BOOLEAN, completed : BOOLEAN]
Cleanings == [kind : {"scrape"}, pc : {"clean", "rebase", "rebase_update"}]

\* What an operation has reached says what it has done and checked before.
OpOK ==
    /\ op \in {Idle} \cup Announces \cup Cleanings
    /\ op.pc \notin {"idle", "validate"} => known
    /\ op.pc \in {"seedbanks", "insert"} => list.base >= 0
    /\ op.kind = "announce" /\ op.completed => list.down_count < MaxCompleted

\* No peer is older, by the time the list keeps for it, than the minutes since it was heard of.
\* While a cleaning has aged the peers but not yet set the base the clock takes its place.
AgesBounded ==
    /\ list.base <= now
    /\ \A p \in Here :
           seen[p].heard + peers[p].time
             <= (IF op.pc \in {"rebase", "rebase_update"} THEN now ELSE list.base)

\* A peer has counted as a download only if its flag says so.
CountedHasFlag == \A p \in Here : seen[p].counted <= (IF peers[p].completed THEN 1 ELSE 0)

IInv ==
    /\ TypeOK
    /\ OpOK
    /\ CountsAgree
    /\ AgesBounded
    /\ CountedHasFlag

\* Any peers can be counted, and are at most all of them.
LEMMA Countable ==
    ASSUME NEW S \in SUBSET Peers
    PROVE  /\ IsFiniteSet(S)
           /\ Cardinality(S) \in 0..Cardinality(Peers)
<1>1. IsFiniteSet(S) /\ Cardinality(S) <= Cardinality(Peers)
  BY PeersAssumption, FS_Subset
<1>2. Cardinality(S) \in Nat /\ Cardinality(Peers) \in Nat
  BY <1>1, PeersAssumption, FS_CardinalityType
<1>. QED
  BY <1>1, <1>2

\* The number of peers when peers are dropped, and when peers that are not there are added.
LEMMA CountWithout ==
    ASSUME NEW S \in SUBSET Peers, NEW T \in SUBSET Peers
    PROVE  Cardinality(S \ T) = Cardinality(S) - Cardinality(S \cap T)
BY Countable, FS_Difference

LEMMA CountWith ==
    ASSUME NEW S \in SUBSET Peers, NEW T \in SUBSET Peers, S \cap T = {}
    PROVE  Cardinality(S \cup T) = Cardinality(S) + Cardinality(T)
<1>1. /\ IsFiniteSet(S) /\ IsFiniteSet(T)
      /\ Cardinality(S) \in Nat /\ Cardinality(T) \in Nat
  BY Countable
<1>2. Cardinality(S \cup T) = Cardinality(S) + Cardinality(T) - Cardinality(S \cap T)
  BY <1>1, FS_Union
<1>3. Cardinality(S \cap T) = 0
  BY FS_EmptySet
<1>. QED
  BY <1>1, <1>2, <1>3

\* The seeders are some of the peers: counters that are exact have their types.
LEMMA CountersTyped ==
    ASSUME NEW S \in SUBSET Peers, NEW T \in SUBSET S
    PROVE  /\ Cardinality(S) \in 0..Cardinality(Peers)
           /\ Cardinality(T) \in 0..Cardinality(Peers)
           /\ Cardinality(T) <= Cardinality(S)
           /\ Cardinality(Peers) \in Nat
<1>1. /\ Cardinality(S) \in 0..Cardinality(Peers)
      /\ Cardinality(T) \in 0..Cardinality(Peers)
      /\ IsFiniteSet(S)
  BY Countable
<1>2. Cardinality(T) <= Cardinality(S)
  BY <1>1, FS_Subset
<1>3. Cardinality(Peers) \in Nat
  BY PeersAssumption, FS_CardinalityType
<1>. QED
  BY <1>1, <1>2, <1>3

-----------------------------------------------------------------------------

\* What clients write when they remove a torrent and when they add it has the types of a record.
LEMMA FixedRecords == NoRecord \in Records /\ NewRecord \in Records /\ NoCopy \in Copies
<1>1. 0 \in 0..Cardinality(Peers)
  BY PeersAssumption, FS_CardinalityType
<1>. QED
  BY <1>1 DEF NoRecord, NewRecord, NoCopy, Records, Copies

\* At the start the torrent has no record or one whose counters are zero.
LEMMA InitRecord ==
    ASSUME Init
    PROVE  record \in Records /\ record.seeds = 0 /\ record.peers = 0 /\ record.completed = 0
<1>1. CASE record = NoRecord
  BY <1>1, FixedRecords DEF NoRecord
<1>2. CASE record # NoRecord
  <2>1. PICK banks \in SUBSET Banks : record = [NewRecord EXCEPT !.seedbanks = banks]
    BY <1>2 DEF Init
  <2>2. record = [published |-> TRUE, seedbanks |-> banks, seeds |-> 0, peers |-> 0, completed |-> 0]
    BY <2>1 DEF NewRecord
  <2>3. 0 \in 0..Cardinality(Peers)
    BY PeersAssumption, FS_CardinalityType
  <2>. QED
    BY <2>2, <2>3 DEF Records
<1>. QED
  BY <1>1, <1>2

LEMMA InitIInv == Init => IInv
<1>. SUFFICES ASSUME Init PROVE IInv
  OBVIOUS
<1>. USE DEF Init, Here, Seeders, Nobody, NoList, Idle
<1>1. Here = {} /\ Seeders = {} /\ Cardinality({}) = 0 /\ Cardinality(Peers) \in Nat
  BY FS_EmptySet, PeersAssumption, FS_CardinalityType
<1>2. TypeOK
  <2>1. /\ list \in [base : Times, seed_count : 0..Cardinality(Peers),
                      peer_count : 0..Cardinality(Peers), down_count : 0..MaxCompleted]
        /\ lost \in 0..list.down_count
    BY <1>1, TimeoutsAssumption, BoundsAssumption DEF Times
  <2>6. record \in Records /\ copy \in Copies
    BY InitRecord, FixedRecords
  <2>2. peers \in [Here -> [seeding : BOOLEAN, completed : BOOLEAN,
                           time : 0..(OT_PEER_TIMEOUT - 1)]]
    BY <1>1
  <2>3. seen \in [Here -> [heard : 0..now, counted : Nat]]
    BY <1>1
  <2>4. now \in 0..MaxTime /\ touched \in 0..now /\ Here \subseteq Peers
    BY <1>1, BoundsAssumption
  <2>5. known \in BOOLEAN /\ dirty \in BOOLEAN /\ op = Idle
    OBVIOUS
  <2>. HIDE DEF Init, Here, Seeders, Nobody, NoList, Idle
  <2>. QED
    BY <2>1, <2>2, <2>3, <2>4, <2>5, <2>6 DEF TypeOK
<1>3. OpOK
  BY DEF OpOK
<1>4. CountsAgree
  BY <1>1 DEF CountsAgree
<1>5. AgesBounded /\ CountedHasFlag
  BY <1>1 DEF AgesBounded, CountedHasFlag
<1>. QED
  BY <1>2, <1>3, <1>4, <1>5 DEF IInv

\* Whatever a client does, it does to the record and to its copy.
LEMMA EditKeeps == ASSUME Edit PROVE UNCHANGED <<now, memory, op, seen, touched>>
<1>1. CASE Withdraw
  BY <1>1 DEF Withdraw, Rewrite
<1>2. CASE Publish
  BY <1>2 DEF Publish, Rewrite
<1>3. CASE EditSeedbanks
  BY <1>3 DEF EditSeedbanks, Rewrite
<1>4. CASE ReadRecord
  BY <1>4 DEF ReadRecord, history
<1>5. CASE SaveRecord
  BY <1>5 DEF SaveRecord, Rewrite
<1>. QED
  BY <1>1, <1>2, <1>3, <1>4, <1>5 DEF Edit

\* A record that is written by a client: what is taken from it is at most what the list counts.
LEMMA RewriteTyped ==
    ASSUME TypeOK, NEW r \in Records, Rewrite(r)
    PROVE  record' \in Records /\ dirty' \in BOOLEAN /\ lost' \in 0..list.down_count
<1>1. /\ lost \in Nat /\ list.down_count \in Nat /\ lost <= list.down_count
      /\ record.completed \in Nat /\ r.completed \in Nat
  BY BoundsAssumption DEF TypeOK, Records
<1>2. lost' \in 0..list.down_count
  BY <1>1 DEF Rewrite, LostWith
<1>. QED
  BY <1>2 DEF Rewrite, TypeOK

\* All a client does but read is to write a record.
LEMMA EditWrites ==
    ASSUME TypeOK, Edit, ~ReadRecord
    PROVE  \E r \in Records : Rewrite(r)
<1>1. record \in Records /\ copy \in Copies /\ NoRecord \in Records /\ NewRecord \in Records
  BY FixedRecords DEF TypeOK
<1>2. CASE Withdraw \/ Publish
  BY <1>1, <1>2 DEF Withdraw, Publish
<1>3. CASE EditSeedbanks
  <2>1. PICK banks \in SUBSET Banks : Rewrite([record EXCEPT !.seedbanks = banks])
    BY <1>3 DEF EditSeedbanks
  <2>2. [record EXCEPT !.seedbanks = banks] \in Records
    BY <1>1 DEF Records
  <2>. QED
    BY <2>1, <2>2
<1>4. CASE SaveRecord
  <2>1. PICK banks \in {{}, record.seedbanks} :
          \/ Rewrite([published |-> TRUE, seedbanks |-> banks, seeds |-> copy.seeds,
                      peers |-> copy.peers, completed |-> copy.completed])
          \/ Rewrite(record)
    BY <1>4 DEF SaveRecord
  <2>2. [published |-> TRUE, seedbanks |-> banks, seeds |-> copy.seeds,
         peers |-> copy.peers, completed |-> copy.completed] \in Records
    BY <1>1 DEF Records, Copies
  <2>. QED
    BY <1>1, <2>1, <2>2
<1>. QED
  BY <1>2, <1>3, <1>4 DEF Edit

LEMMA EditTyped ==
    ASSUME TypeOK, Edit
    PROVE  /\ record' \in Records /\ copy' \in Copies
           /\ dirty' \in BOOLEAN /\ lost' \in 0..list.down_count
<1>1. /\ record \in Records /\ copy \in Copies /\ dirty \in BOOLEAN
      /\ lost \in 0..list.down_count /\ NoCopy \in Copies
  BY FixedRecords DEF TypeOK
<1>2. CASE ReadRecord
  BY <1>1, <1>2 DEF ReadRecord, history, Records, Copies
<1>3. CASE ~ReadRecord
  <2>1. copy' \in Copies
    BY <1>1, <1>3 DEF Edit, Withdraw, Publish, EditSeedbanks, SaveRecord, Copies
  <2>2. record' \in Records /\ dirty' \in BOOLEAN /\ lost' \in 0..list.down_count
    BY <1>3, EditWrites, RewriteTyped
  <2>. QED
    BY <2>1, <2>2
<1>. QED
  BY <1>2, <1>3

\* The steps that leave the swarm alone: an announce begins, is refused or finds the torrent, a
\* cleaning begins or finds nothing to do, a minute ends, the record is edited.
LEMMA QuietSteps ==
    ASSUME IInv,
           \/ \E p \in Peers, seeding, completed \in BOOLEAN : Announce(p, seeding, completed)
           \/ Reject \/ Find \/ Scrape \/ CleanNothing \/ Tick \/ Edit
           \/ UNCHANGED vars
    PROVE  IInv'
<1>. USE DEF IInv, memory, database, history, vars, Here, Seeders
<1>1. CASE \E p \in Peers, seeding, completed \in BOOLEAN : Announce(p, seeding, completed)
  <2>. PICK p \in Peers, seeding \in BOOLEAN, completed \in BOOLEAN :
           Announce(p, seeding, completed)
    BY <1>1
  <2>1. op = Idle /\ op.pc = "idle" /\ op' \in Announces /\ op'.pc = "validate"
    BY DEF Announce, OpOK, Announces, Cleanings, Idle
  <2>2. TypeOK'
    BY <2>1 DEF Announce, TypeOK
  <2>3. OpOK'
    BY <2>1 DEF Announce, OpOK
  <2>4. (CountsAgree /\ AgesBounded /\ CountedHasFlag)'
    BY <2>1 DEF Announce, CountsAgree, AgesBounded, CountedHasFlag
  <2>. QED
    BY <2>2, <2>3, <2>4
<1>2. CASE Reject
  <2>1. op \in Announces /\ op' = Idle
    BY <1>2 DEF Reject, OpOK, Announces, Cleanings, Idle
  <2>2. (TypeOK /\ OpOK)'
    BY <1>2, <2>1 DEF Reject, TypeOK, OpOK, Idle
  <2>3. (CountsAgree /\ AgesBounded /\ CountedHasFlag)'
    BY <1>2, <2>1 DEF Reject, CountsAgree, AgesBounded, CountedHasFlag, Idle
  <2>. QED
    BY <2>2, <2>3
<1>3. CASE Find
  <2>1. /\ op \in Announces /\ op' \in Announces /\ op'.completed = op.completed
        /\ op'.pc \in {"clean", "touch"}
    BY <1>3 DEF Find, OpOK, Announces, Cleanings, Idle
  <2>2. TypeOK'
    BY <1>3, <2>1 DEF Find, TypeOK
  <2>3. OpOK'
    BY <1>3, <2>1 DEF Find, OpOK, Announces
  <2>4. (CountsAgree /\ AgesBounded /\ CountedHasFlag)'
    BY <1>3, <2>1 DEF Find, CountsAgree, AgesBounded, CountedHasFlag
  <2>. QED
    BY <2>2, <2>3, <2>4
<1>4. CASE Scrape
  <2>1. op = Idle /\ op' \in Cleanings /\ op'.pc = "clean" /\ op'.kind = "scrape"
    BY <1>4 DEF Scrape, OpOK, Announces, Cleanings, Idle
  <2>2. (TypeOK /\ OpOK)'
    BY <1>4, <2>1 DEF Scrape, TypeOK, OpOK
  <2>3. (CountsAgree /\ AgesBounded /\ CountedHasFlag)'
    BY <1>4, <2>1 DEF Scrape, CountsAgree, AgesBounded, CountedHasFlag, Idle
  <2>. QED
    BY <2>2, <2>3
<1>5. CASE CleanNothing
  <2>1. \/ /\ op \in Announces /\ op' \in Announces /\ op'.completed = op.completed
           /\ op'.pc = "touch" /\ op'.kind = "announce"
        \/ op' = Idle
    BY <1>5 DEF CleanNothing, AfterClean, OpOK, Announces, Cleanings, Idle
  <2>2. (TypeOK /\ OpOK)'
    BY <1>5, <2>1 DEF CleanNothing, TypeOK, OpOK, Idle, Announces
  <2>3. (CountsAgree /\ AgesBounded /\ CountedHasFlag)'
    BY <1>5, <2>1 DEF CleanNothing, CountsAgree, AgesBounded, CountedHasFlag, Idle
  <2>. QED
    BY <2>2, <2>3
<1>6. CASE Tick
  <2>1. TypeOK'
    BY <1>6, BoundsAssumption DEF Tick, TypeOK
  <2>2. (OpOK /\ CountsAgree /\ CountedHasFlag)'
    BY <1>6 DEF Tick, OpOK, CountsAgree, CountedHasFlag
  <2>3. AgesBounded'
    BY <1>6, BoundsAssumption, TimeoutsAssumption DEF Tick, AgesBounded, TypeOK, Times
  <2>. QED
    BY <2>1, <2>2, <2>3
<1>7. CASE Edit
  <2>1. UNCHANGED <<now, memory, op, seen, touched>>
    BY <1>7, EditKeeps
  <2>2. TypeOK'
    BY <1>7, <2>1, EditTyped DEF TypeOK
  <2>3. (OpOK /\ CountsAgree /\ AgesBounded /\ CountedHasFlag)'
    BY <2>1 DEF OpOK, CountsAgree, AgesBounded, CountedHasFlag
  <2>. QED
    BY <2>2, <2>3
<1>8. CASE UNCHANGED vars
  BY <1>8 DEF TypeOK, OpOK, CountsAgree, AgesBounded, CountedHasFlag
<1>. QED
  BY <1>1, <1>2, <1>3, <1>4, <1>5, <1>6, <1>7, <1>8

LEMMA TouchStep == IInv /\ Touch => IInv'
<1>. SUFFICES ASSUME IInv, Touch PROVE IInv'
  OBVIOUS
<1>. USE DEF IInv, Here, Seeders
<1>1. /\ op \in Announces /\ op' \in Announces /\ op'.completed = op.completed
      /\ op.pc = "touch" /\ op'.pc = "seedbanks" /\ op.kind = "announce"
  BY DEF Touch, OpOK, Announces, Cleanings, Idle
<1>2. now \in Nat /\ now <= MaxTime /\ list.base \in Int /\ list.base <= now
  BY BoundsAssumption, TimeoutsAssumption DEF TypeOK, Times, AgesBounded
<1>3. list' = [base |-> now, seed_count |-> list.seed_count,
               peer_count |-> list.peer_count, down_count |-> list.down_count]
  BY DEF Touch, TypeOK
<1>4. TypeOK'
  BY <1>1, <1>2, <1>3, BoundsAssumption, TimeoutsAssumption DEF Touch, TypeOK, Times, database
<1>5. OpOK'
  BY <1>1, <1>2, <1>3 DEF Touch, OpOK
<1>6. CountsAgree'
  BY <1>3 DEF Touch, CountsAgree
<1>7. AgesBounded'
  BY <1>1, <1>2, <1>3, BoundsAssumption, TimeoutsAssumption DEF Touch, AgesBounded, TypeOK
<1>8. CountedHasFlag'
  BY DEF Touch, CountedHasFlag
<1>. QED
  BY <1>4, <1>5, <1>6, <1>7, <1>8

\* Seed banks that are not in the list become seeders in it.
LEMMA AddSeedbanksStep == IInv /\ AddSeedbanks => IInv'
<1>. SUFFICES ASSUME IInv, AddSeedbanks PROVE IInv'
  OBVIOUS
<1>. USE DEF IInv
<1>1. PICK banks \in SUBSET Peers :
        LET new == banks \ Here IN
        /\ peers' = [p \in Here \cup new |-> IF p \in Here THEN peers[p] ELSE
                                             [seeding |-> TRUE, completed |-> FALSE, time |-> 0]]
        /\ seen' = [p \in Here \cup new |-> IF p \in Here THEN seen[p] ELSE
                                            [heard |-> list.base, counted |-> 0]]
        /\ list' = [list EXCEPT !.seed_count = @ + Cardinality(new),
                                !.peer_count = @ + Cardinality(new)]
  BY BanksAssumption DEF AddSeedbanks, TypeOK, Records
<1> DEFINE new == banks \ Here
<1>2. /\ op \in Announces /\ op' \in Announces /\ op'.completed = op.completed
      /\ op.pc = "seedbanks" /\ op'.pc = "insert" /\ op.kind = "announce" /\ known
      /\ list.base >= 0
  BY DEF AddSeedbanks, OpOK, Announces, Cleanings, Idle
<1>3. /\ Here \subseteq Peers /\ Here' = Here \cup new /\ Here' \subseteq Peers
      /\ new \subseteq Peers /\ Here \cap new = {}
  BY <1>1 DEF TypeOK, Here
<1>4. Seeders' = Seeders \cup new /\ Seeders \subseteq Here
  BY <1>1, <1>3 DEF Seeders, Here
<1>5. /\ Cardinality(Here') = Cardinality(Here) + Cardinality(new)
      /\ Cardinality(Seeders') = Cardinality(Seeders) + Cardinality(new)
  <2>. Seeders \cap new = {} /\ Seeders \subseteq Peers
    BY <1>3, <1>4
  <2>. QED
    BY <1>3, <1>4, CountWith
<1>6. Cardinality(new) \in Nat
  BY <1>3, Countable
<1>7. list' = [base |-> list.base, seed_count |-> list.seed_count + Cardinality(new),
               peer_count |-> list.peer_count + Cardinality(new),
               down_count |-> list.down_count]
  BY <1>1 DEF TypeOK
<1>8. CountsAgree'
  BY <1>2, <1>5, <1>7 DEF AddSeedbanks, CountsAgree
<1>9. TypeOK'
  <2>1. /\ list'.peer_count \in 0..Cardinality(Peers)
        /\ list'.seed_count \in 0..Cardinality(Peers)
    <3>1. Seeders' \in SUBSET Here'
      BY <1>3, <1>4
    <3>. QED
      BY <1>3, <1>8, <3>1, CountersTyped DEF CountsAgree
  <2>2. list' \in [base : Times, seed_count : 0..Cardinality(Peers),
                   peer_count : 0..Cardinality(Peers), down_count : 0..MaxCompleted]
    BY <1>7, <2>1 DEF TypeOK
  <2>3. peers' \in [Here' -> [seeding : BOOLEAN, completed : BOOLEAN,
                              time : 0..(OT_PEER_TIMEOUT - 1)]]
    BY <1>1, <1>3, TimeoutsAssumption DEF TypeOK
  <2>4. list.base \in 0..now
    BY <1>2, BoundsAssumption, TimeoutsAssumption DEF TypeOK, Times, AgesBounded
  <2>5. seen' \in [Here' -> [heard : 0..now, counted : Nat]]
    BY <1>1, <1>3, <2>4 DEF TypeOK
  <2>. QED
    BY <1>2, <1>3, <1>7, <2>2, <2>3, <2>5 DEF AddSeedbanks, TypeOK, Here, database
<1>10. OpOK'
  BY <1>2, <1>7 DEF AddSeedbanks, OpOK
<1>11. AgesBounded'
  <2>1. list.base \in Int /\ list'.base = list.base /\ now' = now /\ list.base <= now
    BY <1>7, TimeoutsAssumption, BoundsAssumption DEF AddSeedbanks, AgesBounded, TypeOK, Times
  <2>2. \A p \in Here' : seen'[p].heard + peers'[p].time <= list.base
    BY <1>1, <1>2, <1>3, <2>1 DEF AgesBounded
  <2>. QED
    BY <1>2, <2>1, <2>2 DEF AgesBounded
<1>12. CountedHasFlag'
  BY <1>1, <1>3 DEF CountedHasFlag
<1>. QED
  BY <1>8, <1>9, <1>10, <1>11, <1>12

\* Counters that have their types can be stored.
LEMMA UpdateTyped ==
    ASSUME TypeOK, NEW l, NEW increment \in {0, 1}, Update(l, increment),
           l.seed_count \in 0..Cardinality(Peers), l.peer_count \in 0..Cardinality(Peers)
    PROVE  /\ record' \in Records
           /\ dirty' \in BOOLEAN
           /\ lost' \in 0..(list.down_count + increment)
<1>1. Cardinality(Peers) \in Nat
  BY PeersAssumption, FS_CardinalityType
<1>2. (IF l.peer_count < l.seed_count THEN 0 ELSE l.peer_count - l.seed_count)
        \in 0..Cardinality(Peers)
  BY <1>1
<1>3. record \in Records /\ record.completed + increment \in Nat
  BY DEF TypeOK, Records
<1>4. list.down_count \in Nat /\ lost \in 0..list.down_count
  BY BoundsAssumption DEF TypeOK
<1>5. record' \in Records
  BY <1>2, <1>3 DEF Update, Records
<1>6. dirty' \in BOOLEAN /\ (lost' = lost \/ lost' = lost + increment)
  BY DEF Update
<1>. QED
  BY <1>4, <1>5, <1>6

\* The peer of an announce enters the list or is renewed; the cases of its earlier and later
\* seeding are those of the counter of seeds.
LEMMA InsertStep == IInv /\ Insert => IInv'
<1>. SUFFICES ASSUME IInv, Insert PROVE IInv'
  OBVIOUS
<1>. USE DEF IInv
<1> DEFINE p == op.peer
           was == p \in Here /\ peers[p].seeding
           done == op.completed /\ ~(p \in Here /\ peers[p].completed)
           finished == IF done THEN 1 ELSE 0
           entered == IF p \in Here THEN 0 ELSE 1
           more == CASE op.seeding /\ ~was -> 1 [] ~op.seeding /\ was -> -1 [] OTHER -> 0
           l == [list EXCEPT
                   !.peer_count = @ + entered,
                   !.seed_count = @ + more,
                   !.down_count = @ + finished]
<1>1. /\ op \in Announces /\ op' = Idle /\ op.pc = "insert" /\ op.kind = "announce" /\ known
      /\ list.base >= 0
  BY DEF Insert, OpOK, Announces, Cleanings, Idle
<1>2. p \in Peers /\ op.seeding \in BOOLEAN /\ op.completed \in BOOLEAN
  BY <1>1 DEF Announces
<1>3. /\ list' = l
      /\ Update(l, finished)
      /\ peers' = [q \in Here \cup {p} |->
                     IF q = p THEN [seeding |-> op.seeding, completed |-> Sticky(p), time |-> 0]
                              ELSE peers[q]]
      /\ seen' = [q \in Here \cup {p} |->
                    IF q # p THEN seen[q] ELSE
                    [heard |-> list.base,
                     counted |-> finished + (IF p \in Here THEN seen[p].counted ELSE 0)]]
      /\ UNCHANGED <<now, known, copy, touched>>
  BY DEF Insert
<1>4. finished \in {0, 1} /\ (finished = 1 => op.completed)
  OBVIOUS
<1>5. /\ Here \subseteq Peers /\ Here' = Here \cup {p} /\ Here' \subseteq Peers
  BY <1>2, <1>3 DEF TypeOK, Here
<1>6. Seeders \subseteq Here
  BY DEF Seeders
<1>7. Seeders' = IF op.seeding THEN Seeders \cup {p} ELSE Seeders \ {p}
  BY <1>2, <1>3, <1>5 DEF Seeders, Here
<1>8. was <=> p \in Seeders
  BY DEF Seeders
<1>9. /\ IsFiniteSet(Here) /\ IsFiniteSet(Seeders)
      /\ Cardinality(Here) \in Nat /\ Cardinality(Seeders) \in Nat
  BY <1>5, <1>6, Countable
<1>10. Cardinality(Here') = Cardinality(Here) + entered
  <2>. HIDE DEF p
  <2>1. Cardinality(Here \cup {p})
          = IF p \in Here THEN Cardinality(Here) ELSE Cardinality(Here) + 1
    BY <1>9, FS_AddElement
  <2>. QED
    BY <1>5, <1>9, <2>1
<1>11. Cardinality(Seeders') = Cardinality(Seeders) + more
  <2>1. Cardinality(Seeders \cup {p})
          = IF p \in Seeders THEN Cardinality(Seeders) ELSE Cardinality(Seeders) + 1
    BY <1>9, FS_AddElement
  <2>2. Cardinality(Seeders \ {p})
          = IF p \in Seeders THEN Cardinality(Seeders) - 1 ELSE Cardinality(Seeders)
    BY <1>9, FS_RemoveElement
  <2>3. more = IF op.seeding THEN (IF p \in Seeders THEN 0 ELSE 1)
                             ELSE (IF p \in Seeders THEN -1 ELSE 0)
    BY <1>2, <1>8
  <2>. HIDE DEF p, was, more
  <2>4. CASE op.seeding
    BY <1>7, <1>9, <2>1, <2>3, <2>4
  <2>5. CASE ~op.seeding
    BY <1>7, <1>9, <2>2, <2>3, <2>5
  <2>. QED
    BY <2>4, <2>5
<1>more. more \in {-1, 0, 1} /\ entered \in {0, 1}
  OBVIOUS
<1> HIDE DEF p, finished, entered, more, was, done
<1>12. /\ l.base = list.base /\ l.seed_count = list.seed_count + more
       /\ l.peer_count = list.peer_count + entered
       /\ l.down_count = list.down_count + finished
  BY DEF TypeOK
<1>13. CountsAgree'
  BY <1>1, <1>3, <1>10, <1>11, <1>12 DEF CountsAgree
<1>14. Seeders' \in SUBSET Here' /\ Here' \in SUBSET Peers
  BY <1>5, <1>6, <1>7
<1>15. l.peer_count \in 0..Cardinality(Peers) /\ l.seed_count \in 0..Cardinality(Peers)
  BY <1>3, <1>13, <1>14, CountersTyped DEF CountsAgree
<1>16. op.completed => list.down_count < MaxCompleted
  BY <1>1 DEF OpOK
<1>17. list.base \in Int /\ list.base \in 0..now
  BY <1>1, BoundsAssumption, TimeoutsAssumption DEF TypeOK, Times, AgesBounded
<1>18. CountedHasFlag'
  <2>1. seen'[p].counted <= (IF peers'[p].completed THEN 1 ELSE 0)
    <3>1. seen'[p].counted = finished + (IF p \in Here THEN seen[p].counted ELSE 0)
      BY <1>3
    <3>2. peers'[p].completed = Sticky(p)
      BY <1>3
    <3>3. p \in Here => seen[p].counted \in Nat /\ peers[p].completed \in BOOLEAN
                          /\ seen[p].counted <= (IF peers[p].completed THEN 1 ELSE 0)
      BY DEF TypeOK, CountedHasFlag
    <3>4. /\ finished = IF op.completed /\ ~(p \in Here /\ peers[p].completed) THEN 1 ELSE 0
          /\ Sticky(p) <=> op.completed \/ (p \in Here /\ peers[p].completed)
      BY DEF finished, done, Sticky
    <3>. QED
      BY <1>2, <3>1, <3>2, <3>3, <3>4
  <2>2. \A q \in Here' \ {p} : seen'[q] = seen[q] /\ peers'[q] = peers[q] /\ q \in Here
    BY <1>3, <1>5
  <2>. QED
    BY <2>1, <2>2 DEF CountedHasFlag
<1>19. AgesBounded'
  <2>1. \A q \in Here' : seen'[q].heard + peers'[q].time <= list.base
    BY <1>1, <1>3, <1>5, <1>17 DEF AgesBounded
  <2>. QED
    BY <1>1, <1>3, <1>12, <1>17, <2>1 DEF AgesBounded, Idle
<1>20. OpOK'
  BY <1>1 DEF OpOK, Idle
<1>21. TypeOK'
  <2>1. list' \in [base : Times, seed_count : 0..Cardinality(Peers),
                   peer_count : 0..Cardinality(Peers), down_count : 0..MaxCompleted]
    <3>1. list.down_count + finished \in 0..MaxCompleted
      BY <1>4, <1>16, BoundsAssumption DEF TypeOK
    <3>. QED
      BY <1>3, <1>12, <1>15, <3>1 DEF TypeOK, Times
  <2>2. peers' \in [Here' -> [seeding : BOOLEAN, completed : BOOLEAN,
                              time : 0..(OT_PEER_TIMEOUT - 1)]]
    <3>1. Sticky(p) \in BOOLEAN
      BY <1>2 DEF Sticky
    <3>. QED
      BY <1>2, <1>3, <1>5, <3>1, TimeoutsAssumption DEF TypeOK
  <2>3. seen' \in [Here' -> [heard : 0..now, counted : Nat]]
    BY <1>3, <1>4, <1>5, <1>17 DEF TypeOK
  <2>4. /\ record' \in Records
        /\ dirty' \in BOOLEAN
        /\ lost' \in 0..list'.down_count
    BY <1>3, <1>4, <1>12, <1>15, UpdateTyped
  <2>. QED
    BY <1>1, <1>3, <1>5, <2>1, <2>2, <2>3, <2>4 DEF TypeOK, Here
<1>. QED
  BY <1>13, <1>18, <1>19, <1>20, <1>21

LEMMA StopStep == ASSUME IInv, NEW p \in Peers, Stop(p) PROVE IInv'
<1>. USE DEF IInv
<1>1. /\ op = Idle /\ op' = op /\ p \in Here
      /\ peers' = [q \in Here \ {p} |-> peers[q]]
      /\ seen' = [q \in Here \ {p} |-> seen[q]]
      /\ list' = [list EXCEPT !.peer_count = @ - 1,
                              !.seed_count = IF peers[p].seeding THEN @ - 1 ELSE @]
      /\ UNCHANGED <<now, known, database, touched, lost>> /\ dirty' = TRUE
  BY DEF Stop, Restrict, OpOK, Announces, Cleanings, Idle
<1>2. Here' = Here \ {p} /\ Here' \subseteq Peers /\ Here \subseteq Peers
  BY <1>1 DEF TypeOK, Here
<1>3. Seeders' = Seeders \ {p} /\ Seeders \subseteq Here /\ (peers[p].seeding <=> p \in Seeders)
  BY <1>1, <1>2 DEF Seeders, Here
<1>4. /\ IsFiniteSet(Here) /\ IsFiniteSet(Seeders)
      /\ Cardinality(Here) \in Nat /\ Cardinality(Seeders) \in Nat
  BY <1>2, <1>3, Countable
<1>5. Cardinality(Here') = Cardinality(Here) - 1
  BY <1>1, <1>2, <1>4, FS_RemoveElement
<1>6. Cardinality(Seeders')
        = IF p \in Seeders THEN Cardinality(Seeders) - 1 ELSE Cardinality(Seeders)
  BY <1>3, <1>4, FS_RemoveElement
<1>7. list' = [base |-> list.base,
               seed_count |-> IF p \in Seeders THEN list.seed_count - 1 ELSE list.seed_count,
               peer_count |-> list.peer_count - 1, down_count |-> list.down_count]
  BY <1>1, <1>3 DEF TypeOK
<1>8. CountsAgree'
  <2>1. list'.peer_count = Cardinality(Here')
    BY <1>5, <1>7 DEF CountsAgree
  <2>2. list'.seed_count = Cardinality(Seeders')
    BY <1>6, <1>7 DEF CountsAgree
  <2>. QED
    BY <1>1, <1>2, <2>1, <2>2 DEF CountsAgree
<1>9. TypeOK'
  <2>1. Seeders' \in SUBSET Here' /\ Here' \in SUBSET Peers
    BY <1>2, <1>3
  <2>2. list'.peer_count \in 0..Cardinality(Peers) /\ list'.seed_count \in 0..Cardinality(Peers)
    BY <1>8, <2>1, CountersTyped DEF CountsAgree
  <2>3. list' \in [base : Times, seed_count : 0..Cardinality(Peers),
                   peer_count : 0..Cardinality(Peers), down_count : 0..MaxCompleted]
    BY <1>7, <2>2 DEF TypeOK
  <2>4. /\ peers' \in [Here' -> [seeding : BOOLEAN, completed : BOOLEAN,
                                 time : 0..(OT_PEER_TIMEOUT - 1)]]
        /\ seen' \in [Here' -> [heard : 0..now, counted : Nat]]
    BY <1>1, <1>2 DEF TypeOK
  <2>. QED
    BY <1>1, <1>2, <1>7, <2>3, <2>4 DEF TypeOK, Here, database
<1>10. OpOK'
  BY <1>1, <1>7 DEF OpOK, Idle
<1>11. (AgesBounded /\ CountedHasFlag)'
  BY <1>1, <1>2, <1>7 DEF AgesBounded, CountedHasFlag, Idle
<1>. QED
  BY <1>8, <1>9, <1>10, <1>11

LEMMA CleanDeadStep == IInv /\ CleanDead => IInv'
<1>. SUFFICES ASSUME IInv, CleanDead PROVE IInv'
  OBVIOUS
<1>. USE DEF IInv
<1>1. CASE op.kind = "announce"
  <2>1. /\ op \in Announces /\ op' \in Announces /\ op'.pc = "touch"
        /\ op'.completed = op.completed /\ op.pc = "clean" /\ op'.kind = "announce"
    BY <1>1 DEF CleanDead, AfterClean, OpOK, Announces, Cleanings, Idle
  <2>2. (TypeOK /\ OpOK)'
    BY <1>1, <2>1 DEF CleanDead, memory, database, TypeOK, OpOK, Here
  <2>3. (CountsAgree /\ AgesBounded /\ CountedHasFlag)'
    BY <1>1, <2>1
    DEF CleanDead, memory, CountsAgree, AgesBounded, CountedHasFlag, Here, Seeders
  <2>. QED
    BY <2>2, <2>3
<1>2. CASE op.kind # "announce"
  <2>1. op' = Idle /\ RemoveTorrent /\ UNCHANGED <<now, database, touched>>
    BY <1>2 DEF CleanDead, AfterClean
  <2>2. /\ Here' = {} /\ Seeders' = {} /\ Cardinality({}) = 0 /\ Cardinality(Peers) \in Nat
    BY <2>1, FS_EmptySet, PeersAssumption, FS_CardinalityType
    DEF RemoveTorrent, Here, Seeders, Nobody
  <2>3. TypeOK'
    <3>1. list' \in [base : Times, seed_count : 0..Cardinality(Peers),
                     peer_count : 0..Cardinality(Peers), down_count : 0..MaxCompleted]
      BY <2>1, <2>2, TimeoutsAssumption, BoundsAssumption DEF RemoveTorrent, NoList, Times
    <3>2. peers' \in [Here' -> [seeding : BOOLEAN, completed : BOOLEAN,
                                time : 0..(OT_PEER_TIMEOUT - 1)]]
      BY <2>1, <2>2 DEF RemoveTorrent, Nobody
    <3>3. seen' \in [Here' -> [heard : 0..now', counted : Nat]]
      BY <2>1, <2>2 DEF RemoveTorrent, Nobody
    <3>4. lost' \in 0..list'.down_count
      BY <2>1 DEF RemoveTorrent, NoList
    <3>5. dirty' \in BOOLEAN /\ known' \in BOOLEAN
      BY <2>1 DEF RemoveTorrent, TypeOK
    <3>. QED
      BY <2>1, <2>2, <3>1, <3>2, <3>3, <3>4, <3>5 DEF TypeOK, Here, database
  <2>4. OpOK'
    BY <2>1 DEF OpOK, Idle
  <2>5. CountsAgree'
    BY <2>1, <2>2 DEF RemoveTorrent, NoList, CountsAgree
  <2>6. (AgesBounded /\ CountedHasFlag)'
    BY <2>1, <2>2, BoundsAssumption DEF RemoveTorrent, NoList, AgesBounded, CountedHasFlag, TypeOK
  <2>. QED
    BY <2>3, <2>4, <2>5, <2>6
<1>. QED
  BY <1>1, <1>2

\* What cleaning leaves is less than OT_PEER_TIMEOUT old, and not older than the silence of the
\* peer up to now.
LEMMA EvictStep == IInv /\ Evict => IInv'
<1>. SUFFICES ASSUME IInv, Evict PROVE IInv'
  OBVIOUS
<1>. USE DEF IInv
<1> DEFINE timedout == IF Timedout > OT_PEER_TIMEOUT THEN OT_PEER_TIMEOUT ELSE Timedout
           overdue == Overdue(timedout)
           stay == Here \ overdue
<1>1. /\ peers' = [p \in stay |-> [peers[p] EXCEPT !.time = @ + timedout]]
      /\ seen' = [p \in stay |-> seen[p]]
      /\ list' = [list EXCEPT !.peer_count = @ - Cardinality(overdue),
                              !.seed_count = @ - Cardinality(overdue \cap Seeders)]
      /\ UNCHANGED <<now, known, database, touched, dirty, lost>>
      /\ Timedout # 0
  BY DEF Evict, Restrict
<1>2. /\ op.pc = "clean" /\ op'.pc \in {"rebase", "rebase_update"} /\ op'.kind = op.kind
      /\ known
      /\ \/ op \in Announces /\ op' \in Announces /\ op'.completed = op.completed
         \/ op \in Cleanings /\ op' \in Cleanings
  BY DEF Evict, OpOK, Announces, Cleanings, Idle
<1>3. /\ now \in Int /\ list.base \in Int /\ list.base <= now
      /\ timedout \in Nat /\ timedout <= now - list.base
  BY <1>1, BoundsAssumption, TimeoutsAssumption DEF TypeOK, Times, AgesBounded, Timedout
<1>4. /\ Here \subseteq Peers /\ overdue \subseteq Here /\ Seeders \subseteq Here
      /\ Here' = stay /\ stay \subseteq Peers
  BY <1>1 DEF TypeOK, Here, Seeders, Overdue
<1>5. \A p \in stay : /\ peers[p].time + timedout \in 0..(OT_PEER_TIMEOUT - 1)
                      /\ peers'[p].time = peers[p].time + timedout
                      /\ peers'[p].seeding = peers[p].seeding
                      /\ peers'[p].completed = peers[p].completed
                      /\ peers[p] \in [seeding : BOOLEAN, completed : BOOLEAN,
                                       time : 0..(OT_PEER_TIMEOUT - 1)]
  <2>1. \A p \in stay : p \in Here /\ ~(timedout + peers[p].time >= OT_PEER_TIMEOUT)
    BY DEF Overdue
  <2>. HIDE DEF timedout, overdue, stay
  <2>2. \A p \in Here : /\ peers[p] \in [seeding : BOOLEAN, completed : BOOLEAN,
                                         time : 0..(OT_PEER_TIMEOUT - 1)]
    BY DEF TypeOK
  <2>. QED
    BY <1>1, <1>3, <2>1, <2>2, TimeoutsAssumption
<1>6. Seeders' = Seeders \ overdue
  BY <1>4, <1>5 DEF Seeders, Here
<1>. HIDE DEF timedout, overdue
<1>7. /\ Cardinality(Here') = Cardinality(Here) - Cardinality(overdue)
      /\ Cardinality(Seeders') = Cardinality(Seeders) - Cardinality(overdue \cap Seeders)
  <2>1. Here \cap overdue = overdue /\ Seeders \cap overdue = overdue \cap Seeders
    BY <1>4
  <2>2. Here \in SUBSET Peers /\ overdue \in SUBSET Peers /\ Seeders \in SUBSET Peers
    BY <1>4
  <2>3. Cardinality(Here \ overdue) = Cardinality(Here) - Cardinality(Here \cap overdue)
    BY <2>2, CountWithout
  <2>4. Cardinality(Seeders \ overdue)
          = Cardinality(Seeders) - Cardinality(Seeders \cap overdue)
    BY <2>2, CountWithout
  <2>. QED
    BY <1>4, <1>6, <2>1, <2>3, <2>4
<1>8. list' = [base |-> list.base, seed_count |-> list.seed_count - Cardinality(overdue \cap Seeders),
               peer_count |-> list.peer_count - Cardinality(overdue),
               down_count |-> list.down_count]
  BY <1>1 DEF TypeOK
<1>9. CountsAgree'
  BY <1>1, <1>2, <1>7, <1>8 DEF CountsAgree
<1>10. TypeOK'
  <2>1. Seeders' \in SUBSET Here' /\ Here' \in SUBSET Peers
    BY <1>4, <1>6
  <2>2. list'.peer_count \in 0..Cardinality(Peers) /\ list'.seed_count \in 0..Cardinality(Peers)
    BY <1>9, <2>1, CountersTyped DEF CountsAgree
  <2>3. list' \in [base : Times, seed_count : 0..Cardinality(Peers),
                   peer_count : 0..Cardinality(Peers), down_count : 0..MaxCompleted]
    BY <1>8, <2>2 DEF TypeOK
  <2>4. peers' \in [Here' -> [seeding : BOOLEAN, completed : BOOLEAN,
                              time : 0..(OT_PEER_TIMEOUT - 1)]]
    BY <1>1, <1>4, <1>5
  <2>5. seen' \in [Here' -> [heard : 0..now, counted : Nat]]
    BY <1>1, <1>4 DEF TypeOK
  <2>. QED
    BY <1>1, <1>2, <1>4, <1>8, <2>3, <2>4, <2>5 DEF TypeOK, Here, database
<1>11. OpOK'
  BY <1>1, <1>2, <1>8 DEF OpOK, Cleanings, Announces
<1>12. AgesBounded'
  <2>1. \A p \in stay : seen[p].heard \in Int /\ peers[p].time \in Int
                          /\ seen[p].heard + peers[p].time <= list.base
    BY <1>2, <1>3, <1>4, BoundsAssumption, TimeoutsAssumption DEF AgesBounded, TypeOK
  <2>2. \A p \in Here' : seen'[p].heard + peers'[p].time <= now
    BY <1>1, <1>3, <1>4, <1>5, <2>1
  <2>. QED
    BY <1>1, <1>2, <1>3, <1>8, <2>2 DEF AgesBounded
<1>13. CountedHasFlag'
  BY <1>1, <1>4, <1>5 DEF CountedHasFlag
<1>. QED
  BY <1>9, <1>10, <1>11, <1>12, <1>13

LEMMA RebaseStep == IInv /\ Rebase => IInv'
<1>. SUFFICES ASSUME IInv, Rebase PROVE IInv'
  OBVIOUS
<1>. USE DEF IInv
<1>1. /\ op.pc \in {"rebase", "rebase_update"} /\ known
      /\ \/ /\ op \in Announces /\ op' \in Announces /\ op'.completed = op.completed
            /\ op'.pc = "touch" /\ op'.kind = "announce" /\ op.kind = "announce"
         \/ op' = Idle
  BY DEF Rebase, AfterClean, OpOK, Announces, Cleanings, Idle
<1>2. /\ list' = [list EXCEPT !.base = IF list.peer_count # 0 THEN now ELSE Base_Empty]
      /\ UNCHANGED <<now, known, peers, seen, touched>>
  BY DEF Rebase
<1>3. /\ now \in 0..MaxTime /\ Base_Empty \in Times /\ now \in Times /\ Base_Empty <= now
  BY BoundsAssumption, TimeoutsAssumption DEF TypeOK, Times, Base_Empty
<1>4. /\ list' \in [base : Times, seed_count : 0..Cardinality(Peers),
                    peer_count : 0..Cardinality(Peers), down_count : 0..MaxCompleted]
      /\ list'.base = (IF list.peer_count # 0 THEN now ELSE Base_Empty)
      /\ list'.seed_count = list.seed_count /\ list'.peer_count = list.peer_count
      /\ list'.down_count = list.down_count
  BY <1>2, <1>3 DEF TypeOK
<1>5. /\ record' \in Records
      /\ dirty' \in BOOLEAN
      /\ lost' \in 0..list.down_count
      /\ copy' = copy
  <2>1. CASE op.pc = "rebase"
    BY <2>1 DEF Rebase, TypeOK
  <2>2. CASE op.pc # "rebase"
    <3>1. Update(list, 0) /\ copy' = copy
      BY <2>2 DEF Rebase
    <3>2. list.seed_count \in 0..Cardinality(Peers) /\ list.peer_count \in 0..Cardinality(Peers)
      BY DEF TypeOK
    <3>3. list.down_count + 0 = list.down_count
      BY BoundsAssumption DEF TypeOK
    <3>. QED
      BY <3>1, <3>2, <3>3, UpdateTyped
  <2>. QED
    BY <2>1, <2>2
<1>6. TypeOK'
  BY <1>1, <1>2, <1>4, <1>5 DEF TypeOK, Here, Announces
<1>7. OpOK'
  BY <1>1, <1>2, <1>4, <1>5 DEF OpOK, Idle
<1>8. CountsAgree'
  BY <1>2, <1>4 DEF CountsAgree, Here, Seeders
<1>9. AgesBounded'
  <2>1. list.peer_count = 0 => Here = {}
    <3>1. IsFiniteSet(Here)
      BY Countable DEF TypeOK
    <3>. QED
      BY <3>1, FS_EmptySet DEF CountsAgree
  <2>2. list'.base <= now
    BY <1>3, <1>4
  <2>3. \A p \in Here : seen[p].heard + peers[p].time <= list'.base
    BY <1>1, <1>4, <2>1 DEF AgesBounded
  <2>. QED
    BY <1>1, <1>2, <2>2, <2>3 DEF AgesBounded, Here, Idle
<1>10. CountedHasFlag'
  BY <1>2 DEF CountedHasFlag, Here
<1>. QED
  BY <1>6, <1>7, <1>8, <1>9, <1>10

-----------------------------------------------------------------------------

\* The accounts of a torrent's peers agree at every step, for any peers and timeouts.
THEOREM Invariance == Spec => []IInv
<1>1. IInv /\ [Next]_vars => IInv'
  BY QuietSteps, TouchStep, AddSeedbanksStep, InsertStep, StopStep, CleanDeadStep, EvictStep,
     RebaseStep
  DEF Next, Clean
<1>. QED
  BY InitIInv, <1>1, PTL DEF Spec

\* The variables keep their types: no counter is negative or exceeds the number of peers, no peer
\* that stays in the list is OT_PEER_TIMEOUT old.
THEOREM TypeCorrect == Spec => []TypeOK
BY Invariance, PTL DEF IInv

\* The counters of the list, which add_peer_to_torrent_and_return_peers, remove_peer_from_torrent,
\* ts_torrentdb_add_seedbanks and clean_single_torrent change by what each of them believes it
\* does to the list, are the numbers of its peers and seeders.
THEOREM CountersCorrect == Spec => []CountsAgree
BY Invariance, PTL DEF IInv

\* A torrent whose counter is zero has no peers.
LEMMA NobodyCounted == IInv /\ list.peer_count = 0 => Here = {}
<1>. SUFFICES ASSUME IInv, list.peer_count = 0 PROVE Here = {}
  OBVIOUS
<1>1. IsFiniteSet(Here)
  BY Countable DEF IInv, TypeOK
<1>. QED
  BY <1>1, FS_EmptySet DEF IInv, CountsAgree

\* clean_single_torrent, wherever minutes end between its readings of the clock, drops no peer
\* that was heard of in the last OT_PEER_TIMEOUT minutes.
THEOREM EvictionNotEarly == Spec => NoEarlyEviction
<1> DEFINE OnlySilent == \A p \in Here \ DOMAIN peers' : now - seen[p].heard >= OT_PEER_TIMEOUT
<1>1. ASSUME IInv, [Next]_vars, op.pc # "idle" PROVE OnlySilent
  <2>1. \A p \in Here : /\ seen[p].heard \in Int /\ peers[p].time \in Nat
                        /\ op.pc = "clean" => seen[p].heard + peers[p].time <= list.base
    BY <1>1, TimeoutsAssumption, BoundsAssumption DEF IInv, TypeOK, AgesBounded
  <2>2. now \in Int /\ list.base \in Int
    BY <1>1, TimeoutsAssumption, BoundsAssumption DEF IInv, TypeOK, Times
  <2>3. CASE CleanDead
    <3>1. CASE Timedout > OT_TORRENT_TIMEOUT
      BY <2>1, <2>2, <2>3, <3>1, TimeoutsAssumption DEF CleanDead, Timedout
    <3>2. CASE list.peer_count = 0
      BY <1>1, <3>2, NobodyCounted
    <3>. QED
      BY <2>3, <3>1, <3>2 DEF CleanDead, TorrentIsDead
  <2>4. CASE Evict
    <3> DEFINE timedout == IF Timedout > OT_PEER_TIMEOUT THEN OT_PEER_TIMEOUT ELSE Timedout
    <3>1. op.pc = "clean" /\ DOMAIN peers' = Here \ Overdue(timedout)
      BY <2>4 DEF Evict
    <3>2. timedout \in Int /\ timedout <= now - list.base
      BY <2>2, TimeoutsAssumption DEF Timedout
    <3>3. \A p \in Here \ DOMAIN peers' : timedout + peers[p].time >= OT_PEER_TIMEOUT
      BY <3>1 DEF Overdue
    <3>. HIDE DEF timedout
    <3>. QED
      BY <2>1, <2>2, <3>1, <3>2, <3>3, TimeoutsAssumption
  <2>5. CASE ~CleanDead /\ ~Evict
    <3>1. Here \subseteq DOMAIN peers'
      BY <1>1, <2>5, EditKeeps, ZenonT(30)
      DEF Next, Clean, vars, memory, history, Announce, Reject, Find, Touch, AddSeedbanks,
          Insert, Stop, Scrape, CleanNothing, Rebase, Tick, Here
    <3>. QED
      BY <3>1
  <2>. QED
    BY <2>3, <2>4, <2>5
<1>2. IInv /\ [Next]_vars => [op.pc # "idle" => OnlySilent]_vars
  BY <1>1
<1>. QED
  BY Invariance, <1>2, PTL DEF Spec, NoEarlyEviction

-----------------------------------------------------------------------------

\* The downloads the list counts are in the record, or lost: an update stores them or not, and a
\* client takes from the record no more than it is said to.
DownloadsStored == list.down_count <= record.completed + lost

LEMMA DownloadsStep == IInv /\ DownloadsStored /\ [Next]_vars => DownloadsStored'
<1>. SUFFICES ASSUME IInv, DownloadsStored, [Next]_vars PROVE DownloadsStored'
  OBVIOUS
<1>1. /\ list.down_count \in Nat /\ record.completed \in Nat /\ lost \in Nat
      /\ list.down_count <= record.completed + lost
      /\ list \in [base : Times, seed_count : 0..Cardinality(Peers),
                   peer_count : 0..Cardinality(Peers), down_count : 0..MaxCompleted]
      /\ record \in Records
  BY BoundsAssumption DEF IInv, TypeOK, Records, DownloadsStored
<1>2. ASSUME NEW m, NEW increment \in {0, 1}, Update(m, increment)
      PROVE  record'.completed + lost' = record.completed + lost + increment
  <2>1. \/ record'.completed = record.completed + increment /\ lost' = lost
        \/ record' = record /\ lost' = lost + increment
    BY <1>1, <1>2 DEF Update, Records
  <2>. QED
    BY <1>1, <1>2, <2>1
<1>3. CASE Insert
  <2> DEFINE p == op.peer
             was == p \in Here /\ peers[p].seeding
             done == op.completed /\ ~(p \in Here /\ peers[p].completed)
             finished == IF done THEN 1 ELSE 0
             entered == IF p \in Here THEN 0 ELSE 1
             more == CASE op.seeding /\ ~was -> 1 [] ~op.seeding /\ was -> -1 [] OTHER -> 0
             l == [list EXCEPT
                     !.peer_count = @ + entered,
                     !.seed_count = @ + more,
                     !.down_count = @ + finished]
  <2>1. list' = l /\ Update(l, finished) /\ finished \in {0, 1}
    BY <1>3 DEF Insert
  <2>. HIDE DEF p, was, done, finished, entered, more
  <2>2. l.down_count = list.down_count + finished
    BY <1>1
  <2>. HIDE DEF l
  <2>3. record'.completed + lost' = record.completed + lost + finished
    BY <1>2, <2>1
  <2>. QED
    BY <1>1, <2>1, <2>2, <2>3 DEF DownloadsStored
<1>4. CASE Rebase
  <2>1. list'.down_count = list.down_count
    BY <1>1, <1>4 DEF Rebase
  <2>2. CASE op.pc = "rebase"
    BY <1>1, <1>4, <2>1, <2>2 DEF Rebase, DownloadsStored
  <2>3. CASE op.pc # "rebase"
    <3>1. record'.completed + lost' = record.completed + lost + 0
      BY <1>2, <1>4, <2>3 DEF Rebase
    <3>. QED
      BY <1>1, <2>1, <3>1 DEF DownloadsStored
  <2>. QED
    BY <2>2, <2>3
<1>5. CASE CleanDead
  BY <1>1, <1>5 DEF CleanDead, RemoveTorrent, NoList, memory, database, DownloadsStored
<1>6. CASE Edit
  <2>1. list' = list
    BY <1>6, EditKeeps DEF memory
  <2>2. ASSUME NEW r \in Records, Rewrite(r) PROVE DownloadsStored'
    <3>1. r.completed \in Nat
      BY DEF Records
    <3>. QED
      BY <1>1, <2>1, <2>2, <3>1 DEF Rewrite, LostWith, DownloadsStored
  <2>3. CASE ReadRecord
    BY <1>1, <2>1, <2>3 DEF ReadRecord, history, DownloadsStored
  <2>4. CASE ~ReadRecord
    BY <1>6, <2>2, <2>4, EditWrites DEF IInv
  <2>. QED
    BY <2>3, <2>4
<1>7. CASE ~Insert /\ ~Rebase /\ ~CleanDead /\ ~Edit
  <2>1. list'.down_count = list.down_count /\ record' = record /\ lost' = lost
    BY <1>1, <1>7
    DEF Next, Clean, vars, memory, database, history, Announce, Reject, Find, Touch, AddSeedbanks,
        Stop, Scrape, CleanNothing, Evict, Tick
  <2>. QED
    BY <1>1, <2>1 DEF DownloadsStored
<1>. QED
  BY <1>3, <1>4, <1>5, <1>6, <1>7

\* OT_PEERFLAG's completed flag is kept when a peer is renewed, so a peer counts as one download
\* however often its client reports completion; and the torrent's record counts every download the
\* list counts, but for those ts_update_torrent_stats could not store and those a client took from
\* it with the copy Torrent.save writes back, or by removing the torrent.
THEOREM DownloadsCountOnce == Spec => []CompletedOnce
<1>1. Init => DownloadsStored
  <2>. SUFFICES ASSUME Init PROVE list.down_count <= record.completed + lost
    BY DEF DownloadsStored
  <2>1. list.down_count = 0 /\ lost = 0
    BY DEF Init, NoList
  <2>. QED
    BY <2>1, InitRecord
<1>2. IInv /\ DownloadsStored => CompletedOnce
  BY DEF IInv, TypeOK, CountedHasFlag, DownloadsStored, CompletedOnce
<1>3. Spec => []DownloadsStored
  BY Invariance, <1>1, DownloadsStep, PTL DEF Spec
<1>. QED
  BY Invariance, <1>2, <1>3, PTL

\* The record holds the counters, but while an operation that changes them has not stored them.
RecordExact ==
    op.pc \notin {"insert", "rebase_update"} /\ ~dirty =>
      record.seeds = list.seed_count /\ record.peers = list.peer_count - list.seed_count

\* What an update that does not fail leaves in the record, of counters that are exact.
LEMMA UpdateStores ==
    ASSUME TypeOK, NEW l, NEW increment, Update(l, increment), ~dirty',
           l.seed_count \in Int, l.peer_count \in Int, l.seed_count <= l.peer_count
    PROVE  record'.seeds = l.seed_count /\ record'.peers = l.peer_count - l.seed_count
<1>1. record \in Records
  BY DEF TypeOK
<1>2. record' = [record EXCEPT
                   !.seeds = l.seed_count,
                   !.peers = IF l.peer_count < l.seed_count THEN 0
                                                            ELSE l.peer_count - l.seed_count,
                   !.completed = @ + increment]
  BY DEF Update
<1>3. /\ record'.seeds = l.seed_count
      /\ record'.peers = IF l.peer_count < l.seed_count THEN 0 ELSE l.peer_count - l.seed_count
  BY <1>1, <1>2 DEF Records
<1>. QED
  BY <1>3

LEMMA RecordStep == IInv /\ IInv' /\ RecordExact /\ [Next]_vars => RecordExact'
<1>. SUFFICES ASSUME IInv, IInv', RecordExact, [Next]_vars,
                     op'.pc \notin {"insert", "rebase_update"}, ~dirty'
              PROVE  record'.seeds = list'.seed_count
                       /\ record'.peers = list'.peer_count - list'.seed_count
  BY DEF RecordExact
<1>1. /\ list.seed_count \in Nat /\ list.peer_count \in Nat
      /\ list.seed_count <= list.peer_count
      /\ TypeOK
  <2>1. Here \in SUBSET Peers /\ Seeders \in SUBSET Here
    BY DEF IInv, TypeOK, Seeders
  <2>. QED
    BY <2>1, CountersTyped DEF IInv, CountsAgree
<1>2. /\ list'.seed_count \in Int /\ list'.peer_count \in Int
      /\ list'.seed_count <= list'.peer_count
  <2>1. Here' \in SUBSET Peers /\ Seeders' \in SUBSET Here'
    BY DEF IInv, TypeOK, Seeders
  <2>. QED
    BY <2>1, CountersTyped DEF IInv, CountsAgree
<1>3. op \in {Idle} \cup Announces \cup Cleanings
  BY DEF IInv, OpOK
<1>4. CASE Insert
  <2>1. \E finished : Update(list', finished)
    BY <1>4 DEF Insert
  <2>. QED
    BY <1>1, <1>2, <2>1, UpdateStores
<1>5. CASE Rebase
  <2>1. list'.seed_count = list.seed_count /\ list'.peer_count = list.peer_count
    BY <1>5 DEF Rebase, IInv, TypeOK
  <2>2. CASE op.pc = "rebase"
    BY <1>5, <2>1, <2>2 DEF Rebase, RecordExact
  <2>3. CASE op.pc # "rebase"
    <3>1. Update(list, 0)
      BY <1>5, <2>3 DEF Rebase
    <3>. QED
      BY <1>1, <2>1, <3>1, UpdateStores
  <2>. QED
    BY <2>2, <2>3
<1>6. CASE Evict
  <2>1. PICK overdue : /\ list' = [list EXCEPT
                             !.peer_count = @ - Cardinality(overdue),
                             !.seed_count = @ - Cardinality(overdue \cap Seeders)]
                       /\ op' = [op EXCEPT !.pc = IF overdue = {} THEN "rebase"
                                                                 ELSE "rebase_update"]
    BY <1>6 DEF Evict
  <2>2. op'.pc = "rebase" /\ overdue = {}
    BY <1>3, <2>1 DEF Idle, Announces, Cleanings
  <2>3. Cardinality(overdue) = 0 /\ Cardinality(overdue \cap Seeders) = 0
    BY <2>2, FS_EmptySet
  <2>4. list'.seed_count = list.seed_count - 0 /\ list'.peer_count = list.peer_count - 0
    BY <2>1, <2>3, <1>1 DEF TypeOK
  <2>5. list'.seed_count = list.seed_count /\ list'.peer_count = list.peer_count
    BY <1>1, <2>4
  <2>. QED
    BY <1>6, <2>5 DEF Evict, database, RecordExact
<1>7. CASE CleanDead
  <2>1. CASE op.kind = "announce"
    BY <1>7, <2>1 DEF CleanDead, memory, database, RecordExact
  <2>2. CASE op.kind # "announce"
    <3>1. list' = NoList /\ dirty' = (dirty \/ list.peer_count # 0)
      BY <1>7, <2>2 DEF CleanDead, RemoveTorrent
    <3>2. ~dirty /\ list.peer_count = 0
      BY <3>1, Zenon
    <3>3. list.seed_count = 0
      BY <1>1, <3>2
    <3>. QED
      BY <1>7, <3>1, <3>2, <3>3 DEF CleanDead, NoList, database, RecordExact
  <2>. QED
    BY <2>1, <2>2
<1>8. CASE AddSeedbanks
  BY <1>3, <1>8 DEF AddSeedbanks, Idle, Announces, Cleanings
<1>9. CASE \E p \in Peers : Stop(p)
  BY <1>9 DEF Stop
<1>10. CASE Touch
  BY <1>1, <1>10 DEF Touch, database, RecordExact, TypeOK
<1>11. CASE \/ \E p \in Peers, seeding, completed \in BOOLEAN : Announce(p, seeding, completed)
            \/ Reject \/ Find \/ Scrape \/ CleanNothing \/ Tick
            \/ UNCHANGED vars
  <2>1. /\ list' = list /\ dirty' = dirty /\ record' = record
        /\ op.pc \notin {"insert", "rebase_update"} \/ op' = op
    BY <1>1, <1>11
    DEF vars, memory, database, history, Announce, Reject, Find, Scrape, CleanNothing, Tick
  <2>. QED
    BY <2>1 DEF RecordExact
<1>12. CASE Edit
  <2>1. list' = list /\ op' = op
    BY <1>12, EditKeeps DEF memory
  <2>2. record'.seeds = record.seeds /\ record'.peers = record.peers /\ ~dirty
    <3>1. CASE ReadRecord
      BY <3>1 DEF ReadRecord, history
    <3>2. CASE ~ReadRecord
      <4>1. PICK r \in Records : Rewrite(r)
        BY <1>1, <1>12, <3>2, EditWrites
      <4>. QED
        BY <4>1 DEF Rewrite
    <3>. QED
      BY <3>1, <3>2
  <2>. QED
    BY <2>1, <2>2 DEF RecordExact
<1>. QED
  BY <1>4, <1>5, <1>6, <1>7, <1>8, <1>9, <1>10, <1>11, <1>12 DEF Next, Clean

\* Announces and cleanings keep the torrent's record up to date with its swarm: between two
\* operations it differs only after a stop, a failed update, the drop of a torrent with peers, or
\* when TorrentManager.remove or a copy that Torrent.save wrote back has changed its counters, until
\* the next update.
THEOREM RecordCorrect == Spec => []RecordFollows
<1>1. Init => RecordExact
  <2>. SUFFICES ASSUME Init
                PROVE  record.seeds = list.seed_count /\ record.peers = list.peer_count - list.seed_count
    BY DEF RecordExact
  <2>1. list.seed_count = 0 /\ list.peer_count = 0
    BY DEF Init, NoList
  <2>. QED
    BY <2>1, InitRecord
<1>2. RecordExact => RecordFollows
  BY DEF RecordExact, RecordFollows
<1>. QED
  BY Invariance, <1>1, <1>2, RecordStep, PTL DEF Spec

-----------------------------------------------------------------------------

\* The base of a torrent is not before its last announce; but a cleaning that finds no peers sets
\* it OT_PEER_TIMEOUT minutes back, and a torrent an announce has just added has none yet.
BaseFollowsTouch ==
    /\ Here # {} => list.base >= touched
    /\ known /\ op.pc # "touch" => list.base >= touched - OT_PEER_TIMEOUT
    /\ op.pc \in {"seedbanks", "insert"} => list.base >= touched

LEMMA BaseStep == IInv /\ BaseFollowsTouch /\ [Next]_vars => BaseFollowsTouch'
<1>. SUFFICES ASSUME IInv, BaseFollowsTouch, [Next]_vars PROVE BaseFollowsTouch'
  OBVIOUS
<1>1. /\ now \in Int /\ touched \in Int /\ touched <= now
      /\ list.base \in Int /\ list.base <= now
      /\ OT_PEER_TIMEOUT \in Nat
      /\ list \in [base : Times, seed_count : 0..Cardinality(Peers),
                   peer_count : 0..Cardinality(Peers), down_count : 0..MaxCompleted]
  BY BoundsAssumption, TimeoutsAssumption DEF IInv, TypeOK, Times, AgesBounded
<1>2. op \in {Idle} \cup Announces \cup Cleanings
  BY DEF IInv, OpOK
<1>3. CASE Touch
  <2>1. list'.base = now /\ touched' = now
    BY <1>1, <1>3 DEF Touch
  <2>. QED
    BY <1>1, <2>1 DEF BaseFollowsTouch
<1>4. CASE AddSeedbanks \/ Insert
  <2>1. op.pc \in {"seedbanks", "insert"} /\ list'.base = list.base /\ touched' = touched
    <3>1. CASE AddSeedbanks
      BY <1>1, <3>1 DEF AddSeedbanks
    <3>2. CASE Insert
      BY <1>1, <3>2 DEF Insert
    <3>. QED
      BY <1>4, <3>1, <3>2
  <2>. QED
    BY <1>1, <2>1 DEF BaseFollowsTouch
<1>5. CASE Rebase
  <2>1. /\ list'.base = (IF list.peer_count # 0 THEN now ELSE now - OT_PEER_TIMEOUT)
        /\ touched' = touched /\ Here' = Here
        /\ op'.pc \notin {"seedbanks", "insert"}
    BY <1>1, <1>2, <1>5
    DEF Rebase, AfterClean, Base_Empty, Here, Idle, Announces, Cleanings
  <2>2. list.peer_count = 0 => Here = {}
    BY NobodyCounted
  <2>. QED
    BY <1>1, <2>1, <2>2 DEF BaseFollowsTouch
<1>6. CASE CleanDead
  <2>1. CASE op.kind = "announce"
    BY <1>2, <1>6, <2>1
    DEF CleanDead, AfterClean, memory, BaseFollowsTouch, Here, Idle, Announces, Cleanings
  <2>2. CASE op.kind # "announce"
    <3>1. Here' = {} /\ ~known' /\ op' = Idle
      BY <1>6, <2>2 DEF CleanDead, RemoveTorrent, AfterClean, Nobody, Here
    <3>. QED
      BY <3>1 DEF BaseFollowsTouch, Idle
  <2>. QED
    BY <2>1, <2>2
<1>7. CASE Evict
  <2>1. /\ op.pc = "clean" /\ op'.pc \in {"rebase", "rebase_update"} /\ known' = known
        /\ list'.base = list.base /\ touched' = touched /\ Here' \subseteq Here
    BY <1>1, <1>2, <1>7 DEF Evict, Here, Idle, Announces, Cleanings
  <2>. QED
    BY <2>1 DEF BaseFollowsTouch
<1>8. CASE \E p \in Peers : Stop(p)
  <2>1. /\ op' = op /\ known' = known
        /\ list'.base = list.base /\ touched' = touched /\ Here' \subseteq Here
    BY <1>1, <1>8 DEF Stop, Here, Restrict
  <2>. QED
    BY <2>1 DEF BaseFollowsTouch
<1>9. CASE Find
  <2>1. /\ op'.pc = (IF known THEN "clean" ELSE "touch")
        /\ UNCHANGED <<list, touched, peers>>
    BY <1>2, <1>9 DEF Find, history, Idle, Announces, Cleanings
  <2>2. op.pc = "validate"
    BY <1>9 DEF Find
  <2>. QED
    BY <2>1, <2>2 DEF BaseFollowsTouch, Here
<1>10. CASE \/ \E p \in Peers, seeding, completed \in BOOLEAN :
                  Announce(p, seeding, completed)
            \/ Reject \/ Scrape \/ CleanNothing
  <2>1. UNCHANGED <<known, list, touched, peers>> /\ op.pc # "touch"
    BY <1>10 DEF memory, history, Announce, Reject, Scrape, CleanNothing
  <2>2. op'.pc \notin {"seedbanks", "insert"}
    BY <1>2, <1>10
    DEF Announce, Reject, Scrape, CleanNothing, AfterClean, Idle, Announces, Cleanings
  <2>. QED
    BY <2>1, <2>2 DEF BaseFollowsTouch, Here
<1>11. CASE Tick \/ Edit \/ UNCHANGED vars
  <2>1. UNCHANGED <<memory, op, touched>>
    BY <1>11, EditKeeps, Zenon DEF Tick, vars, history
  <2>. QED
    BY <2>1 DEF memory, BaseFollowsTouch, Here
<1>. QED
  BY <1>3, <1>4, <1>5, <1>6, <1>7, <1>8, <1>9, <1>10, <1>11 DEF Next, Clean

\* vector_remove_torrent is reached only for a torrent with peers that was not announced for
\* OT_TORRENT_TIMEOUT minutes, or one without whose downloads are kept for at least
\* OT_TORRENT_TIMEOUT - OT_PEER_TIMEOUT, wherever minutes end.
THEOREM TorrentKept == Spec => KeptWhileUseful
<1> DEFINE Useless == /\ Here # {} => now - touched > OT_TORRENT_TIMEOUT
                      /\ list.down_count > 0 =>
                             now - touched > OT_TORRENT_TIMEOUT - OT_PEER_TIMEOUT
<1>1. Init => BaseFollowsTouch
  BY DEF Init, BaseFollowsTouch, Here, Nobody, Idle
<1>2. Spec => []BaseFollowsTouch
  BY Invariance, <1>1, BaseStep, PTL DEF Spec
<1>3. ASSUME IInv, BaseFollowsTouch, [Next]_vars, known, ~known' PROVE Useless
  <2>1. /\ now \in Int /\ touched \in Int /\ list.base \in Int /\ list.down_count \in Nat
        /\ OT_PEER_TIMEOUT \in Nat /\ OT_TORRENT_TIMEOUT \in Nat
    BY <1>3, BoundsAssumption, TimeoutsAssumption DEF IInv, TypeOK, Times
  <2>2. CleanDead
    <3>1. ~(\E p \in Peers, seeding, completed \in BOOLEAN : Announce(p, seeding, completed))
      BY <1>3, Zenon DEF Announce, memory
    <3>2. ~(\E p \in Peers : Stop(p)) /\ ~Find
      BY <1>3, Zenon DEF Stop, Find
    <3>3. ~(Reject \/ Scrape \/ CleanNothing \/ Tick \/ Edit \/ UNCHANGED vars)
      BY <1>3, EditKeeps, Zenon DEF Reject, Scrape, CleanNothing, Tick, vars, memory
    <3>4. ~(Touch \/ AddSeedbanks \/ Insert \/ Evict \/ Rebase)
      BY <1>3, Zenon DEF Touch, AddSeedbanks, Insert, Evict, Rebase
    <3>. QED
      BY <1>3, <3>1, <3>2, <3>3, <3>4 DEF Next, Clean
  <2>3. op.pc = "clean" /\ TorrentIsDead
    BY <2>2 DEF CleanDead
  <2>4. CASE Timedout > OT_TORRENT_TIMEOUT
    BY <1>3, <2>1, <2>3, <2>4 DEF BaseFollowsTouch, Timedout
  <2>5. CASE list.peer_count = 0 /\ list.down_count = 0
    BY <1>3, <2>5, NobodyCounted
  <2>. QED
    BY <2>3, <2>4, <2>5 DEF TorrentIsDead
<1>4. IInv /\ BaseFollowsTouch /\ [Next]_vars => [known /\ ~known' => Useless]_vars
  BY <1>3
<1>. QED
  BY Invariance, <1>2, <1>4, PTL DEF Spec, KeptWhileUseful

-----------------------------------------------------------------------------

\* While the clean worker keeps its pace and no minute ends inside an operation: a list with
\* peers was cleaned or touched within CleanGap minutes, the time it keeps for a peer is not
\* less than the minutes since it was heard of, up to the base of the list or, while a cleaning
\* has aged the peers, up to now; and an announce that has cleaned the list finds it current.
PaceKept ==
    /\ Here # {} => now - list.base <= CleanGap
    /\ \A p \in Here :
           seen[p].heard + peers[p].time
             >= (IF op.pc \in {"rebase", "rebase_update"} THEN now ELSE list.base)
    /\ op.pc = "touch" /\ Here # {} => list.base = now
    /\ op.pc \in {"seedbanks", "insert"} => list.base = now

\* What the steps have in common: the types, and the pace before the step.
LEMMA PaceFacts ==
    ASSUME IInv
    PROVE  /\ now \in Int /\ list.base \in Int /\ CleanGap \in Nat
           /\ OT_PEER_TIMEOUT \in Nat \ {0} /\ OT_TORRENT_TIMEOUT \in Nat
           /\ list \in [base : Times, seed_count : 0..Cardinality(Peers),
                        peer_count : 0..Cardinality(Peers), down_count : 0..MaxCompleted]
           /\ op \in {Idle} \cup Announces \cup Cleanings
           /\ \A p \in Here : seen[p].heard \in Int /\ peers[p].time \in 0..(OT_PEER_TIMEOUT - 1)
BY BoundsAssumption, TimeoutsAssumption DEF IInv, TypeOK, Times, OpOK

LEMMA PaceStep ==
    ASSUME ~TicksInside, CleanGap <= OT_TORRENT_TIMEOUT
    PROVE  IInv /\ PaceKept /\ [Next]_vars => PaceKept'
<1>. SUFFICES ASSUME IInv, PaceKept, [Next]_vars PROVE PaceKept'
  OBVIOUS
<1>1. /\ now \in Int /\ list.base \in Int /\ CleanGap \in Nat
      /\ OT_PEER_TIMEOUT \in Nat \ {0} /\ OT_TORRENT_TIMEOUT \in Nat
      /\ list \in [base : Times, seed_count : 0..Cardinality(Peers),
                   peer_count : 0..Cardinality(Peers), down_count : 0..MaxCompleted]
      /\ op \in {Idle} \cup Announces \cup Cleanings
      /\ \A p \in Here : seen[p].heard \in Int /\ peers[p].time \in 0..(OT_PEER_TIMEOUT - 1)
  BY PaceFacts
<1>2. list.peer_count = 0 => Here = {}
  BY NobodyCounted
<1>3. CASE Touch
  <2>1. list'.base = now /\ now' = now /\ peers' = peers /\ seen' = seen
    BY <1>1, <1>3 DEF Touch
  <2>2. op.pc = "touch" /\ op'.pc = "seedbanks"
    BY <1>1, <1>3 DEF Touch, Idle, Announces, Cleanings
  <2>. QED
    BY <1>1, <2>1, <2>2 DEF PaceKept, Here
<1>4. CASE AddSeedbanks
  <2>1. op.pc = "seedbanks" /\ op'.pc = "insert" /\ list'.base = list.base /\ now' = now
    BY <1>1, <1>4 DEF AddSeedbanks, Idle, Announces, Cleanings
  <2>2. \A p \in Here' : \/ p \in Here /\ peers'[p] = peers[p] /\ seen'[p] = seen[p]
                         \/ peers'[p].time = 0 /\ seen'[p].heard = list.base
    BY <1>4 DEF AddSeedbanks, Here
  <2>. QED
    BY <1>1, <2>1, <2>2 DEF PaceKept
<1>5. CASE Insert
  <2>1. op.pc = "insert" /\ op' = Idle /\ list'.base = list.base /\ now' = now
    BY <1>1, <1>5 DEF Insert
  <2>2. \A p \in Here' : \/ p \in Here /\ peers'[p] = peers[p] /\ seen'[p] = seen[p]
                         \/ peers'[p].time = 0 /\ seen'[p].heard = list.base
    BY <1>5 DEF Insert, Here
  <2>. QED
    BY <1>1, <2>1, <2>2 DEF PaceKept, Idle
<1>6. CASE Rebase
  <2>1. /\ op.pc \in {"rebase", "rebase_update"} /\ op'.pc \in {"idle", "touch"}
        /\ Here # {} => list'.base = now
        /\ now' = now /\ peers' = peers /\ seen' = seen
    BY <1>1, <1>2, <1>6 DEF Rebase, AfterClean, Idle, Announces, Cleanings
  <2>. QED
    BY <1>1, <2>1 DEF PaceKept, Here
<1>7. CASE Evict
  <2> DEFINE timedout == IF Timedout > OT_PEER_TIMEOUT THEN OT_PEER_TIMEOUT ELSE Timedout
  <2>1. /\ op.pc = "clean" /\ op'.pc \in {"rebase", "rebase_update"}
        /\ list'.base = list.base /\ now' = now
        /\ Here' = Here \ Overdue(timedout)
        /\ \A p \in Here' : /\ peers'[p] = [peers[p] EXCEPT !.time = @ + timedout]
                            /\ seen'[p] = seen[p]
    BY <1>1, <1>7 DEF Evict, Here, Restrict, Idle, Announces, Cleanings
  <2>2. timedout \in Int /\ (timedout = OT_PEER_TIMEOUT \/ timedout = now - list.base)
    BY <1>1 DEF Timedout
  <2>. HIDE DEF timedout
  <2>3. ASSUME NEW p \in Here'
        PROVE  /\ p \in Here /\ seen'[p].heard = seen[p].heard
               /\ peers'[p].time = peers[p].time + timedout
    <3>1. p \in Here
      BY <2>1
    <3>2. peers[p] \in [seeding : BOOLEAN, completed : BOOLEAN, time : 0..(OT_PEER_TIMEOUT - 1)]
      BY <3>1 DEF IInv, TypeOK
    <3>3. peers'[p] = [peers[p] EXCEPT !.time = @ + timedout] /\ seen'[p] = seen[p]
      BY <2>1
    <3>. QED
      BY <3>1, <3>2, <3>3
  <2>4. \A p \in Here' : timedout # OT_PEER_TIMEOUT
    BY <1>1, <2>1, <2>2 DEF Overdue
  <2>. QED
    BY <1>1, <2>1, <2>2, <2>3, <2>4 DEF PaceKept
<1>8. CASE CleanDead
  <2>1. CASE op.kind = "announce"
    <3>1. /\ op.pc = "clean" /\ op'.pc = "touch" /\ TorrentIsDead
          /\ UNCHANGED <<now, list, peers, seen>>
      BY <1>1, <1>8, <2>1 DEF CleanDead, AfterClean, memory, Idle, Announces, Cleanings
    <3>2. Here = {}
      BY <1>1, <1>2, <3>1 DEF TorrentIsDead, Timedout, PaceKept
    <3>. QED
      BY <3>1, <3>2 DEF PaceKept, Here
  <2>2. CASE op.kind # "announce"
    <3>1. Here' = {} /\ op' = Idle
      BY <1>8, <2>2 DEF CleanDead, RemoveTorrent, AfterClean, Nobody, Here
    <3>. QED
      BY <3>1 DEF PaceKept, Idle
  <2>. QED
    BY <2>1, <2>2
<1>9. CASE CleanNothing
  <2>1. /\ op.pc = "clean" /\ op'.pc \in {"idle", "touch"}
        /\ UNCHANGED <<now, list, peers, seen>>
        /\ Here # {} => now - list.base = 0
    BY <1>1, <1>2, <1>9
    DEF CleanNothing, AfterClean, memory, history, Timedout, Idle, Announces, Cleanings
  <2>. QED
    BY <1>1, <2>1 DEF PaceKept, Here
<1>10. CASE Find
  <2>1. /\ op.pc = "validate" /\ op'.pc \in {"clean", "touch"}
        /\ UNCHANGED <<now, list, peers, seen>>
        /\ op'.pc = "touch" => Here = {}
    BY <1>1, <1>10 DEF Find, history, IInv, CountsAgree, Idle, Announces, Cleanings
  <2>. QED
    BY <1>1, <2>1 DEF PaceKept, Here
<1>11. CASE \E p \in Peers : Stop(p)
  <2>1. /\ op.pc = "idle" /\ op' = op /\ now' = now /\ list'.base = list.base
        /\ Here' \subseteq Here
        /\ \A p \in Here' : peers'[p] = peers[p] /\ seen'[p] = seen[p]
    BY <1>1, <1>11 DEF Stop, Here, Restrict
  <2>. QED
    BY <1>1, <2>1 DEF PaceKept
<1>12. CASE Tick
  <2>1. /\ op.pc = "idle" /\ op' = op /\ now' = now + 1
        /\ Here # {} => now - list.base < CleanGap
        /\ UNCHANGED <<list, peers, seen>>
    BY <1>12 DEF Tick, memory, history
  <2>. QED
    BY <1>1, <2>1 DEF PaceKept, Here
<1>13. CASE \/ \E p \in Peers, seeding, completed \in BOOLEAN : Announce(p, seeding, completed)
            \/ Reject \/ Scrape \/ Edit
            \/ UNCHANGED vars
  <2>1. UNCHANGED <<now, memory, seen>>
    BY <1>13, EditKeeps, Zenon DEF Announce, Reject, Scrape, vars, history
  <2>2. \/ op' = op
        \/ op.pc \in {"idle", "validate"} /\ op'.pc \in {"idle", "validate", "clean"}
    <3>1. CASE \E p \in Peers, seeding, completed \in BOOLEAN :
                  Announce(p, seeding, completed)
      BY <3>1 DEF Announce
    <3>2. CASE Reject \/ Scrape
      BY <3>2 DEF Reject, Scrape, Idle
    <3>3. CASE Edit \/ UNCHANGED vars
      BY <3>3, EditKeeps, Zenon DEF vars
    <3>. QED
      BY <1>13, <3>1, <3>2, <3>3
  <2>. QED
    BY <1>1, <2>1, <2>2 DEF PaceKept, Here, memory
<1>. QED
  BY <1>3, <1>4, <1>5, <1>6, <1>7, <1>8, <1>9, <1>10, <1>11, <1>12, <1>13 DEF Next, Clean

\* If no minute ends inside an operation and the clean worker comes back to a torrent with peers
\* before it idles out, no peer is handed out for longer than OT_PEER_TIMEOUT minutes and the
\* clean worker's delay after it was last heard of, whoever else announces or scrapes.
THEOREM SilentPeersGo ==
    ASSUME ~TicksInside, CleanGap <= OT_TORRENT_TIMEOUT
    PROVE  Spec => []StalePeersGone
<1>1. Init => PaceKept
  BY DEF Init, PaceKept, Here, Nobody, Idle
<1>2. IInv /\ PaceKept => StalePeersGone
  BY PaceFacts DEF PaceKept, StalePeersGone
<1>3. IInv /\ PaceKept /\ [Next]_vars => PaceKept'
  BY PaceStep
<1>. QED
  BY Invariance, <1>1, <1>2, <1>3, PTL DEF Spec
=============================================================================
