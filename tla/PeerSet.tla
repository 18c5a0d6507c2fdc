------------------------------- MODULE PeerSet -------------------------------
(***************************************************************************)
(* What ot_vector.c promises the operations on a torrent: its peers are a  *)
(* set, each with a flag that says whether it seeds.  How they are stored  *)
(* is module PeerVector's affair.                                          *)
(***************************************************************************)
EXTENDS Naturals, Functions

CONSTANT Peers   \* addresses of peers

VARIABLES
    seeding,   \* the peers of the torrent: whether each seeds
    answer     \* what the last operation returned

vars == <<seeding, answer>>

Known == DOMAIN seeding

Init ==
    /\ seeding = [p \in {} |-> FALSE]
    /\ answer = "none"

\* A peer announces itself.
Announce(p, seeds) ==
    /\ seeding' = [q \in Known \cup {p} |-> IF q = p THEN seeds ELSE seeding[q]]
    /\ answer' = IF p \in Known THEN "renewed" ELSE "added"

\* There is no memory for a peer that is new.
Refuse(p) ==
    /\ p \notin Known
    /\ answer' = "failed"
    /\ UNCHANGED seeding

\* A peer stops.
Stop(p) ==
    /\ seeding' = Restrict(seeding, Known \ {p})
    /\ answer' = CASE p \notin Known -> "nobody"
                   [] p \in Known /\ ~seeding[p] -> "a peer"
                   [] p \in Known /\ seeding[p] -> "a seeder"

\* Peers that were silent for too long are dropped.
Clean(overdue) ==
    /\ overdue \subseteq Known
    /\ seeding' = Restrict(seeding, Known \ overdue)
    /\ answer' = "cleaned"

Next ==
    \/ \E p \in Peers, seeds \in BOOLEAN : Announce(p, seeds)
    \/ \E p \in Peers : Refuse(p) \/ Stop(p)
    \/ \E overdue \in SUBSET Known : Clean(overdue)

Spec == Init /\ [][Next]_vars
=============================================================================
