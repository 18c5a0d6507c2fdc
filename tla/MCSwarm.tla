------------------------------ MODULE MCSwarm -------------------------------
(***************************************************************************)
(* Instances of Swarm for TLC.  A behaviour is of one of the parts a       *)
(* configuration asks for, which differ in how long it lasts and in what   *)
(* clients do to the record.                                               *)
(***************************************************************************)
EXTENDS Swarm, TLC

CONSTANTS
    p1, p2,
    Parts

VARIABLE part

SwarmInit == Init /\ part \in Parts /\ (part = "pace" => record.published)

SwarmNext ==
    /\ UNCHANGED part
    /\ \/ part = "all" /\ Next
       \* Two minutes of anything, two downloads in the first or one until the end of the second.
       \/ part = "record" /\ Next /\ now' <= 2 /\ now' + list'.down_count <= 3
       \* The whole time of a record that is there and that clients leave alone.
       \/ part = "pace" /\ Next /\ record'.published /\ UNCHANGED copy

SwarmSpec == SwarmInit /\ [][SwarmNext]_<<part, vars>>
=============================================================================
