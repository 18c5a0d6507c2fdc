--------------------------- MODULE MCStatsCapture ---------------------------
(* Instances of StatsCapture for TLC. *)
EXTENDS StatsCapture, TLC

CONSTANTS t1, c1, c2

Symmetric == Permutations(Captures)
=============================================================================
