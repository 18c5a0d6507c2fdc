---------------------------- MODULE MCWorkQueue -----------------------------
(* Instances of WorkQueue for TLC. *)
EXTENDS WorkQueue

CONSTANTS s1, s2
=============================================================================
