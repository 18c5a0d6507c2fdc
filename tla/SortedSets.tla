----------------------------- MODULE SortedSets -----------------------------
(***************************************************************************)
(* Sets of byte strings of one length as the arrays in memcmp's order that *)
(* the tracker keeps them in.                                              *)
(***************************************************************************)
EXTENDS Integers, Sequences, FiniteSets

\* memcmp( x, y ) < 0
Before(x, y) == \E i \in 1..Len(x) : x[i] < y[i] /\ \A j \in 1..(i - 1) : x[j] = y[j]

Sorted(S) == [i \in 1..Cardinality(S) |-> CHOOSE x \in S : Cardinality({y \in S : Before(y, x)}) = i - 1]
=============================================================================
