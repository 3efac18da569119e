----------------------------- MODULE Arrangement -----------------------------
(***************************************************************************)
(* A finite set as a sequence in a given order, by counting: what a sort   *)
(* leaves, whatever its algorithm.  An order is a function that maps an    *)
(* element to what comes after it.                                         *)
(***************************************************************************)
EXTENDS Naturals, FiniteSets

UpTo(S, after, i) == {j \in S : j = i \/ i \in after[j]}

Place(S, after, i) == Cardinality(UpTo(S, after, i))

Arranged(S, after) ==
    [k \in 1..Cardinality(S) |-> CHOOSE i \in S : Place(S, after, i) = k]

Ascending(S) == [i \in S |-> {j \in S : i < j}]
=============================================================================
