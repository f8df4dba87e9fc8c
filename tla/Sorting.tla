------------------------------ MODULE Sorting ------------------------------
(***************************************************************************)
(* sort.Slice over a slice without equal elements: the sequence of the     *)
(* elements of a set in the order of a relation that says which of two     *)
(* elements comes first.                                                   *)
(***************************************************************************)
EXTENDS Integers, Sequences, FiniteSets

Sorted(S, before) ==
    CHOOSE s \in [1..Cardinality(S) -> S] :
        \A i, j \in 1..Cardinality(S) : i < j => <<s[i], s[j]>> \in before
=============================================================================
