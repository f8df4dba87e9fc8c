----------------------------- MODULE Filtering -----------------------------
(***************************************************************************)
(* A loop over a slice that skips some elements and appends the others to  *)
(* a new slice.  It is SelectSeq with a set for the test, written as a     *)
(* recursive function: facts about it can be proved by induction on the    *)
(* elements the loop has seen.                                             *)
(***************************************************************************)
EXTENDS Integers, Sequences

\* The elements of s that are not in D, in their order.
Without(s, D) ==
    LET kept[i \in 0..Len(s)] ==
            IF i = 0 THEN << >>
            ELSE LET x == s[i] IN IF x \in D THEN kept[i - 1] ELSE Append(kept[i - 1], x)
    IN  kept[Len(s)]
=============================================================================
