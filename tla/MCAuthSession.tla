--------------------------- MODULE MCAuthSession ---------------------------
(* Small instances of AuthSession for TLC. *)
EXTENDS AuthSession, TLC

CONSTANTS u1, u2, c1, c2, t1, t2, r1, r2

\* c1 and any later JWT belong to u1, c2 to u2.
MCCredUser == [c \in Creds |-> IF c = c2 THEN u2 ELSE u1]

Symmetry == Permutations(Tokens) \cup Permutations(Reqs)
=============================================================================
