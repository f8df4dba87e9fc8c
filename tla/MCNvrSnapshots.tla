--------------------------- MODULE MCNvrSnapshots ---------------------------
(* Instances of NvrSnapshots for TLC. *)
EXTENDS NvrSnapshots
CONSTANTS r1, r2
MCCodes == {"authorization_failed"}  \* the other kind of failure comes from storing
Symmetric == Permutations(Requests)
=============================================================================
