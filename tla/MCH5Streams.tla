---------------------------- MODULE MCH5Streams ----------------------------
(* Small instances of H5Streams for TLC. *)
EXTENDS H5Streams, TLC
Symmetry == Permutations(Users) \cup Permutations(Requests)
=============================================================================
