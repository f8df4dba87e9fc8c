-------------------------- MODULE MCTwinWhitelist --------------------------
(* Small instances of TwinWhitelist for TLC. *)
EXTENDS TwinWhitelist, TLC
Symmetry == Permutations(Admins)
=============================================================================
