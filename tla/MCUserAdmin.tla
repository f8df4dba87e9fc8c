---------------------------- MODULE MCUserAdmin ----------------------------
(* Small instances of UserAdmin for TLC. *)
EXTENDS UserAdmin, TLC
Symmetry == Permutations(Admins)

\* Forms that disagree in every field: keep, replace and clear the scopes.
KeepForm == [role |-> "admin", enabled |-> TRUE, ids |-> {}, preserve |-> TRUE]
GrantForm == [role |-> "viewer", enabled |-> TRUE, ids |-> Insts, preserve |-> FALSE]
ClearForm == [role |-> "viewer", enabled |-> FALSE, ids |-> {}, preserve |-> FALSE]
RaceForms == {KeepForm, GrantForm, ClearForm}
=============================================================================
