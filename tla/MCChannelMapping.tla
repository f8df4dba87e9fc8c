-------------------------- MODULE MCChannelMapping --------------------------
(* Small instances of ChannelMapping for TLC. *)
EXTENDS ChannelViews, TLC

Label(t, n) == [type |-> t, num |-> n]
TwoLabels == {Label("treatment", 1), Label("treatment", 2)}

\* A room with its number, and a number on an unknown scene.
LabelOrNumber == {Label("consultation", 2), Label(None, 1)}

\* The second store has a channel like the recorder's first one.
Twin == [c \in {11} |-> [no |-> 1, active |-> TRUE, type |-> "treatment", num |-> 1,
                          keys |-> TRUE]]

\* The second channel has neither a note nor a name; the first and its twin have one name.
NameOrder == [c \in Ids |-> IF c = 2 THEN 0 ELSE 1]
WaitingAreas == {2}

Symmetry == Permutations(Procs)
=============================================================================
