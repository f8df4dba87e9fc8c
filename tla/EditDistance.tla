---------------------------- MODULE EditDistance ----------------------------
(***************************************************************************)
(* The edit distance of two slices, by the table of the distances of their *)
(* beginnings.  The code keeps two rows of the table at a time.            *)
(***************************************************************************)
EXTENDS Integers, Sequences, FiniteSetsExt

LevenshteinDistance_NoSubstitution(l, r) ==
    LET d[c \in (0..Len(l)) \X (0..Len(r))] ==
            LET i == c[1]
                j == c[2]
            IN  IF i = 0 THEN j ELSE IF j = 0 THEN i
                ELSE Min({d[<<i - 1, j>>] + 1, d[<<i, j - 1>>] + 1,
                          d[<<i - 1, j - 1>>] + (IF l[i] # r[j] THEN 2 ELSE 0)})
    IN  d[<<Len(l), Len(r)>>]

\* The table is filled row by row; an entry depends on its three neighbours.
LevenshteinDistance(l, r) ==
    LET d[c \in (0..Len(l)) \X (0..Len(r))] ==
            LET i == c[1]
                j == c[2]
            IN  IF i = 0 THEN j ELSE IF j = 0 THEN i
                ELSE Min({d[<<i - 1, j>>] + 1, d[<<i, j - 1>>] + 1,
                          d[<<i - 1, j - 1>>] + (IF l[i] # r[j] THEN 1 ELSE 0)})
    IN  d[<<Len(l), Len(r)>>]
=============================================================================
