-------------------------- MODULE MCSystemSettings --------------------------
EXTENDS SystemSettings

ProcsSymmetry == Permutations(Procs)
Query(start, end, user, action, page, size) ==
    [start |-> start, end |-> end, user |-> user, action |-> action, page |-> page, size |-> size]
MCFilters ==
    {Query(1, 2, 0, "", 0, 0), Query(1, 1, 1, "watermark", 2, 1), Query(1, 2, 0, "", 5, 5),
     Query(2, 1, 0, "", 1, 1)}
MCDeployments ==
    {[backend |-> "mysql", gate |-> TRUE, row |-> "off", ai |-> "MiniMax"],
     [backend |-> "memory", gate |-> FALSE, row |-> "", ai |-> ""]}
====
