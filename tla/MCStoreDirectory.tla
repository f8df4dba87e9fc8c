-------------------------- MODULE MCStoreDirectory --------------------------
EXTENDS StoreDirectory

A == <<"a">>
AStore == <<"a", "space", "store">>
B == <<"b">>
C1 == <<"c1", "upper">>
C2 == <<"c2", "upper">>
C3 == <<"c3", "upper">>
C3Lower == <<"c3", "lower">>
C4 == <<"c4", "upper">>
NoCode == <<Blank, "upper">>

Create(name, codes, plan) ==
    [op |-> "createStore", name |-> name, city |-> "x", org |-> << >>,
     plan |-> plan, codes |-> codes]
MCInputs ==
    {Create(A, <<C3, C4>>, FALSE), Create(AStore, <<C3Lower, NoCode>>, FALSE),
     Create(AStore, <<NoCode>>, TRUE), Create(B, <<C3, C3Lower>>, TRUE),
     [op |-> "updateStore", store |-> 1, name |-> AStore, city |-> "y", org |-> <<"o">>],
     [op |-> "updateStore", store |-> 1, name |-> B, city |-> Blank, org |-> << >>],
     [op |-> "deleteStore", store |-> 1],
     [op |-> "addRecorder", store |-> 1, codes |-> <<C3Lower>>],
     [op |-> "addRecorder", store |-> 1, codes |-> <<C4>>],
     [op |-> "addRecorder", store |-> 2, codes |-> <<NoCode>>],
     [op |-> "deleteRecorder", recorder |-> 1],
     [op |-> "createAccount", name |-> "n"], [op |-> "createAccount", name |-> Blank],
     [op |-> "sync", names |-> <<"n">>],
     [op |-> "list", query |-> << >>, city |-> "x", page |-> 1, visible |-> {}],
     [op |-> "list", query |-> <<"a", "space">>, city |-> Blank, page |-> 2,
      visible |-> {<<"o">>}]}
MCSeed == [name |-> B, city |-> Blank, org |-> <<"o">>, codes |-> <<C1, C2>>]
MCDeployments == {[backend |-> "mysql", crm |-> TRUE], [backend |-> "mysql", crm |-> FALSE],
                  [backend |-> "memory", crm |-> FALSE]}
Symmetry == Permutations(Procs)
MCDropped == {"space", "store"}
=============================================================================
