-------------------------- MODULE MCDesignPlans --------------------------
EXTENDS DesignPlans

ProcsSymmetry == Permutations(Procs)

Area(type, num, conf) == [type |-> type, num |-> num, conf |-> conf, review |-> FALSE, box |-> "inside"]
MCDropped == {"shop"}
MCNames == {<<"a", "b", "c">>, <<"a", "b", "c", "shop">>, <<"a", "x", "y">>, <<"shop">>, << >>}
MCInputs ==
    {[name |-> <<"a", "b", "c">>, areas |-> <<Area("treatment", 1, "low")>>, status |-> ""],
     [name |-> <<"a", "b", "c", "shop">>, areas |-> <<Area("beauty", 0, "")>>, status |-> "incomplete"],
     [name |-> <<"a", "x", "y">>, areas |-> <<Area("treatment", 0, "")>>, status |-> ""]}
MCOutputs ==
    {[wrap |-> "fenced", areas |-> <<Area("consultation", 2, "")>>],
     [wrap |-> "words", areas |-> <<Area("vip_treatment", 0, "low")>>]}
====
