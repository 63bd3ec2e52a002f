----------------------------- MODULE MCProspects -----------------------------
(***************************************************************************)
(* The small instance of Prospects: two or three funders, the lists they   *)
(* may publish (none, too few, five of different kinds, twelve of one      *)
(* kind), and an organisation that says more or less of itself.            *)
(***************************************************************************)
EXTENDS Prospects

Award(amount, on, region, nation, labels, text) ==
    [amount |-> amount, on |-> on, region |-> region, nation |-> nation,
     labels |-> labels, text |-> text]
Many(n, a) == [i \in 1 .. n |-> [a EXCEPT !.amount = @ + 2 * (i % 4)]]

Tree == Award(10, 100, "Somerset", "england", {"environment"}, {"tree", "nursery"})
Youth == Award(8, 20, Nothing, "uk_wide", {"young"}, {"tree"})
Far == Award(30, 101, Nothing, "scotland", {"health"}, {"food"})

MCAwardLists ==
    {<<>>, Many(4, Tree), Many(6, Tree) \o <<Far>>, Many(5, Far), Many(6, Youth),
     Many(6, Tree)}
MCProjects ==
    ({[name |-> n, text |-> <<"nursery", "food", "nursery">>, groups |-> g, ask |-> a] :
        n \in {<<>>, <<"tree">>}, g \in {{}, {"young"}}, a \in {Nothing, 12}}
     \ {[name |-> <<>>, text |-> <<"nursery", "food", "nursery">>, groups |-> {"young"},
        ask |-> Nothing]})
    \cup {[name |-> <<"tree">>, text |-> <<"food">>, groups |-> {}, ask |-> 0]}
MCSomewhere ==
    {[region |-> Nothing, nation |-> "scotland"], [region |-> "Somerset", nation |-> "england"]}
MCFunders == 1 .. 3
MCDays == {102, 150}
=============================================================================
