------------------------------- MODULE MCPeople -------------------------------
(***************************************************************************)
(* Small sets of names for People: two operators, two customers and two    *)
(* organisations, one address with two links, two readers of one link, and *)
(* two settings screens.                                                   *)
(***************************************************************************)
EXTENDS People, TLC

CONSTANTS
    m1, m2, w1, w2, t1, t2, d1, d2, d3,
    p1, p2, o1, o2, e1, l1, l2, s1, r1, r2,
    k1, k2, x1, x2, y1, y2

MCAdmins == {m1, m2}
MCPasswords == {w1, w2}
MCTokens == {t1, t2}
MCDesks == {d1, d2}
OneDesk == {d1}
MCDoors == {d1, d2, d3}
MCPersons == {p1, p2}
MCOrgs == {o1, o2}
MCAddresses == {e1}
MCLinks == {l1, l2}
MCShares == {s1}
MCReaders == {r1, r2}
MCKeys == {k1, k2}
MCMasters == {x1, x2}
MCScreens == {y1, y2}
Symmetry ==
    {a @@ b @@ c @@ d : a \in Permutations(MCTokens), b \in Permutations(MCDesks),
                        c \in Permutations(MCPasswords),
                        d \in {f @@ g : f \in Permutations(MCOrgs), g \in Permutations(MCPersons)}}
===============================================================================
