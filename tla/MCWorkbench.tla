------------------------------ MODULE MCWorkbench ------------------------------
(* A small workbench: the values its parts are checked on.                 *)
EXTENDS Workbench

CONSTANTS r1, r2, x1, x2

(* Four awards of three funders, one of which repeats a label: the word    *)
(* "somerset" is a place, and ranks lowest where it is only part of a      *)
(* recipient's name.                                                       *)
Ranks(trees, youth, somerset) == [trees |-> trees, youth |-> youth, somerset |-> somerset]
Award(funder, recipient, amount, years, place, tags, ranks) ==
    [id |-> <<funder, recipient, place, amount>>, funder |-> funder,
     recipient |-> recipient, amount |-> amount, years |-> years, place |-> place,
     tags |-> tags, ranks |-> ranks]

MCAwards ==
    {Award("f1", "o1", "small", 1, "somerset", <<"nature">>, Ranks(9, 0, 1)),
     Award("f1", "o2", "small", 2, "north somerset", <<"nature", "young", "nature">>,
           Ranks(1, 1, 0)),
     Award("f2", "o1", "large", 2, "somerset", <<"young">>, Ranks(0, 6, 1)),
     Award("f3", "o2", "large", 1, "somerset", <<>>, Ranks(3, 0, 1))}
MCValues == [amount |-> {"small", "large"}, since |-> {1, 2},
             place |-> {"somerset", "north somerset"}, topic |-> {"nature", "young"}]
MCInside == {<<"somerset", "somerset">>, <<"north somerset", "north somerset">>,
             <<"somerset", "north somerset">>}
MCQueries == {{}, {"trees", "youth", "somerset"}, {"somerset"}}

MCFunders == {NothingKnown, [NothingKnown EXCEPT !.min = 200],
              [NothingKnown EXCEPT !.max = 100, !.costs = {"mixed"}],
              [NothingKnown EXCEPT !.costs = {"capital"}]}

MCMeans == {Everything, {"writer", "work"}}
=============================================================================
