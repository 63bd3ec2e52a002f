------------------------------- MODULE Giving --------------------------------
(***************************************************************************)
(* What a funder's published awards say about the size of its giving       *)
(* (domain/funder/behaviour.ts).  Pure arithmetic: no state.  Awards are   *)
(* numbered, in a row or with gaps where some do not count.  A quartile is *)
(* interpolated between two awards, so it is kept here times four, which   *)
(* is exact.                                                               *)
(***************************************************************************)
EXTENDS Integers, Sequences, FiniteSets

\* MIN_AWARDS_TO_CHARACTERISE: below it a funder is not described at all.
MinAwards == 5

HowMany(awards) == Cardinality(DOMAIN awards)

AmountsOf(awards) == [i \in DOMAIN awards |-> awards[i].amount]

(* The k-th amount once they are sorted: the least with k at or below it.  *)
AtOrBelow(amounts, x) == Cardinality({i \in DOMAIN amounts : amounts[i] <= x})
Nth(amounts, k) ==
    LET reach == {x \in {amounts[i] : i \in DOMAIN amounts} : AtOrBelow(amounts, x) >= k}
    IN  CHOOSE x \in reach : \A y \in reach : x <= y

(* Four times the q-th quartile, linearly interpolated.                    *)
Quartile(amounts, q) ==
    LET position == (HowMany(amounts) - 1) * q
        weight == position % 4
        below == Nth(amounts, position \div 4 + 1)
    IN  IF weight = 0 THEN 4 * below
        ELSE (4 - weight) * below + weight * Nth(amounts, position \div 4 + 2)

CanCharacterise(amounts) == HowMany(amounts) >= MinAwards

Spread(amounts) ==
    [min |-> 4 * Nth(amounts, 1), lower |-> Quartile(amounts, 1),
     median |-> Quartile(amounts, 2), upper |-> Quartile(amounts, 3),
     max |-> 4 * Nth(amounts, HowMany(amounts))]

(* A fund's own page: an ask against what the funder gives.                *)
AskAgainst(ask, spread) ==
    IF 4 * ask < spread.min \/ 4 * ask > spread.max THEN "outside_range_entirely"
    ELSE IF 4 * ask < spread.lower THEN "below_typical"
    ELSE IF 4 * ask > spread.upper THEN "above_typical"
    ELSE "within_typical"
=============================================================================
