-------------------------------- MODULE Totals --------------------------------
(* The total of a weight over a set: the `reduce` of budgetTotal             *)
(* (src/domain/budget/validate.ts), of remainingHours and of their kind.     *)
EXTENDS FiniteSetsExt

SumOver(weight, S) == MapThenSumSet(LAMBDA x : weight[x], S)
=============================================================================
