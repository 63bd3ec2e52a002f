------------------------------ MODULE MCFactBase ------------------------------
(* Values of the constants of FactBase for TLC. *)
EXTENDS FactBase, TLC

CONSTANTS turnover, staff, v1, p1

MCTwoClaims == {turnover, staff}
MCOneValue == {v1}
MCPeople == {p1}
=============================================================================
