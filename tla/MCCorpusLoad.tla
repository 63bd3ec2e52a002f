----------------------------- MODULE MCCorpusLoad -----------------------------
(* Values of the constants of CorpusLoad for TLC. *)
EXTENDS CorpusLoad, TLC

CONSTANTS s1, s2

MCSteps == {s1, s2}
Symmetry == Permutations(MCSteps)
=============================================================================
