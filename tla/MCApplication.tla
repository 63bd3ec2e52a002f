---------------------------- MODULE MCApplication ----------------------------
(* A small application: the values its parts are checked on.               *)
EXTENDS Application, MCEligibility, MCAssessment

CONSTANTS turnover, v1, v2, p1, p2, d1, c1, c2

MCClaims == {turnover}
MCValues == {v1, v2}
MCPeople == {p1, p2}
MCDocs == {d1}
MCClerks == {c1, c2}
\* One part moves, so the names of all may be swapped together; those of
\* people apart, since facts have values too.
Swap(a, b) == [x \in {a, b} |-> IF x = a THEN b ELSE a]
MCSymmetry ==
    {a @@ b : a \in {[x \in MCValues \cup MCRuleIds \cup MCClerks |-> x],
                     Swap(v1, v2) @@ Swap(rule1, rule2) @@ Swap(c1, c2)},
              b \in Permutations(MCPeople)}

\* Bounds (CONSTRAINT): at most three of the six possible facts at once; and
\* two people at work at once, or two corrections, only while nothing is cited
\* and no document has been uploaded.
OneAtATime ==
    /\ Cardinality({p \in People : desk[p] # Idle}) <= 1
    /\ Cardinality({k \in 1 .. MaxFixes : Exists(Fix(k))}) <= 1
OnlyClaims == answer = {} /\ \A d \in Docs : upload[d] = NoUpload
FewAtOnce == Cardinality({i \in Ids : Exists(i)}) <= 3 /\ (OneAtATime \/ OnlyClaims)
=============================================================================
