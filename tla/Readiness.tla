------------------------------ MODULE Readiness ------------------------------
(***************************************************************************)
(* One application as its page measures it: the budget against the funder's*)
(* rules, the outcomes, the answers, the verdict on eligibility, and the   *)
(* percentage and the list of blockers made from them                      *)
(* (src/domain/readiness, src/domain/budget, src/db/budget.ts,             *)
(* src/app/applications/[id]).  Nothing here is stored as a score: every   *)
(* page load works it out again.                                           *)
(*                                                                         *)
(* Sums are whole pence.  A score is counted in parts of Whole, which every*)
(* number of questions up to MaxSheet divides.                             *)
(***************************************************************************)
EXTENDS Integers, FiniteSets, Totals

CONSTANTS
    TypedSums,    \* sums somebody may type, in tenths of a penny
    Sums,         \* sums asked for, in pence
    Funders,      \* what different funders' criteria say of money
    NoSum,        \* IS NULL
    NoScore,      \* a component that does not apply
    MaxLines,     \* bound: lines of the budget
    MaxOutcomes,  \* bound: rows of outcomes
    MaxSheet,     \* bound: questions of the form
    Whole         \* a full score

VARIABLES
    lines,    \* budget_lines
    outcomes, \* rows in outcomes
    sheet,    \* application_questions with their answers
    rules,    \* what the funder's criteria say of money
    standing, \* the verdict on eligibility, as the page computes it
    requested \* applications.amount_requested_gbp, fixed at the start

readyVars == <<lines, outcomes, sheet, rules, standing, requested>>

Categories == {"capital", "staff"}
CapitalCategories == {"capital"}
CostTypes == {"capital", "revenue", "mixed"}
Lines == [id : 1 .. MaxLines, category : Categories, pence : Nat]
NothingKnown == [min |-> NoSum, max |-> NoSum, costs |-> {}]
Rules == [min : Nat \cup {NoSum}, max : Nat \cup {NoSum}, costs : SUBSET CostTypes]
Verdicts == {"eligible", "ineligible", "unknown"}
Standings == [verdict : Verdicts, measured : BOOLEAN]
Answers == [text : {"none", "blank", "within", "over"},
            claims : {"none", "supported", "unsupported"}]
NotWritten == [text |-> "none", claims |-> "none"]

(* Every share of a form within its bound is a whole number of parts.      *)
ASSUME ReadinessAssumption ==
    /\ {MaxLines, MaxOutcomes, MaxSheet, Whole} \subseteq Nat /\ Whole > 0
    /\ \A n \in 1 .. MaxSheet : Whole % n = 0
    /\ Funders \subseteq Rules /\ TypedSums \cup Sums \subseteq Nat
    /\ NoSum \notin Nat /\ NoScore \notin Nat

ReadyInit ==
    /\ lines = {} /\ outcomes = 0
    /\ sheet = [q \in {} |-> NotWritten]
    /\ rules = NothingKnown
    /\ standing = [verdict |-> "unknown", measured |-> FALSE]
    /\ requested \in Sums \cup {NoSum}

-----------------------------------------------------------------------------
(* validateBudget. *)
BudgetTotal(budget) == SumOver([line \in budget |-> line.pence], budget)

(* The permitted cost types of a capital_revenue rule; no rule permits all. *)
Permits(costs, kind) == costs = {} \/ kind \in costs \/ "mixed" \in costs
KindOf(line) == IF line.category \in CapitalCategories THEN "capital" ELSE "revenue"

LineErrors(budget, funder) ==
    {"line_not_positive" : line \in {l \in budget : l.pence <= 0}}
    \cup {KindOf(line) : line \in {l \in budget : ~Permits(funder.costs, KindOf(l))}}

TotalErrors(budget, funder, sum) ==
    {e \in {"total_below_minimum"} : funder.min # NoSum /\ BudgetTotal(budget) < funder.min}
    \cup {e \in {"total_above_maximum"} : funder.max # NoSum /\ BudgetTotal(budget) > funder.max}
    \cup {e \in {"total_mismatch"} :
            sum # NoSum /\ budget # {} /\ BudgetTotal(budget) # sum}

Errors(budget, funder, sum) ==
    {e \in {"budget_empty"} : budget = {}}
    \cup LineErrors(budget, funder) \cup TotalErrors(budget, funder, sum)

Submittable == Errors(lines, rules, requested) = {}

-----------------------------------------------------------------------------
(* What the page counts. *)
Questions == DOMAIN sheet
Answered == {q \in Questions : sheet[q].text \in {"within", "over"}}
OverLimit == {q \in Questions : sheet[q].text = "over"}
Unsupported == {q \in Questions : sheet[q].claims = "unsupported"}

Ratio(done, total) == IF total = 0 THEN NoScore ELSE (Whole * done) \div total

(* Mutant: a verdict that is no is left out of the average. *)
NoIsNotCounted ==
    CASE standing.verdict = "eligible" -> Whole
      [] standing.verdict = "unknown" /\ standing.measured -> Whole \div 2
      [] OTHER -> NoScore

EligibilityScore ==
    CASE standing.verdict = "eligible"   -> Whole
      [] standing.verdict = "ineligible" -> 0
      [] OTHER -> IF standing.measured THEN Whole \div 2 ELSE NoScore

(* Mutant: a form without questions does not count. *)
EmptyFormIsFine == Ratio(Cardinality(Answered), Cardinality(Questions))

QuestionsScore ==
    IF Questions = {} THEN 0 ELSE Ratio(Cardinality(Answered), Cardinality(Questions))

BudgetScore ==
    IF lines = {} THEN 0 ELSE IF Submittable THEN Whole ELSE Whole \div 2

ComplianceScore ==
    IF Answered = {} THEN NoScore ELSE IF OverLimit = {} THEN Whole ELSE 0

(* assessReadiness: evidence and attachments are always nought of nought.   *)
Components == {"eligibility", "questions", "evidence", "budget", "outcomes",
               "attachments", "compliance"}
ScoreOf(c) ==
    CASE c = "eligibility" -> EligibilityScore
      [] c = "questions"   -> QuestionsScore
      [] c = "budget"      -> BudgetScore
      [] c = "outcomes"    -> IF outcomes > 0 THEN Whole ELSE 0
      [] c = "compliance"  -> ComplianceScore
      [] OTHER             -> Ratio(0, 0)

Counted == {c \in Components : ScoreOf(c) # NoScore}

(* Math.round of the mean, in hundredths. *)
Rounded(sum, whole) == (200 * sum + whole) \div (2 * whole)
Percent == Rounded(SumOver([c \in Counted |-> ScoreOf(c)], Counted),
                   Whole * Cardinality(Counted))

Blocked(what, when) == {b \in {what} : when}
Blockers ==
    Blocked(<<"not eligible", 0>>, standing.verdict = "ineligible")
    \cup Blocked(<<"no questions", 0>>, Questions = {})
    \cup {<<"to answer", Cardinality(n)>> : n \in {Questions \ Answered} \ {{}}}
    \cup {<<"unsupported", Cardinality(n)>> : n \in {Unsupported} \ {{}}}
    \cup Blocked(<<"no budget", 0>>, lines = {})
    \cup Blocked(<<"budget errors", 0>>, lines # {} /\ ~Submittable)
    \cup Blocked(<<"no outcomes", 0>>, outcomes = 0)
    \cup {<<"over the limit", Cardinality(n)>> : n \in {OverLimit} \ {{}}}

-----------------------------------------------------------------------------
(* addBudgetLineAction rounds to pence what passed as more than nothing, and *)
(* the column refuses what is then nothing (amount_is_positive).             *)
ToPence(tenths) == (tenths + 5) \div 10

AddBudgetLine(id, category, tenths) ==
    /\ id \notin {line.id : line \in lines}
    /\ tenths > 0 /\ ToPence(tenths) > 0
    /\ lines' = lines \cup {[id |-> id, category |-> category, pence |-> ToPence(tenths)]}
    /\ UNCHANGED <<outcomes, sheet, rules, standing, requested>>

RemoveBudgetLine(line) ==
    /\ lines' = lines \ {line}
    /\ UNCHANGED <<outcomes, sheet, rules, standing, requested>>

AddOutcome ==
    /\ outcomes < MaxOutcomes
    /\ outcomes' = outcomes + 1
    /\ UNCHANGED <<lines, sheet, rules, standing, requested>>

RemoveOutcome ==
    /\ outcomes > 0
    /\ outcomes' = outcomes - 1
    /\ UNCHANGED <<lines, sheet, rules, standing, requested>>

AddQuestion ==
    /\ Cardinality(Questions) < MaxSheet
    /\ sheet' = [q \in 1 .. Cardinality(Questions) + 1 |->
                    IF q \in Questions THEN sheet[q] ELSE NotWritten]
    /\ UNCHANGED <<lines, outcomes, rules, standing, requested>>

(* An answer of one's own carries no claims; a draft carries the Writer's;  *)
(* and a fact confirmed, corrected or removed moves what a claim stands on. *)
Answer(q, answer) ==
    /\ answer.text # "none" /\ (answer.claims # "none" => answer.text # "blank")
    /\ sheet' = [sheet EXCEPT ![q] = answer]
    /\ UNCHANGED <<lines, outcomes, rules, standing, requested>>

(* restrictionsFromCriteria, on criteria as they are typed and verified.    *)
LearnRules(funder) ==
    /\ rules' = funder
    /\ UNCHANGED <<lines, outcomes, sheet, standing, requested>>

(* The organisation's details or the fund's criteria change the verdict; one *)
(* that was decided was measured.                                            *)
Judge(verdict, measured) ==
    /\ verdict # "unknown" => measured
    /\ standing' = [verdict |-> verdict, measured |-> measured]
    /\ UNCHANGED <<lines, outcomes, sheet, rules, requested>>

ReadyNext ==
    \/ \E id \in 1 .. MaxLines, category \in Categories, tenths \in TypedSums :
        AddBudgetLine(id, category, tenths)
    \/ \E line \in lines : RemoveBudgetLine(line)
    \/ AddOutcome \/ RemoveOutcome \/ AddQuestion
    \/ \E q \in Questions, answer \in Answers \ {NotWritten} : Answer(q, answer)
    \/ \E funder \in Funders \ {rules} : LearnRules(funder)
    \/ \E verdict \in Verdicts, measured \in BOOLEAN : Judge(verdict, measured)

ReadySpec == ReadyInit /\ [][ReadyNext]_readyVars

-----------------------------------------------------------------------------
(* The types of what is stored and of what is computed. *)
ReadyTypeOK ==
    /\ lines \subseteq Lines /\ outcomes \in 0 .. MaxOutcomes
    /\ sheet \in [Questions -> Answers] /\ Questions = 1 .. Cardinality(Questions)
    /\ rules \in Rules /\ standing \in Standings /\ requested \in Sums \cup {NoSum}
    /\ Percent \in 0 .. 100

(* "An application with no questions in it … reported 100% ready"           *)
(* (domain/readiness/readiness.ts): full marks are shown only over a list   *)
(* of blockers that is empty but for claims without a source, and for one   *)
(* question in forty: 99.5% is rounded up.                                  *)
FullMarksAreEarned ==
    Percent = 100 => \A b \in Blockers :
        \/ b[1] = "unsupported"
        \/ b[1] = "to answer" /\ 40 * b[2] <= Cardinality(Questions)

(* No work goes unrewarded: a step that clears or eases a blocker, and puts *)
(* up none, never lowers the percentage (assessReadiness).                  *)
WorkNeverCosts ==
    [][Blockers' # Blockers
          /\ (\A b \in Blockers' : \E c \in Blockers : c[1] = b[1] /\ c[2] >= b[2])
       => Percent' >= Percent]_readyVars

(* 100% is shown only over a list with no blocker but claims without a      *)
(* source and one open question in forty, and a step that eases the list    *)
(* never lowers the percentage (src/domain/readiness/readiness.ts).         *)
ScoreIsFair == []FullMarksAreEarned /\ WorkNeverCosts
=============================================================================
