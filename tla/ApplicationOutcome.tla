-------------------------- MODULE ApplicationOutcome --------------------------
(***************************************************************************)
(* One application's row after it is drafted: sent, answered by the        *)
(* funder, un-sent, un-answered (src/db/tracker.ts, src/db/decision.ts,    *)
(* src/app/tracker/actions.ts).  Every operation is one guarded UPDATE,    *)
(* except recording a decision: its transaction reads the submission date, *)
(* judges what was typed against it, and only then writes.  The database   *)
(* runs at READ COMMITTED and the read takes no lock, so another request   *)
(* may commit between the two.                                             *)
(*                                                                         *)
(* Nothing stops a request made from a page rendered before somebody       *)
(* else's change, so every operation may arrive in every state of the row. *)
(***************************************************************************)
EXTENDS Integers, FiniteSets

CONSTANTS
    Clerks,     \* requests that may be recording a decision at one moment
    Amounts,    \* sums an award may carry
    Unknown,    \* no sum recorded (amount_awarded_gbp IS NULL)
    MaxDay,     \* bound: the last day of the behaviour
    MaxLines    \* bound: audit lines counted; more are written and not counted

ASSUME DaysAssumption == MaxDay \in Nat \ {0} /\ MaxLines \in Nat
ASSUME AmountAssumption == Unknown \notin Amounts

VARIABLES
    today,  \* the calendar day, counted from 1; day 0 stands for NULL
    row,    \* the applications row
    form,   \* per clerk: the judged decision not yet written, or NoForm
    lines   \* audit lines written per action

outcomeVars == <<today, row, form, lines>>

Answers == {"awarded", "rejected", "no_reply"}
Days == 1 .. MaxDay
Sums == Amounts \cup {Unknown}

OutcomeRows == [status : {"drafting", "submitted"} \cup Answers,
         submitted : Days \cup {0}, decided : Days \cup {0},
         amount : Sums, note : BOOLEAN]
Decisions == [decision : Answers, on : Days, amount : Sums, note : BOOLEAN]
NoForm == [decision |-> "none"]
Actions == {"application.submitted", "application.unsubmitted",
            "application.decided", "application.decision_cleared"}

OutcomeTypeOK ==
    /\ today \in Days
    /\ row \in OutcomeRows
    /\ form \in [Clerks -> Decisions \cup {NoForm}]
    /\ lines \in [Actions -> 0 .. MaxLines]

OutcomeInit ==
    /\ today = 1
    /\ row = [status |-> "drafting", submitted |-> 0, decided |-> 0,
              amount |-> Unknown, note |-> FALSE]
    /\ form = [c \in Clerks |-> NoForm]
    /\ lines = [a \in Actions |-> 0]

WriteLine(a) ==
    lines' = [lines EXCEPT ![a] = IF @ < MaxLines THEN @ + 1 ELSE @]

-----------------------------------------------------------------------------
(* Plausible wrong versions of the guards and of the writes.               *)

WriteUnguarded(r) == TRUE
AlwaysUnsent(r) == TRUE
KeepsTheSum(r, d) ==
    [r EXCEPT !.status = d.decision, !.decided = d.on, !.note = d.note,
              !.amount = IF d.amount = Unknown THEN r.amount ELSE d.amount]
ForgetsTheStatus(r, d) ==
    [r EXCEPT !.status = "decided", !.decided = d.on,
              !.amount = d.amount, !.note = d.note]

-----------------------------------------------------------------------------
(* The rules of a decision and the guards of the four writes.              *)

\* The WHERE of each UPDATE.
Unsent(r) == r.submitted = 0
Sent(r) == r.submitted # 0
Answered(r) == r.status \in Answers

\* checkDecision: what was typed is kept only when the date is not in the
\* future nor before the submission that was read, and only an award has a sum.
Acceptable(d, submittedOn) ==
    /\ d.on <= today
    /\ submittedOn <= d.on
    /\ d.amount # Unknown => d.decision = "awarded"

\* The row after recordDecision's SET.
Decided(r, d) ==
    [r EXCEPT !.status = d.decision, !.decided = d.on,
              !.amount = d.amount, !.note = d.note]

\* The row after clearDecision's SET.
Cleared(r) ==
    [r EXCEPT !.status = "submitted", !.decided = 0,
              !.amount = Unknown, !.note = FALSE]

-----------------------------------------------------------------------------
NextDay ==
    /\ today < MaxDay
    /\ today' = today + 1
    /\ UNCHANGED <<row, form, lines>>

\* The audit line is written whether or not the UPDATE found the row unsent.
MarkSubmitted ==
    /\ row' = IF Unsent(row)
              THEN [row EXCEPT !.submitted = today, !.status = "submitted"]
              ELSE row
    /\ WriteLine("application.submitted")
    /\ UNCHANGED <<today, form>>

\* Unguarded, and the decision's columns are not among those it sets.
UnmarkSubmitted ==
    /\ row' = [row EXCEPT !.submitted = 0, !.status = "drafting"]
    /\ WriteLine("application.unsubmitted")
    /\ UNCHANGED <<today, form>>

\* A request reads when the application went in and judges what was typed.
\* A refusal writes nothing and ends the request.
JudgeDecision(c) ==
    /\ form[c] = NoForm
    /\ Sent(row)
    /\ \E d \in Decisions :
        /\ Acceptable(d, row.submitted)
        /\ form' = [form EXCEPT ![c] = d]
    /\ UNCHANGED <<today, row, lines>>

\* The same transaction's UPDATE, guarded only on the application being sent;
\* finding it no longer sent, it changes nothing and writes no line.
RecordDecision(c) ==
    /\ form[c] # NoForm
    /\ form' = [form EXCEPT ![c] = NoForm]
    /\ \/ /\ Sent(row)
          /\ row' = Decided(row, form[c])
          /\ WriteLine("application.decided")
       \/ /\ ~Sent(row)
          /\ UNCHANGED <<row, lines>>
    /\ UNCHANGED today

ClearDecision ==
    /\ Answered(row)
    /\ row' = Cleared(row)
    /\ WriteLine("application.decision_cleared")
    /\ UNCHANGED <<today, form>>

OutcomeNext ==
    \/ NextDay
    \/ MarkSubmitted
    \/ UnmarkSubmitted
    \/ ClearDecision
    \/ \E c \in Clerks : JudgeDecision(c) \/ RecordDecision(c)

OutcomeSpec == OutcomeInit /\ [][OutcomeNext]_outcomeVars

-----------------------------------------------------------------------------
(* Safety.                                                                 *)

\* The status and the submission date never disagree: a draft has no date,
\* and nothing that is sent or answered lacks one.  "An award recorded
\* against an unsent draft would put money into the totals that no funder
\* ever agreed to" (src/app/tracker/actions.ts:71), and clearing an answer
\* must not "drag a draft forward into 'submitted'" (src/db/decision.ts:68),
\* whatever commits between a request's read and its write.
SentIffDated == (row.status = "drafting") <=> (row.submitted = 0)

\* "The row is never half-decided" (src/db/decision.ts:10): an answered row
\* has its date, and a sum only when the answer was an award, whatever the
\* row was before and whatever its last decision left behind.
WholeDecision ==
    Answered(row) =>
        /\ row.decided # 0
        /\ row.amount # Unknown => row.status = "awarded"

\* No step moves the day an application went in to another day: a second
\* click, from a page drawn before the first, must not restart the clock.
SubmissionKept ==
    [][Sent(row) /\ Sent(row') => row'.submitted = row.submitted]_outcomeVars

\* The row tells one story of the application at every moment, and goes on
\* telling it: its status, its day of submission, the answer, the answer's
\* date and the sum agree, and the day never moves.
OutcomeIsWhole == [](SentIffDated /\ WholeDecision) /\ SubmissionKept

-----------------------------------------------------------------------------
(* What a comment says that the code does not do.                          *)

\* "ISO date the answer landed. Null exactly when `decision` is."
\* (src/db/tracker.ts:47).  Un-sending an answered application leaves it.
NoAnswerNoDate == ~Answered(row) => row.decided = 0
=============================================================================
