------------------------------- MODULE Tracker -------------------------------
(***************************************************************************)
(* One fund an organisation added and its application, as the tracker, its *)
(* timeline and its calendar file show them day by day (src/domain/tracker,*)
(* src/db/tracker.ts, src/app/tracker, src/app/api/tracker/calendar).      *)
(*                                                                         *)
(* Nothing of what is shown is stored: it is worked out of the fund's date,*)
(* the form, the claims no fact supports, what the organisation brings to  *)
(* the drafting, one rule of the fund's and the calendar on the wall.      *)
(* Work is counted in parts of an hour that both writing rates divide.     *)
(***************************************************************************)
EXTENDS Integers, Sequences, FiniteSets, Totals

CONSTANTS
    Deadlines,    \* days a fund may close on
    NoDate,       \* no deadline; submitted_at or decided_at IS NULL
    Limits,       \* word limits of questions
    NoLimit,      \* word_limit IS NULL
    Unknown,      \* hours of a form nobody has pasted in
    Means,        \* what an organisation may bring to the drafting
    MaxDay,       \* bound: the last day of the behaviour
    MaxForm,      \* bound: questions of the form
    MaxClaims     \* bound: claims without a source

VARIABLES
    today,
    deadline, kind, \* of the opportunities row
    rule,           \* the one rule the fund has, and who stands behind it
    form,           \* application_questions: limit, and whether answered
    begun,          \* there is an applications row
    claims,         \* answer_fact_refs without a fact
    means,          \* a key that works, the three answers, five facts
    sent, decided   \* submitted_at, and the funder's answer

trackVars == <<today, deadline, kind, rule, form, begun, claims, means, sent, decided>>
fundVars == <<deadline, kind, rule>>
workVars == <<form, begun, claims, means>>

\* SCHEDULE_CONSTANTS and EFFORT_CONSTANTS.
Kinds == {"confirmed", "rolling", "expected", "estimated", "unknown"}
HoursPerWeek == 4
BufferDays == 2
AssumedWords == 250
Hour == 1400
BaseWork == Hour
QuestionWork == Hour \div 4
ClaimWork == Hour \div 4

Everything == {"writer", "work", "facts"}
RuleStates == {"no fund", "none", "proposed", "typed", "verified", "rejected"}
RuleRows == [state : RuleStates, excludes : BOOLEAN]
NoFund == [state |-> "no fund", excludes |-> FALSE]
NoRule == [NoFund EXCEPT !.state = "none"]
Dates == Deadlines \cup {NoDate}
FormRows == [limit : Limits \cup {NoLimit}, answered : BOOLEAN]

ASSUME TrackerAssumption ==
    /\ Deadlines \subseteq Nat /\ Limits \subseteq Nat
    /\ NoDate \notin Nat /\ NoLimit \notin Nat /\ Unknown \notin Nat
    /\ Means \subseteq SUBSET Everything
    /\ {MaxDay, MaxForm, MaxClaims} \subseteq Nat

\* confirmed_deadline_has_date: what the opportunities table takes.
Storable(date, sort) == sort = "confirmed" => date # NoDate

\* readManualFund: what the form takes, a stricter thing.
Typeable(date, sort) ==
    /\ Storable(date, sort)
    /\ sort \in {"rolling", "unknown"} => date = NoDate

TrackInit ==
    /\ today = 0
    /\ deadline = NoDate /\ kind = "unknown" /\ rule = NoFund
    /\ form = << >> /\ begun = FALSE
    /\ claims = 0 /\ means \in Means
    /\ sent = FALSE /\ decided = FALSE

-----------------------------------------------------------------------------
(* remainingHours, in half hours. *)
Outstanding == {q \in DOMAIN form : ~form[q].answered}
Settled == DOMAIN form \ Outstanding

\* unassistedReason: without one of the three the slower rate holds.
Assisted == means = Everything
Words(limit) == IF limit = NoLimit THEN AssumedWords ELSE limit
WritingWork(q) == Words(form[q].limit) * (Hour \div (IF Assisted THEN 700 ELSE 200))
LeftToWrite == SumOver([q \in Outstanding |-> WritingWork(q) + QuestionWork], Outstanding)

\* Mutant: the guidance is read once drafting has begun.
ReadOnceBegun == IF Settled = {} THEN 0 ELSE BaseWork

ReadingWork == IF Settled = {} THEN BaseWork ELSE 0

HalfHours(work) == (work + Hour \div 4) \div (Hour \div 2)

Hours ==
    IF form = << >> THEN Unknown
    ELSE IF Outstanding = {} THEN HalfHours(claims * ClaimWork)
    ELSE HalfHours(ReadingWork + claims * ClaimWork + LeftToWrite)

\* daysOfWorkNeeded: the ceiling of the hours at the pace there is.
DaysNeeded == (7 * Hours + 2 * HoursPerWeek - 1) \div (2 * HoursPerWeek)
DaysRemaining == deadline - today
LatestStart == deadline - (DaysNeeded + BufferDays)

\* Mutant: no margin before the closing day.
NoMargin == DaysRemaining - DaysNeeded

Slack == DaysRemaining - (DaysNeeded + BufferDays)

HasClock == deadline # NoDate /\ kind \notin {"rolling", "unknown"}
Sized == Hours # Unknown
WorkLeft == Sized /\ Hours > 0

\* schedule.
State ==
    IF sent THEN "submitted"
    ELSE IF ~HasClock THEN "no_clock"
    ELSE IF DaysRemaining < 0 THEN "overdue"
    ELSE IF ~Sized THEN "effort_unknown"
    ELSE IF ~WorkLeft THEN "on_track"
    ELSE IF Slack < 0 /\ Settled # {} THEN "behind"
    ELSE IF Slack < 0 \/ (Slack = 0 /\ Settled = {}) THEN "start_now"
    ELSE "on_track"

NeedsAttention == State \in {"overdue", "start_now", "behind"}

-----------------------------------------------------------------------------
(* What the tracker makes of the fund's rules: loadCriteriaFor reads every   *)
(* row of the fund's, and the page asks the engine about all of them.       *)
VerifiedRuleExcludes == rule.state \in {"typed", "verified"} /\ rule.excludes
TrackerRuleExcludes == rule.excludes

Group ==
    IF decided THEN "answered"
    ELSE IF State = "submitted" THEN "done"
    ELSE IF TrackerRuleExcludes THEN "ruled_out"
    ELSE IF NeedsAttention THEN "attention"
    ELSE IF ~begun THEN "watching"
    ELSE IF State = "no_clock" THEN "open"
    ELSE "ahead"

\* timeline: the block of work drawn past the deadline.
Plottable == State \notin {"submitted", "no_clock"}
Overruns ==
    Plottable /\ (DaysRemaining < 0 \/ (Sized /\ DaysNeeded > DaysRemaining))

\* Mutant: the file is made of what has a date, whoever is ruled out.
EverythingDated == ~sent

\* The calendar route skips what was sent and what the rules exclude...
InCalendar == ~sent /\ ~TrackerRuleExcludes

\* ...and toCalendarEvents makes one event or two of the rest.
Event(what, day) == [what |-> what, day |-> day]
Events ==
    IF ~InCalendar THEN {}
    ELSE {Event("deadline", day) : day \in {deadline} \ {NoDate}}
         \cup IF HasClock /\ DaysRemaining >= 0 /\ WorkLeft
              THEN {Event("start", LatestStart)} ELSE {}

-----------------------------------------------------------------------------
(* The days, and the fund. *)
TimePasses ==
    /\ today < MaxDay
    /\ today' = today + 1
    /\ UNCHANGED <<fundVars, workVars, sent, decided>>

Known == rule # NoFund

\* createPastedOpportunity: the model reads a date and a rule.
PasteFund(date, sort, excludes) ==
    /\ ~Known /\ Storable(date, sort)
    /\ deadline' = date /\ kind' = sort
    /\ rule' = [state |-> "proposed", excludes |-> excludes]
    /\ UNCHANGED <<today, workVars, sent, decided>>

\* insertManualFund: a fund typed in proposes no rule.
TypeFund(date, sort) ==
    /\ ~Known /\ Typeable(date, sort)
    /\ deadline' = date /\ kind' = sort
    /\ rule' = NoRule
    /\ UNCHANGED <<today, workVars, sent, decided>>

\* updateOwnFund, on what the form took.
EditFund(date, sort) ==
    /\ Known /\ Typeable(date, sort)
    /\ deadline' = date /\ kind' = sort
    /\ UNCHANGED <<today, rule, workVars, sent, decided>>

\* verifyCriterion, rejectCriterion, and removeRule on what a model proposed.
DecideRule(from, to) ==
    /\ <<from, to>> \in {<<"proposed", "verified">>, <<"proposed", "rejected">>,
                         <<"verified", "rejected">>}
    /\ rule.state = from
    /\ rule' = [rule EXCEPT !.state = to]
    /\ UNCHANGED <<today, deadline, kind, workVars, sent, decided>>

\* addHandRule: a rule typed in is verified by whoever types it ...
AddHandRule(excludes) ==
    /\ rule = NoRule
    /\ rule' = [state |-> "typed", excludes |-> excludes]
    /\ UNCHANGED <<today, deadline, kind, workVars, sent, decided>>

\* ... and removeRule deletes it, where what was read is only set aside.
RemoveHandRule ==
    /\ rule.state = "typed"
    /\ rule' = NoRule
    /\ UNCHANGED <<today, deadline, kind, workVars, sent, decided>>

-----------------------------------------------------------------------------
(* The application. *)
Begin ==
    /\ Known /\ ~begun
    /\ begun' = TRUE
    /\ UNCHANGED <<today, fundVars, form, claims, means, sent, decided>>

AppendQuestion(limit) ==
    /\ begun /\ Cardinality(DOMAIN form) < MaxForm
    /\ form' = Append(form, [limit |-> limit, answered |-> FALSE])
    /\ UNCHANGED <<today, fundVars, begun, claims, means, sent, decided>>

\* An answer is saved, or saved empty; what it claims is counted again.
AnswerOne(q, answered, unsupported) ==
    /\ form' = [form EXCEPT ![q].answered = answered]
    /\ claims' = unsupported
    /\ UNCHANGED <<today, fundVars, begun, means, sent, decided>>

\* A key is stored or fails its check, facts are confirmed or corrected.
Equip(brings) ==
    /\ brings # means
    /\ means' = brings
    /\ UNCHANGED <<today, fundVars, form, begun, claims, sent, decided>>

MarkSubmitted ==
    /\ begun /\ ~sent
    /\ sent' = TRUE
    /\ UNCHANGED <<today, fundVars, workVars, decided>>

\* unmarkSubmitted puts the status back to drafting, whatever it was.
UnmarkSubmitted ==
    /\ begun
    /\ sent' = FALSE /\ decided' = FALSE
    /\ UNCHANGED <<today, fundVars, workVars>>

\* recordDecision and clearDecision.
SetDecision(there) ==
    /\ sent
    /\ decided' = there
    /\ UNCHANGED <<today, fundVars, workVars, sent>>

TrackNext ==
    \/ TimePasses
    \/ \E date \in Dates, sort \in Kinds :
        \/ TypeFund(date, sort) \/ EditFund(date, sort)
        \/ \E excludes \in BOOLEAN : PasteFund(date, sort, excludes)
    \/ \E from, to \in RuleStates : DecideRule(from, to)
    \/ \E excludes \in BOOLEAN : AddHandRule(excludes)
    \/ RemoveHandRule
    \/ Begin
    \/ \E limit \in Limits \cup {NoLimit} : AppendQuestion(limit)
    \/ \E q \in DOMAIN form, answered \in BOOLEAN, n \in 0 .. MaxClaims :
        AnswerOne(q, answered, n)
    \/ \E brings \in Means : Equip(brings)
    \/ MarkSubmitted \/ UnmarkSubmitted
    \/ \E there \in BOOLEAN : SetDecision(there)

TrackSpec == TrackInit /\ [][TrackNext]_trackVars

-----------------------------------------------------------------------------
(* The types of the rows. *)
TrackTypeOK ==
    /\ today \in 0 .. MaxDay
    /\ deadline \in Dates /\ kind \in Kinds /\ Storable(deadline, kind)
    /\ rule \in RuleRows
    /\ form \in Seq(FormRows) /\ Len(form) <= MaxForm
    /\ begun \in BOOLEAN /\ claims \in 0 .. MaxClaims /\ means \in Means
    /\ sent \in BOOLEAN /\ decided \in BOOLEAN

(* "the last day they can still realistically begin" (schedule.ts): nobody   *)
(* with work left is told too late.  A row that only let a day go by was    *)
(* called urgent while the work still fitted, or it fits still.             *)
WarnedInTime ==
    [][/\ today' > today /\ HasClock /\ ~sent
       /\ WorkLeft /\ ~NeedsAttention
       => DaysNeeded <= deadline - today']_trackVars

(* A question answered, or a claim given its source, never puts a row under *)
(* "Needs you this week" (remainingHours and schedule in schedule.ts).      *)
Finishes(old, new) == \A q \in DOMAIN old : old[q].answered => new[q].answered
WorkNeverHurts ==
    [][(/\ form' # form \/ claims' # claims
        /\ Len(form') = Len(form) /\ Finishes(form, form') /\ claims' <= claims)
       => (NeedsAttention' => NeedsAttention)]_trackVars

(* Nobody with work left is warned too late, and nobody is punished for     *)
(* working.                                                                 *)
UrgencyIsFair == WarnedInTime /\ WorkNeverHurts

(* The badge, the timeline and the calendar file are made in three places   *)
(* and tell one story: what is drawn overrunning is called urgent or late;  *)
(* a row under "Needs you this week" has its closing day in the file, and   *)
(* its last day to start unless that is history; a row ruled out has none;  *)
(* and "every question is answered" is said only when nothing is left.      *)
SurfacesAgree ==
    /\ Overruns => NeedsAttention
    /\ Group = "attention" => Event("deadline", deadline) \in Events
    /\ Group = "ruled_out" => Events = {}
    /\ State \in {"start_now", "behind"} /\ Group = "attention" =>
            Event("start", LatestStart) \in Events
    /\ Sized /\ ~WorkLeft => Outstanding = {} /\ claims = 0

(* "The engine sees a criterion only after a person has verified it"        *)
(* (db/opportunities.ts): a fund is ruled out by a rule a person stands by. *)
OnlyVerifiedRulesRuleOut == Group = "ruled_out" => VerifiedRuleExcludes
=============================================================================
