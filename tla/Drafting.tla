------------------------------- MODULE Drafting -------------------------------
(***************************************************************************)
(* Applications to one opportunity, from Start to the Critic's review      *)
(* (src/db/workspace.ts, src/db/reviews.ts, src/app/applications).         *)
(*                                                                         *)
(* Starting an application and pasting questions are each one transaction  *)
(* that reads without a lock and then inserts; nothing forbids a second    *)
(* application to one fund, but UNIQUE (application_id, position) refuses  *)
(* a second question of one number.  A review reads the answers in one     *)
(* transaction, waits for the model and is stored in another.  Requests of *)
(* the same organisation overlap in every way.                             *)
(***************************************************************************)
EXTENDS Integers, FiniteSets

CONSTANTS
    Requests,     \* requests of the organisation in progress at one moment
    Apps,         \* application ids
    Texts,        \* answers somebody may write
    NoText,       \* no answer row
    Blank,        \* an answer row whose content is ''
    NoReview,     \* no row in reviews
    MaxQuestions, \* bound: questions of the application that is worked on
    MaxStarts,    \* bound: audit lines counted
    MaxWrites     \* bound: versions of answers written

VARIABLES
    apps,      \* the applications rows of the opportunity
    started,   \* 'application.started' lines in audit_logs
    questions, \* application_questions: how many there are, 1 to questions
    answers,   \* answers.content per question, as far as there is a row
    written,   \* answer_versions rows
    review,    \* the latest review: its quotes, and the answers saved since
    request,   \* per request: what it has read and not yet written
    \* History:
    split,     \* two starts overlapped
    slipped    \* answers saved while the latest review was being read

draftVars == <<apps, started, questions, answers, written, review, request,
          split, slipped>>

Ids == 1 .. MaxQuestions
Idle == [at |-> "idle"]
Contents == Texts \cup {Blank}
Reviews == [quotes : SUBSET Texts, edited : SUBSET Ids]
RequestStates ==
    {Idle}
    \cup [at : {"starting"}, found : SUBSET Apps]
    \cup [at : {"pasting"}, next : 1 .. MaxQuestions + 1]
    \cup [at : {"reading"}, answers : SUBSET Texts, saved : SUBSET Ids]

ASSUME DraftAssumption ==
    /\ Blank \notin Texts /\ NoText \notin Contents /\ NoReview \notin Reviews
    /\ {MaxQuestions, MaxStarts, MaxWrites} \subseteq Nat

DraftInit ==
    /\ apps = {} /\ started = 0
    /\ questions = 0
    /\ answers = [q \in Ids |-> NoText]
    /\ written = 0
    /\ review = NoReview
    /\ request = [r \in Requests |-> Idle]
    /\ split = FALSE /\ slipped = {}

Put(r, state) == request' = [request EXCEPT ![r] = state]
Others(r, at) == \E o \in Requests \ {r} : request[o].at = at

-----------------------------------------------------------------------------
(* Mutant: whoever presses Start again gets another application. *)
FindsNothing == {}

(* findApplicationForOpportunity. *)
FindApplication == apps

(* startApplication: the read... *)
Start(r) ==
    /\ request[r] = Idle
    /\ Put(r, [at |-> "starting", found |-> FindApplication])
    /\ split' = (split \/ Others(r, "starting"))
    /\ UNCHANGED <<apps, started, questions, answers, written, review, slipped>>

NewApplication(a) == a \in Apps \ apps

(* ...and the insert, if it found none.  The line is written either way. *)
StartApplication(r, a) ==
    /\ request[r].at = "starting"
    /\ started < MaxStarts
    /\ IF request[r].found = {}
       THEN NewApplication(a) /\ apps' = apps \cup {a}
       ELSE a \in request[r].found /\ apps' = apps
    /\ started' = started + 1
    /\ Put(r, Idle)
    /\ UNCHANGED <<questions, answers, written, review, split, slipped>>

-----------------------------------------------------------------------------
(* addQuestions, for the application that is worked on: the read...         *)
NextPosition == questions + 1

ReadPositions(r) ==
    /\ request[r] = Idle /\ apps # {}
    /\ Put(r, [at |-> "pasting", next |-> NextPosition])
    /\ UNCHANGED <<apps, started, questions, answers, written, review, split, slipped>>

(* ...and the inserts, n of them; one number taken undoes the whole paste.  *)
AddQuestions(r, n) ==
    /\ request[r].at = "pasting"
    /\ request[r].next = NextPosition /\ questions + n <= MaxQuestions
    /\ questions' = questions + n
    /\ Put(r, Idle)
    /\ UNCHANGED <<apps, started, answers, written, review, split, slipped>>

-----------------------------------------------------------------------------
(* saveAnswer: the row, a version of it, and nothing else of the review's.  *)
Saved(q, text) == [answers EXCEPT ![q] = text]
Touched(q) ==
    IF review = NoReview THEN review ELSE [review EXCEPT !.edited = @ \cup {q}]

(* saveOwnAnswerAction, and draftAnswerAction once the Writer has answered. *)
SaveAnswer(q, text) ==
    /\ q \in 1 .. questions /\ written < MaxWrites
    /\ answers' = Saved(q, text)
    /\ written' = written + 1
    /\ review' = Touched(q)
    /\ request' = [r \in Requests |->
          IF request[r].at = "reading"
          THEN [request[r] EXCEPT !.saved = @ \cup {q}] ELSE request[r]]
    /\ UNCHANGED <<apps, started, questions, split, slipped>>

-----------------------------------------------------------------------------
WrittenTexts == {answers[q] : q \in 1 .. questions} \cap Texts

(* reviewApplicationAction: the answers are read; with none it goes no further. *)
ReadForReview(r) ==
    /\ request[r] = Idle
    /\ WrittenTexts # {}
    /\ Put(r, [at |-> "reading", answers |-> WrittenTexts, saved |-> {}])
    /\ UNCHANGED <<apps, started, questions, answers, written, review,
                   split, slipped>>

(* Mutant: the Critic's quotes are taken on trust. *)
TakesEveryQuote(quotes, read) == quotes

(* keepCheckableFindings, on the answers that were read. *)
Checkable(quotes, read) == quotes \cap read

(* The Critic may quote anything, and what is kept is stored. *)
SaveReview(r, quotes) ==
    /\ request[r].at = "reading"
    /\ review' = [quotes |-> Checkable(quotes, request[r].answers), edited |-> {}]
    /\ slipped' = request[r].saved
    /\ Put(r, Idle)
    /\ UNCHANGED <<apps, started, questions, answers, written, split>>

(* A refusal, an error, the model out of reach: nothing is written. *)
Stop(r) ==
    /\ request[r] # Idle
    /\ Put(r, Idle)
    /\ UNCHANGED <<apps, started, questions, answers, written, review,
                   split, slipped>>

DraftNext ==
    \/ \E r \in Requests :
        \/ Start(r) \/ ReadPositions(r) \/ ReadForReview(r) \/ Stop(r)
        \/ \E a \in Apps : StartApplication(r, a)
        \/ \E n \in 1 .. 2 : AddQuestions(r, n)
        \/ \E quotes \in SUBSET Texts : SaveReview(r, quotes)
    \/ \E q \in Ids, text \in Contents : SaveAnswer(q, text)

DraftSpec == DraftInit /\ [][DraftNext]_draftVars

-----------------------------------------------------------------------------
(* The types of the rows and of the requests. *)
DraftTypeOK ==
    /\ apps \subseteq Apps /\ started \in 0 .. MaxStarts
    /\ questions \in 0 .. MaxQuestions
    /\ answers \in [Ids -> Contents \cup {NoText}]
    /\ written \in 0 .. MaxWrites
    /\ review \in Reviews \cup {NoReview}
    /\ request \in [Requests -> RequestStates]
    /\ split \in BOOLEAN /\ slipped \subseteq Ids

(* "Returns the existing one if there already is one" (startApplication in  *)
(* src/db/workspace.ts): a person's work is split across two applications   *)
(* only by two presses of Start in progress at the same moment.             *)
OnlyRacesSplit == Cardinality(apps) > 1 => split

(* What the page shows of a review: nothing edited since, so all of it      *)
(* reads as current.                                                        *)
ReadsAsCurrent == review # NoReview /\ review.edited = {}
Live(quote) == quote \in WrittenTexts

(* A review that reads as current quotes words that are still in the        *)
(* application, unless an answer was saved while the Critic was reading     *)
(* (keepCheckableFindings, answersEditedSince in src/db/reviews.ts).        *)
QuotesAreLive ==
    ReadsAsCurrent => slipped # {} \/ \A quote \in review.quotes : Live(quote)

(* One fund gets two applications only by two presses of Start in progress  *)
(* at one moment, and a review that reads as current quotes what is         *)
(* written, unless an answer was saved while the Critic was reading         *)
(* (startApplication in src/db/workspace.ts, src/db/reviews.ts).            *)
OneWorkUnderReview == OnlyRacesSplit /\ QuotesAreLive

(* "The panel says so instead of presenting a stale reading as current"     *)
(* (app/applications/[id]/ReviewPanel.tsx).                                 *)
StaleReadingIsMarked == ReadsAsCurrent => \A quote \in review.quotes : Live(quote)
=============================================================================
