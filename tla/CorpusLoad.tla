------------------------------ MODULE CorpusLoad ------------------------------
(***************************************************************************)
(* The walk that assembles the local grant record from 360Giving's list of *)
(* funders: db/corpus.ts (the single corpus_load row and its lease),       *)
(* ingestion/threesixtygiving/corpus.ts (one step of the walk) and the     *)
(* three things that start a step: a page visit, the scheduled route and   *)
(* the operator's "run one step" button.                                   *)
(*                                                                         *)
(* Every database round trip is an action of its own: another step, a      *)
(* restart, a crash or the passing of the lease interval may come between  *)
(* any two of them.  A step keeps what it read and counted in local        *)
(* variables (step[s]) and writes the row once, at its end.                *)
(*                                                                         *)
(* Funders are their offsets 1..listed in 360Giving's list.  The rows of   *)
(* corpus_load that only describe (last_error, last_org_id, the clocks of  *)
(* CorpusClock, the award and truncation totals) are left out.             *)
(***************************************************************************)
EXTENDS Integers, FiniteSets

CONSTANTS
    Steps,        \* step invocations that may be in flight together
    FirstListed,  \* length of 360Giving's funder list to begin with
    MaxListed,    \* bound: how long that list may grow
    PageSize,     \* funders asked for in one list page
    Endings,      \* bound: the ways of reading a funder that occur
    NoOrgId,      \* offsets whose list entry carries no org_id
    MaxRestarts,  \* bound: deliberate restarts by an operator
    MaxSetbacks   \* bound: steps that die, or stop before their first funder

(* How reading and storing one funder can end.  "stored" is everything up to *)
(* the step's own page cap; "cut short" is a read that their end stopped     *)
(* after the first page: what was read may be stored.  missed stands for     *)
(* funders_failed + funders_unlicensed; a read cut short whose rows state no *)
(* licence, or whose transaction then fails, is counted twice.               *)
Outcomes == {"stored", "unlicensed", "failed", "cut short", "cut short, not stored"}

ASSUME CorpusAssumption ==
    /\ FirstListed \in Nat
    /\ MaxListed \in Nat
    /\ FirstListed <= MaxListed
    /\ PageSize \in Nat \ {0}
    /\ NoOrgId \subseteq 1..MaxListed
    /\ Endings \subseteq Outcomes
    /\ MaxRestarts \in Nat
    /\ MaxSetbacks \in Nat

(* Entries without an org_id never fill a list page by themselves: a page   *)
(* is fifty entries in the code.                                            *)
ASSUME PageAssumption == Cardinality(NoOrgId) < PageSize

VARIABLES
    row,            \* the corpus_load row
    sinceAttempt,   \* how old updated_at is, in lease terms
    listed,         \* length of the list 360Giving serves now
    step,           \* per step: program counter and local variables
    setbacks,       \* steps killed, or ended with nothing walked, so far
    \* History, for stating properties:
    everWalked,     \* funders some step has tried to read, ever
    walkedThisLoad, \* ... by a step that began in the current load
    held,           \* funders whose complete record has been stored
    grants,         \* lease grants since the interval last moved on
    lateRecord      \* a step of an earlier load recorded into this one

history == <<everWalked, walkedThisLoad, held, grants, lateRecord>>
vars == <<row, sinceAttempt, listed, step, setbacks, everWalked,
          walkedThisLoad, held, grants, lateRecord>>

-----------------------------------------------------------------------------
NoTotal == -1        \* funders_total IS NULL
Kinds == {"visit", "cron"}

(* Mutant: a read cut short counts as complete. *)
MissedSilently(outcome) == IF outcome \in {"unlicensed", "failed"} THEN 1 ELSE 0

Missed(outcome) ==
    CASE outcome = "stored" -> 0
      [] outcome = "cut short, not stored" -> 2
      [] OTHER -> 1

(* updated_at is older than nothing (0), the scheduler's 30 seconds (1) or a *)
(* visit's 90 seconds (2).  NULL counts as older than everything.            *)
Ages == 0..2
MinAge(kind) == IF kind = "cron" THEN 1 ELSE 2

(* Mutants: the lease ignores the last attempt, or that the load is done. *)
ClaimableAnyTime(kind) == ~row.finished
ClaimableWhenDone(kind) == ~row.started \/ sinceAttempt >= MinAge(kind)

(* The WHERE of the lease: nobody has started a load, or it is unfinished   *)
(* and the last attempt is old enough.                                      *)
Claimable(kind) ==
    ~row.started \/ (~row.finished /\ sinceAttempt >= MinAge(kind))

EmptyRow ==
    [started |-> FALSE, load |-> 0, cursor |-> 0, total |-> NoTotal,
     done |-> 0, missed |-> 0, finished |-> FALSE]

Idle ==
    [pc |-> "idle", kind |-> "visit", load |-> 0, from |-> 0, cursor |-> 0,
     total |-> NoTotal, page |-> {}, missed |-> 0, finished |-> FALSE]

(* Mutant: the page starts one entry late. *)
PageAtNext(offset) ==
    {p \in 1..listed : offset + 1 < p /\ p <= offset + 1 + PageSize} \ NoOrgId

(* What fetchFunderPage returns at an offset: the list entries that name an *)
(* organisation.  Entries without an org_id are dropped from the page, but  *)
(* they still take up their place in the list.                              *)
PageAt(offset) ==
    {p \in 1..listed : offset < p /\ p <= offset + PageSize} \ NoOrgId

(* The two ways the end is reached: their count, which is the cheaper, and  *)
(* a page with nobody on it.                                                *)
Reached(total, cursor) == total # NoTotal /\ cursor >= total

(* Mutants: a short page is taken for the last; only the count is believed. *)
ExhaustedWhenShort(page) == Cardinality(page) < PageSize
NeverExhausted(page) == FALSE
Exhausted(page) == page = {}

(* Mutant: the difference the wrong way round. *)
WalkedBackwards(t) == t.from - t.cursor

(* progress.walked of a step: the funders it moved past. *)
Walked(t) == t.cursor - t.from

Init ==
    /\ row = EmptyRow
    /\ sinceAttempt = 2
    /\ listed = FirstListed
    /\ step = [s \in Steps |-> Idle]
    /\ setbacks = 0
    /\ everWalked = {}
    /\ walkedThisLoad = {}
    /\ held = {}
    /\ grants = 0
    /\ lateRecord = FALSE

-----------------------------------------------------------------------------
(* A visit or the scheduler reads the row first, in its own transaction.    *)
(* A finished load sends it away.                                           *)
Nudge(s, kind) ==
    /\ step[s].pc = "idle"
    /\ ~row.finished
    /\ step' = [step EXCEPT ![s] = [Idle EXCEPT !.pc = "nudged", !.kind = kind]]
    /\ UNCHANGED <<row, sinceAttempt, listed, setbacks, history>>

(* The lease: one INSERT ... ON CONFLICT ... WHERE, so the test and the     *)
(* claim are one step.  It starts a load that nobody has started.           *)
ClaimWins(s) ==
    /\ step[s].pc = "nudged"
    /\ Claimable(step[s].kind)
    /\ row' = [row EXCEPT !.started = TRUE]
    /\ sinceAttempt' = 0
    /\ step' = [step EXCEPT ![s] = [Idle EXCEPT !.pc = "claimed"]]
    /\ grants' = grants + 1
    /\ UNCHANGED <<listed, setbacks, everWalked, walkedThisLoad, held, lateRecord>>

ClaimRefused(s) ==
    /\ step[s].pc = "nudged"
    /\ ~Claimable(step[s].kind)
    /\ step' = [step EXCEPT ![s] = Idle]
    /\ UNCHANGED <<row, sinceAttempt, listed, setbacks, history>>

(* The operator's button runs a step without asking for the lease. *)
StepByHand(s) ==
    /\ step[s].pc = "idle"
    /\ step' = [step EXCEPT ![s] = [Idle EXCEPT !.pc = "claimed"]]
    /\ UNCHANGED <<row, sinceAttempt, listed, setbacks, history>>

(* advanceCorpus reads the row again, after the claim: where to carry on.   *)
ReadCursor(s) ==
    /\ step[s].pc = "claimed"
    /\ step' = [step EXCEPT ![s] =
                  [@ EXCEPT !.pc = "paging", !.load = row.load,
                            !.from = row.cursor, !.cursor = row.cursor,
                            !.total = row.total]]
    /\ UNCHANGED <<row, sinceAttempt, listed, setbacks, history>>

(* The next page of the funder list, with or without a count.  An empty     *)
(* page finishes the walk.                                                  *)
FetchPage(s) ==
    /\ step[s].pc = "paging"
    /\ \E count \in {NoTotal, listed} :
         LET page  == PageAt(step[s].cursor)
             total == IF count = NoTotal THEN step[s].total ELSE count
         IN step' = [step EXCEPT ![s] =
                       [@ EXCEPT !.pc = IF Exhausted(page) THEN "recording" ELSE "walking",
                                 !.page = page, !.total = total,
                                 !.finished = Exhausted(page)]]
    /\ UNCHANGED <<row, sinceAttempt, listed, setbacks, history>>

(* Stopping before the first funder is a setback, and setbacks are bounded. *)
MayStop(s) ==
    IF step[s].cursor > step[s].from
    THEN UNCHANGED setbacks
    ELSE setbacks < MaxSetbacks /\ setbacks' = setbacks + 1

(* Mutant: a step that stops starts the list again. *)
StopAtTheTop(s) ==
    /\ step[s].pc = "paging"
    /\ MayStop(s)
    /\ step' = [step EXCEPT ![s].pc = "recording", ![s].cursor = 0]
    /\ UNCHANGED <<row, sinceAttempt, listed, history>>

(* The list itself cannot be read, or the deadline (or the funder count) of *)
(* the step has passed: stop here, with the cursor where it is.             *)
StopPaging(s) ==
    /\ step[s].pc = "paging"
    /\ MayStop(s)
    /\ step' = [step EXCEPT ![s].pc = "recording"]
    /\ UNCHANGED <<row, sinceAttempt, listed, history>>

(* One funder of the page.  The cursor moves before the fetch, so a funder  *)
(* that throws does not block the walk.  The write is a transaction of its  *)
(* own (module AwardShelf).                                                 *)
WalkFunder(s) ==
    /\ step[s].pc = "walking"
    /\ \E p \in step[s].page, outcome \in Endings :
         /\ \A q \in step[s].page : p <= q
         /\ step' = [step EXCEPT ![s] =
                [step[s] EXCEPT !.page = @ \ {p},
                                !.cursor = @ + 1,
                                !.missed = @ + Missed(outcome)]]
         /\ held' = IF outcome = "stored" THEN held \cup {p} ELSE held
         /\ everWalked' = everWalked \cup {p}
         /\ walkedThisLoad' = IF step[s].load = row.load
                              THEN walkedThisLoad \cup {p} ELSE walkedThisLoad
    /\ UNCHANGED <<row, sinceAttempt, listed, setbacks, grants, lateRecord>>

(* The page is done, or time ran out in the middle of it.  Either way the   *)
(* count is compared before the loop is asked for another page.             *)
LeavePage(s) ==
    /\ step[s].pc = "walking"
    /\ IF step[s].page = {} THEN UNCHANGED setbacks ELSE MayStop(s)
    /\ LET reached == Reached(step[s].total, step[s].cursor)
       IN step' = [step EXCEPT ![s] =
                     [@ EXCEPT !.pc = IF reached \/ step[s].page # {}
                                      THEN "recording" ELSE "paging",
                               !.page = {}, !.finished = reached]]
    /\ UNCHANGED <<row, sinceAttempt, listed, history>>

(* recordCorpusStep: the cursor is written as the absolute offset this step *)
(* reached, the counters are added to, and finished_at is set or cleared.   *)
(* It is an UPDATE: with no row there is nothing to write.                  *)
Record(s) ==
    /\ step[s].pc = "recording"
    /\ IF row.started
       THEN /\ row' = [row EXCEPT
                         !.cursor = step[s].cursor,
                         !.total = IF step[s].total = NoTotal THEN @ ELSE step[s].total,
                         !.done = @ + Walked(step[s]),
                         !.missed = @ + step[s].missed,
                         !.finished = step[s].finished]
            /\ sinceAttempt' = 0
            /\ lateRecord' = (lateRecord \/ step[s].load # row.load)
       ELSE UNCHANGED <<row, sinceAttempt, lateRecord>>
    /\ step' = [step EXCEPT ![s] = Idle]
    /\ UNCHANGED <<listed, setbacks, everWalked, walkedThisLoad, held, grants>>

(* The function is killed, or the database call throws, before the record:  *)
(* the awards already stored stay, everything the step counted is lost.     *)
Crash(s) ==
    /\ step[s].pc # "idle"
    /\ setbacks < MaxSetbacks
    /\ setbacks' = setbacks + 1
    /\ step' = [step EXCEPT ![s] = Idle]
    /\ UNCHANGED <<row, sinceAttempt, listed, history>>

(* startCorpusLoad: counters reset, nothing deleted, and claimable at once. *)
Restart ==
    /\ row.load < MaxRestarts
    /\ row' = [EmptyRow EXCEPT !.started = TRUE, !.load = row.load + 1]
    /\ sinceAttempt' = 2
    /\ walkedThisLoad' = {}
    /\ grants' = 0
    /\ lateRecord' = FALSE
    /\ UNCHANGED <<listed, step, setbacks, everWalked, held>>

(* The shorter lease interval passes, then the longer. *)
TimePasses ==
    /\ sinceAttempt < 2
    /\ sinceAttempt' = sinceAttempt + 1
    /\ grants' = 0
    /\ UNCHANGED <<row, listed, step, setbacks, everWalked, walkedThisLoad,
                   held, lateRecord>>

(* 360Giving publish another funder while the walk is in progress. *)
ListGrows ==
    /\ listed < MaxListed
    /\ listed' = listed + 1
    /\ UNCHANGED <<row, sinceAttempt, step, setbacks, history>>

StepActions(s) ==
    \/ \E kind \in Kinds : Nudge(s, kind)
    \/ ClaimWins(s) \/ ClaimRefused(s) \/ StepByHand(s) \/ ReadCursor(s)
    \/ FetchPage(s) \/ StopPaging(s) \/ WalkFunder(s) \/ LeavePage(s)
    \/ Record(s) \/ Crash(s)

Next ==
    \/ \E s \in Steps : StepActions(s)
    \/ Restart \/ TimePasses \/ ListGrows

Spec == Init /\ [][Next]_vars

-----------------------------------------------------------------------------
Offsets == 1..MaxListed

StepType ==
    [pc : {"idle", "nudged", "claimed", "paging", "walking", "recording"},
     kind : Kinds, load : Nat, from : Nat, cursor : Nat, total : Nat \cup {NoTotal},
     page : SUBSET Offsets, missed : Nat, finished : BOOLEAN]

RowType ==
    [started : BOOLEAN, load : Nat, cursor : Nat, total : Nat \cup {NoTotal},
     done : Nat, missed : Nat, finished : BOOLEAN]

(* The types of the row, of every step in flight and of the history. *)
TypeOK ==
    /\ row \in RowType
    /\ sinceAttempt \in Ages
    /\ listed \in 0..MaxListed
    /\ step \in [Steps -> StepType]
    /\ setbacks \in Nat
    /\ everWalked \subseteq Offsets
    /\ walkedThisLoad \subseteq Offsets
    /\ held \subseteq Offsets
    /\ grants \in Nat
    /\ lateRecord \in BOOLEAN

Below(offset) == {p \in Offsets \ NoOrgId : p <= offset}

(* Every funder below the recorded cursor has really been tried by some     *)
(* step, whatever overlapped, died or was restarted: "a step that dies      *)
(* leaves cursor where it was, and the next step redoes that funder"        *)
(* (db/migrations/0013_corpus_load.sql).                                    *)
CursorCovered == Below(row.cursor) \subseteq everWalked

(* A step that declares the walk finished knows of no funder nobody tried:  *)
(* neither a stale count, a page with nameless entries nor a step that died *)
(* ends the walk short of the list length the step was told.                *)
FinishedMeansListRead ==
    \A s \in Steps : step[s].finished => Below(step[s].total) \subseteq everWalked

(* What a finished part of the walk is missing is never silent: each funder *)
(* below the cursor whose complete record is not stored is in one of the    *)
(* two counters, as long as no step of an earlier load has recorded into    *)
(* this one.                                                                *)
MissingIsCounted ==
    ~lateRecord => Cardinality(Below(row.cursor) \ held) <= row.missed

(* claimCorpusStep: however many visits and scheduled calls compete, one    *)
(* lease is granted per interval.                                           *)
OneGrantPerInterval == grants <= 1

(* A lease is never granted on a finished load, although the caller's own   *)
(* check of finished_at was made in an earlier transaction.                 *)
NoGrantOnceFinished == [][grants' > grants => ~row.finished]_vars

(* The lease does what it is for: one step per interval, and none once the  *)
(* load has finished (claimCorpusStep in db/corpus.ts).                     *)
LeaseIsSingle == []OneGrantPerInterval /\ NoGrantOnceFinished

(* The offsets the walk may fall back to: the recorded cursor, and where    *)
(* each step in flight began.                                               *)
InFlight == {s \in Steps : step[s].pc \in {"paging", "walking", "recording"}}
Floor == {row.cursor} \cup {step[s].from : s \in InFlight}

(* Within one load the walk never falls further back than the slowest step  *)
(* in flight, so overlapping steps repeat work but cannot undo the walk for *)
(* ever.                                                                    *)
LowWaterRises ==
    [][row'.load = row.load => \A x \in Floor' : \E y \in Floor : y <= x]_vars

-----------------------------------------------------------------------------
(* Fairness.  The daily cron and visits keep asking for a step; a step that *)
(* runs is not frozen; pages are sometimes fetched and a funder sometimes   *)
(* read before the deadline; clocks move.  Setbacks, restarts and the manual *)
(* button are never obliged to happen.                                      *)
Fairness ==
    /\ WF_vars(TimePasses)
    /\ \A s \in Steps :
         /\ SF_vars(Nudge(s, "cron"))
         /\ SF_vars(ClaimWins(s))
         /\ WF_vars(ReadCursor(s))
         /\ WF_vars(FetchPage(s))
         /\ WF_vars(WalkFunder(s))
         /\ WF_vars(LeavePage(s))
         /\ WF_vars(Record(s))
FairSpec == Spec /\ Fairness

(* The walk reaches the end of the list and the load stays finished, once   *)
(* setbacks, restarts and new publishers stop.                               *)
LoadFinishes == <>[]row.finished

-----------------------------------------------------------------------------
(* A claim the code makes and its steps break. *)

(* "A restart re-walks 360Giving's funder list and replaces each funder's   *)
(* awards as it reaches them" (app/admin/funders/corpus-actions.ts): below  *)
(* the cursor, every funder was tried by this load.                         *)
RestartRewalks == Below(row.cursor) \subseteq walkedThisLoad
=============================================================================
