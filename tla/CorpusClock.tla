------------------------------ MODULE CorpusClock ------------------------------
(***************************************************************************)
(* What the product says the grant record is doing: the four timestamps of *)
(* the corpus_load row, the steps that write them, and corpusStanding,     *)
(* which the applicant's search, the operator's console and /api/corpus    *)
(* all show.                                                               *)
(*                                                                         *)
(* A timestamp is modelled by its age in units of twelve hours, counted up *)
(* to Old (just over the 36 hours of STALLED_AFTER_HOURS): that is all     *)
(* corpusStanding can tell apart.  A step never lives as long as one unit  *)
(* (the platform stops it after 300 seconds), so time does not pass while  *)
(* one is in flight.                                                       *)
(***************************************************************************)
EXTENDS Naturals

CONSTANTS
    Never,         \* a NULL timestamp
    BeforeProgress \* TRUE: the row may have been written before migration 0026

ASSUME ClockAssumption ==
    /\ Never \notin Nat
    /\ BeforeProgress \in BOOLEAN

VARIABLES
    startedAt, updatedAt, progressedAt, finishedAt, \* ages of the row's timestamps
    inFlight,      \* steps between their claim and their record
    \* History, for stating properties:
    quiet          \* age of the last thing that moved: the start, or progress

clocks == <<startedAt, updatedAt, progressedAt, finishedAt>>
clockVars == <<startedAt, updatedAt, progressedAt, finishedAt, inFlight, quiet>>

StalledAfter == 3  \* STALLED_AFTER_HOURS
Old == StalledAfter + 1
Ages == 0..Old
Stamp == Ages \cup {Never}
MaxInFlight == 2   \* bound: overlapping steps

(* ?? in corpusStanding: the first timestamp that is not null. *)
Or(stamp, other) == IF stamp = Never THEN other ELSE stamp

(* Mutants: an attempt counts as progress; only the start is looked at. *)
LastAttempt == Or(updatedAt, Or(progressedAt, startedAt))
LastStart == startedAt

(* The progress clock, then the attempt clock, then the start. *)
LastMoved == Or(progressedAt, Or(updatedAt, startedAt))

(* corpusStanding: complete over everything, otherwise by what moved last. *)
Standing ==
    IF startedAt = Never THEN "never_started"
    ELSE IF finishedAt # Never THEN "complete"
    ELSE IF LastMoved <= StalledAfter THEN "filling"
    ELSE "stalled"

ClockInit ==
    /\ inFlight = 0
    /\ finishedAt = Never
    /\ progressedAt = Never
    /\ \/ startedAt = Never /\ updatedAt = Never /\ quiet = Never
       \/ BeforeProgress /\ startedAt \in Ages /\ updatedAt \in 0..startedAt
          /\ quiet = startedAt

-----------------------------------------------------------------------------
(* claimCorpusStep: the attempt clock is written before the work.  The      *)
(* lease interval is far shorter than one unit of time.                     *)
Claim ==
    /\ finishedAt = Never
    /\ inFlight < MaxInFlight
    /\ startedAt' = Or(startedAt, 0)
    /\ updatedAt' = 0
    /\ inFlight' = inFlight + 1
    /\ quiet' = Or(quiet, 0)
    /\ UNCHANGED <<progressedAt, finishedAt>>

(* The operator's step by hand takes no lease and writes nothing yet. *)
StepByHand ==
    /\ inFlight < MaxInFlight
    /\ inFlight' = inFlight + 1
    /\ UNCHANGED <<clocks, quiet>>

(* Mutant: the record inserts a row that is not there. *)
AlwaysARow == FALSE

(* The UPDATE of recordCorpusStep finds nothing to write. *)
NoRow == startedAt = Never

(* recordCorpusStep: the progress clock moves only when a funder was read   *)
(* or an award written; finished_at is set or cleared.  An UPDATE of a row  *)
(* that does not exist writes nothing.                                      *)
Record(moved, finished) ==
    /\ inFlight > 0
    /\ inFlight' = inFlight - 1
    /\ IF NoRow
       THEN UNCHANGED <<clocks, quiet>>
       ELSE /\ updatedAt' = 0
            /\ progressedAt' = IF moved THEN 0 ELSE progressedAt
            /\ finishedAt' = IF finished THEN 0 ELSE Never
            /\ quiet' = IF moved THEN 0 ELSE quiet
            /\ UNCHANGED startedAt

(* The step dies before its record. *)
Die ==
    /\ inFlight > 0
    /\ inFlight' = inFlight - 1
    /\ UNCHANGED <<clocks, quiet>>

(* startCorpusLoad. *)
Restart ==
    /\ startedAt' = 0
    /\ updatedAt' = Never
    /\ progressedAt' = Never
    /\ finishedAt' = Never
    /\ quiet' = 0
    /\ UNCHANGED inFlight

Older(stamp) == IF stamp = Never \/ stamp = Old THEN stamp ELSE stamp + 1

TwelveHoursPass ==
    /\ inFlight = 0
    /\ startedAt' = Older(startedAt)
    /\ updatedAt' = Older(updatedAt)
    /\ progressedAt' = Older(progressedAt)
    /\ finishedAt' = Older(finishedAt)
    /\ quiet' = Older(quiet)
    /\ UNCHANGED inFlight

ClockNext ==
    \/ Claim \/ StepByHand \/ Die \/ Restart \/ TwelveHoursPass
    \/ \E moved, finished \in BOOLEAN : Record(moved, finished)

ClockSpec == ClockInit /\ [][ClockNext]_clockVars

-----------------------------------------------------------------------------
(* The types of the timestamps, the steps in flight and the history; no     *)
(* timestamp is set in a row that does not exist.                           *)
ClockTypeOK ==
    /\ {startedAt, updatedAt, progressedAt, finishedAt, quiet} \subseteq Stamp
    /\ inFlight \in 0..MaxInFlight
    /\ startedAt = Never => {updatedAt, progressedAt, finishedAt} = {Never}

(* A record that has ever moved is called filling only while it is moving:  *)
(* a visitor who claims a step that reads nothing does not make a stopped   *)
(* load look alive (db/corpus.ts, "progressedAt, not updatedAt").           *)
FillingHasMoved ==
    Standing = "filling" /\ progressedAt # Never => quiet <= StalledAfter

(* A load is never called stalled within 36 hours of its start or of its    *)
(* last progress, so the daily cron alone never raises the alarm.           *)
StalledIsReal == Standing = "stalled" => quiet = Old

(* The standing a page shows is one the load has earned (corpusStanding).   *)
FillingIsHonest == FillingHasMoved /\ StalledIsReal
=============================================================================
