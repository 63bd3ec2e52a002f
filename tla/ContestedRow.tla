----------------------------- MODULE ContestedRow -----------------------------
(***************************************************************************)
(* Six small machines around rows that many read and write: a funder's    *)
(* shelf of awards (AwardShelf), what the pages make of the awards on the  *)
(* shelves (Prospects), the timestamps of the load (CorpusClock), one      *)
(* bucket of the limit on attempts (AttemptLimit), the start of a          *)
(* deployment with its connections (Serving), and the calls to the world   *)
(* outside (Fetching).  They share no state, so `focus` picks one of them  *)
(* at the start and the others rest.                                       *)
(***************************************************************************)
EXTENDS AwardShelf, Prospects, CorpusClock, Serving

CONSTANTS
    MaxAttempts, Window, Attempts, NoRecord,        \* of AttemptLimit
    Calls, Addresses, Resolved, MinInterval, Timeouts,          \* of Fetching
    MaxRedirects, MaxBytes, MaxTries, Off, Nowhere

VARIABLES
    focus,
    record, attempts, counted,
    call, chain, since

Limit == INSTANCE AttemptLimit
Net == INSTANCE Fetching WITH MaxAttempts <- MaxTries

ASSUME OthersAssumption ==
    Limit!PolicyAssumption /\ Net!FetchingAssumption

limitVars == <<record, attempts, counted>>
netVars == <<call, chain, since>>
allVars == <<focus, vars, clockVars, limitVars, servingVars, prospectVars, netVars>>

\* Where a machine that is not looked at rests.
Unsaid == <<CHOOSE p \in Somewhere : TRUE, CHOOSE p \in Projects : TRUE, CHOOSE d \in Days : TRUE>>

RowsInit ==
    /\ focus \in {"shelf", "clock", "limit", "serving", "prospects", "calls"}
    /\ Init /\ ClockInit /\ Limit!Init /\ ServingInit /\ ProspectsInit
    /\ Net!FetchingInit
    /\ focus # "clock" => startedAt = Never
    /\ focus # "serving" => ~table
    /\ focus # "prospects" => <<where, project, today>> = Unsaid

ShelfStep ==
    focus = "shelf" /\ Next
    /\ UNCHANGED <<focus, clockVars, limitVars, servingVars, prospectVars, netVars>>
ClockStep ==
    focus = "clock" /\ ClockNext
    /\ UNCHANGED <<focus, vars, limitVars, servingVars, prospectVars, netVars>>
LimitStep ==
    focus = "limit" /\ Limit!Next
    /\ UNCHANGED <<focus, vars, clockVars, servingVars, prospectVars, netVars>>
ProspectStep ==
    focus = "prospects" /\ ProspectsNext
    /\ UNCHANGED <<focus, vars, clockVars, limitVars, servingVars, netVars>>
ServeStep ==
    focus = "serving" /\ ServingNext
    /\ UNCHANGED <<focus, vars, clockVars, limitVars, prospectVars, netVars>>
CallStep ==
    focus = "calls" /\ Net!FetchingNext
    /\ UNCHANGED <<focus, vars, clockVars, limitVars, servingVars, prospectVars>>

RowsNext == ShelfStep \/ ClockStep \/ LimitStep \/ ServeStep \/ ProspectStep \/ CallStep

(* Time passes whatever the requests do. *)
LimitTimePasses ==
    focus = "limit" /\ Limit!TimePasses
    /\ UNCHANGED <<focus, vars, clockVars, servingVars, prospectVars, netVars>>

(* What ServingSpec obliges: builds and transactions that run go on. *)
Others == <<focus, vars, clockVars, limitVars, prospectVars, netVars>>
BuildGoesOn(i) == focus = "serving" /\ BuildStep(i) /\ UNCHANGED Others
WaitEnds(r) == focus = "serving" /\ (Connect(r) \/ TimeOut(r)) /\ UNCHANGED Others
Finishes(r) == focus = "serving" /\ Finish(r) /\ UNCHANGED Others

(* What FetchingSpec obliges: what is due happens and the clock goes on.   *)
NotCalls == <<focus, vars, clockVars, limitVars, servingVars, prospectVars>>
ClockTicks == focus = "calls" /\ Net!Tick /\ UNCHANGED NotCalls
CallGoesOn(c) == focus = "calls" /\ Net!GoesOn(c) /\ UNCHANGED NotCalls

RowsSpec ==
    /\ RowsInit
    /\ [][RowsNext]_allVars
    /\ WF_allVars(LimitTimePasses)
    /\ \A i \in Instances : WF_allVars(BuildGoesOn(i))
    /\ \A r \in Requests : WF_allVars(WaitEnds(r)) /\ WF_allVars(Finishes(r))
    /\ WF_allVars(ClockTicks) /\ \A c \in Calls : WF_allVars(CallGoesOn(c))

-----------------------------------------------------------------------------
(* The six machines keep their types. *)
TypesOK ==
    /\ TypeOK /\ ClockTypeOK /\ Limit!TypeOK
    /\ ServingTypeOK /\ ProspectsTypeOK /\ Net!FetchingTypeOK

(* Nobody is told to wait before MaxAttempts failures were counted in the   *)
(* window they wait for (bump in src/app/(auth)/limit.ts,                   *)
(* src/domain/auth/throttle.ts).                                            *)
BlocksAreJust == Limit!NobodyBlockedEarly

(* The order of the cards is one that a sort may be handed, the pages that  *)
(* compare the ask with a funder's giving agree, and an award that speaks   *)
(* for a funder never moves it down (src/domain/prospect/match.ts,          *)
(* src/domain/grants/funders.ts).                                           *)
CardsAreFair ==
    [](focus = "prospects" => ReadingOrderIsSound /\ SizesAgree) /\ EvidenceNeverCosts

(* Calls to the world outside go out one at a time and spaced where they    *)
(* must, connect only where they may, and pass nothing on that was not sent *)
(* whole (src/ingestion/threesixtygiving/http.ts, src/ingestion/web/fetch.ts,*)
(* src/ingestion/companieshouse/client.ts, src/ai/run.ts).                  *)
CallsAreCareful ==
    [](Net!NothingHalfRead /\ Net!GoesWhereItMay /\ Net!OneAtATime) /\ Net!Spaced

(* Whoever waits, waits for an end: a blocked bucket opens again by time    *)
(* alone, a process that people keep coming to serves in the end and who    *)
(* asks it is answered, and every call to the world outside ends, those     *)
(* behind a failed one included (src/domain/auth/throttle.ts,               *)
(* src/db/index.ts, src/ingestion/threesixtygiving/http.ts).                *)
WaitsEnd == Limit!BlockIsLifted /\ ServesInTheEnd /\ Net!EveryCallEnds
=============================================================================
