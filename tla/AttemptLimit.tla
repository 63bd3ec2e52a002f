----------------------------- MODULE AttemptLimit -----------------------------
(***************************************************************************)
(* One bucket of the limit on attempts: sign-in, sign-up, the console and  *)
(* reset emails all count failures in rows of auth_attempts                *)
(* (src/domain/auth/throttle.ts, src/db/throttle.ts,                       *)
(* src/app/(auth)/limit.ts).                                               *)
(*                                                                         *)
(* Checking is one transaction before the work, counting is two more after *)
(* it: read the row, write the row with one more.  Attempts overlap.       *)
(*                                                                         *)
(* A moment is modelled by its age in parts of a window, counted up to     *)
(* Oldest: nothing older can be told apart.  A request never lives longer  *)
(* than one part: the platform stops it after 300 seconds, and the         *)
(* shortest window has 900.                                                *)
(***************************************************************************)
EXTENDS Integers

CONSTANTS
    MaxAttempts, \* policy.maxAttempts
    Window,      \* policy.windowSeconds, in parts
    Attempts,    \* attempts in progress at one moment
    NoRecord     \* no row for the bucket

PolicyAssumption ==
    /\ MaxAttempts \in Nat \ {0} /\ Window \in Nat \ {0}
    /\ NoRecord \notin [count : Nat, age : Nat]

VARIABLES
    record,   \* the row: how many failures, and the age of its window's start
    attempts, \* what each attempt has done so far
    \* History:
    counted   \* per age: how many were counted no longer ago than that, up to MaxAttempts

vars == <<record, attempts, counted>>

Oldest == Window + 1
Ages == 0 .. Oldest
Records == [count : Nat \ {0}, age : Ages]
Idle == [at |-> "idle"]
AttemptStates ==
    {Idle, [at |-> "allowed"]}
    \cup [at : {"failed"}, age : 0 .. 1]
    \cup [at : {"counting"}, age : 0 .. 1, read : Records \cup {NoRecord}]

Init ==
    /\ record = NoRecord
    /\ attempts = [a \in Attempts |-> Idle]
    /\ counted = [g \in 0 .. Window - 1 |-> 0]

(* Mutant: the window is never over. *)
NeverExpires(r, age) == FALSE

-----------------------------------------------------------------------------
(* windowExpired, at a moment that is itself `age` old. *)
WindowExpired(r, age) == r.age - age >= Window

IsBlocked(r) == r # NoRecord /\ ~WindowExpired(r, 0) /\ r.count >= MaxAttempts

(* Mutant: one failure too few. *)
BlockedEarly(r) == r # NoRecord /\ ~WindowExpired(r, 0) /\ r.count + 1 >= MaxAttempts

(* Mutant: failures add up for ever. *)
AddsUp(r, age) ==
    IF r = NoRecord THEN [count |-> 1, age |-> age]
    ELSE [count |-> IF r.count > MaxAttempts THEN r.count ELSE r.count + 1,
          age |-> IF WindowExpired(r, age) THEN age ELSE r.age]

(* recordFailure: one more in the window, or the first of a new one.        *)
OneMore(r, age) ==
    IF r = NoRecord \/ WindowExpired(r, age)
    THEN [count |-> 1, age |-> age]
    ELSE [count |-> r.count + 1, age |-> r.age]

Put(a, state) == attempts' = [attempts EXCEPT ![a] = state]

(* checkSignInLimit, before anything is hashed. *)
Check(a) ==
    /\ attempts[a] = Idle
    /\ ~IsBlocked(record)
    /\ Put(a, [at |-> "allowed"])
    /\ UNCHANGED <<record, counted>>

(* The attempt is wrong: bump takes the time first. *)
Fail(a) ==
    /\ attempts[a].at = "allowed"
    /\ Put(a, [at |-> "failed", age |-> 0])
    /\ UNCHANGED <<record, counted>>

ReadAttempt(a) ==
    /\ attempts[a].at = "failed"
    /\ Put(a, [at |-> "counting", age |-> attempts[a].age, read |-> record])
    /\ UNCHANGED <<record, counted>>

WriteAttempt(a) ==
    /\ attempts[a].at = "counting"
    /\ record' = OneMore(attempts[a].read, attempts[a].age)
    /\ Put(a, Idle)
    /\ counted' = [g \in DOMAIN counted |->
                    IF counted[g] = MaxAttempts THEN counted[g] ELSE counted[g] + 1]

(* The attempt is right: an address's bucket is forgotten; an origin's is   *)
(* not, and the attempt just stops.                                         *)
Succeed(a) ==
    /\ attempts[a].at = "allowed"
    /\ record' = NoRecord
    /\ Put(a, Idle)
    /\ UNCHANGED counted

Stop(a) ==
    /\ attempts[a] # Idle
    /\ Put(a, Idle)
    /\ UNCHANGED <<record, counted>>

(* sweepOccasionally: a bucket long past its window. *)
Sweep ==
    /\ record # NoRecord /\ record.age = Oldest
    /\ record' = NoRecord
    /\ UNCHANGED <<attempts, counted>>

-----------------------------------------------------------------------------
Older(age) == IF age = Oldest THEN age ELSE age + 1
OlderRecord(r) == IF r = NoRecord THEN r ELSE [r EXCEPT !.age = Older(r.age)]

OlderAttempt(k) ==
    CASE k.at = "failed" /\ k.age = 0   -> [k EXCEPT !.age = 1]
      [] k.at = "counting" /\ k.age = 0 -> [k EXCEPT !.age = 1, !.read = OlderRecord(k.read)]
      [] k.at = "allowed"               -> k
      [] OTHER                          -> Idle

TimePasses ==
    /\ record' = OlderRecord(record)
    /\ attempts' = [a \in Attempts |-> OlderAttempt(attempts[a])]
    /\ counted' = [g \in DOMAIN counted |-> IF g = 0 THEN 0 ELSE counted[g - 1]]

Next ==
    \/ \E a \in Attempts :
        Check(a) \/ Fail(a) \/ ReadAttempt(a) \/ WriteAttempt(a) \/ Succeed(a) \/ Stop(a)
    \/ Sweep
    \/ TimePasses

(* Time passes whatever the requests do. *)
Spec == Init /\ [][Next]_vars /\ WF_vars(TimePasses)

-----------------------------------------------------------------------------
(* The types of the row and of the attempts in progress. *)
TypeOK ==
    /\ record \in Records \cup {NoRecord}
    /\ attempts \in [Attempts -> AttemptStates]
    /\ counted \in [0 .. Window - 1 -> 0 .. MaxAttempts]

(* However attempts overlap, however late a count is written and whatever   *)
(* is forgotten in between: nobody is told to wait before MaxAttempts       *)
(* failures were counted in the window they are told to wait for.           *)
NobodyBlockedEarly == IsBlocked(record) => counted[record.age] >= MaxAttempts

(* "Short and self-healing rather than a lockout" (domain/auth/throttle.ts):*)
(* a blocked bucket opens again by time alone.                              *)
BlockIsLifted == []<>~IsBlocked(record)
=============================================================================
