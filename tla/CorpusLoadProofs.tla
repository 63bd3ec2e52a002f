--------------------------- MODULE CorpusLoadProofs ---------------------------
(***************************************************************************)
(* Proofs about CorpusLoad for every number of overlapping steps, every    *)
(* list, page size, number of restarts and number of setbacks.             *)
(*                                                                         *)
(* CursorCovered says something of the row alone, and is not inductive: a  *)
(* step may overwrite the cursor with the offset it reached.  IInv adds    *)
(* what every step in flight keeps true of its local variables.  The other *)
(* properties rest on it, each with an invariant of its own: LeaseInv      *)
(* (what a grant leaves behind in the row), the floors under the row and   *)
(* under each step, EndInv (what a step knows of the end of the list) and  *)
(* CountInv (what a step and the row owe the counters).                    *)
(***************************************************************************)
EXTENDS CorpusLoad, FiniteSetTheorems, TLAPS

(* The step began at an offset, and never goes back from it. *)
Forward(t) == t.from <= t.cursor

(* Everything below the offset a step reached has been tried. *)
Covered(t) == \A q \in Offsets \ NoOrgId : q <= t.cursor => q \in everWalked

(* The rest of its page lies ahead of the step, and nothing is left out     *)
(* below any funder of the page.                                            *)
PageAhead(t) == \A p \in t.page : t.cursor < p
NoGaps(t) ==
    \A p \in t.page, q \in Offsets \ NoOrgId :
        q <= p => q \in everWalked \cup t.page

(* A page is in hand only while it is walked. *)
PageInHand(t) == t.pc # "walking" => t.page = {}

StepInv(t) == PageInHand(t) /\ Forward(t) /\ Covered(t) /\ PageAhead(t) /\ NoGaps(t)

IInv ==
    /\ TypeOK
    /\ CursorCovered
    /\ \A s \in Steps : StepInv(step[s])

-----------------------------------------------------------------------------
LEMMA IdleInv == Idle \in StepType /\ StepInv(Idle)
  BY DEF Idle, StepType, Kinds, StepInv, Forward, Covered, PageAhead,
         NoGaps, PageInHand, Offsets

LEMMA InitIInv == Init => IInv
<1> SUFFICES ASSUME Init PROVE IInv
  OBVIOUS
<1>1. row \in RowType
  BY DEF Init, EmptyRow, RowType
<1>2. step \in [Steps -> StepType]
  BY IdleInv DEF Init
<1>3. TypeOK
  <2>1. sinceAttempt \in Ages
    BY DEF Init, Ages
  <2>2. listed \in 0..MaxListed
    BY CorpusAssumption DEF Init
  <2>3. setbacks \in Nat /\ grants \in Nat
    BY DEF Init
  <2>4. lateRecord \in BOOLEAN
    BY DEF Init
  <2>5. everWalked \subseteq Offsets /\ walkedThisLoad \subseteq Offsets /\ held \subseteq Offsets
    BY DEF Init
  <2> QED
    BY <1>1, <1>2, <2>1, <2>2, <2>3, <2>4, <2>5 DEF TypeOK
<1>4. CursorCovered
  BY DEF Init, CursorCovered, EmptyRow, Below, Offsets
<1>5. \A s \in Steps : StepInv(step[s])
  BY IdleInv DEF Init
<1> QED
  BY <1>3, <1>4, <1>5 DEF IInv
-----------------------------------------------------------------------------
(* A step that leaves the recorded cursor and the history of walked funders *)
(* alone, and replaces the local variables of one step in flight by others  *)
(* that keep the step invariant.                                            *)
LEMMA LocalStep ==
    ASSUME IInv, NEW s \in Steps, NEW t \in StepType, StepInv(t),
           step' = [step EXCEPT ![s] = t],
           row' \in RowType, row'.cursor = row.cursor, everWalked' = everWalked,
           sinceAttempt' \in Ages, listed' = listed, setbacks' \in Nat,
           walkedThisLoad' = walkedThisLoad, held' = held,
           grants' \in Nat, lateRecord' \in BOOLEAN
    PROVE  IInv'
<1> USE DEF IInv
<1>1. TypeOK'
  BY DEF TypeOK
<1>2. CursorCovered'
  BY DEF CursorCovered, Below
<1>3. ASSUME NEW r \in Steps PROVE StepInv(step[r])'
  <2>1. CASE r = s
    BY <2>1 DEF TypeOK, StepInv, Forward, Covered, PageAhead, NoGaps, PageInHand
  <2>2. CASE r # s
    BY <2>2 DEF TypeOK, StepInv, Forward, Covered, PageAhead, NoGaps, PageInHand
  <2> QED
    BY <2>1, <2>2
<1> QED
  BY <1>1, <1>2, <1>3

LEMMA NudgeStep ==
    ASSUME IInv, NEW s \in Steps, NEW kind \in Kinds, Nudge(s, kind)
    PROVE  IInv'
<1> DEFINE t == [Idle EXCEPT !.pc = "nudged", !.kind = kind]
<1>1. t \in StepType /\ StepInv(t)
  BY IdleInv DEF Idle, StepType, StepInv, Forward, Covered, PageAhead, NoGaps, PageInHand
<1> QED
  BY <1>1, LocalStep DEF Nudge, IInv, TypeOK, history

LEMMA ClaimedIdle ==
    LET t == [Idle EXCEPT !.pc = "claimed"] IN t \in StepType /\ StepInv(t)
  BY IdleInv DEF Idle, StepType, StepInv, Forward, Covered, PageAhead, NoGaps, PageInHand

LEMMA ClaimWinsStep ==
    ASSUME IInv, NEW s \in Steps, ClaimWins(s)
    PROVE  IInv'
<1>1. row' \in RowType /\ row'.cursor = row.cursor
  BY DEF ClaimWins, IInv, TypeOK, RowType
<1>2. sinceAttempt' \in Ages /\ grants' \in Nat
  BY DEF ClaimWins, IInv, TypeOK, Ages
<1> QED
  BY <1>1, <1>2, ClaimedIdle, LocalStep DEF ClaimWins, IInv, TypeOK

LEMMA ClaimRefusedStep ==
    ASSUME IInv, NEW s \in Steps, ClaimRefused(s)
    PROVE  IInv'
  BY IdleInv, LocalStep DEF ClaimRefused, IInv, TypeOK, history

LEMMA StepByHandStep ==
    ASSUME IInv, NEW s \in Steps, StepByHand(s)
    PROVE  IInv'
  BY ClaimedIdle, LocalStep DEF StepByHand, IInv, TypeOK, history

(* A step begins at the recorded cursor, below which all is covered, with   *)
(* no page in hand.                                                         *)
LEMMA ReadCursorStep ==
    ASSUME IInv, NEW s \in Steps, ReadCursor(s)
    PROVE  IInv'
<1> DEFINE t == [step[s] EXCEPT !.pc = "paging", !.load = row.load,
                                !.from = row.cursor, !.cursor = row.cursor,
                                !.total = row.total]
<1>1. t \in StepType
  BY DEF IInv, TypeOK, StepType, RowType
<1>2. step[s].page = {} /\ row.cursor \in Nat
  BY DEF ReadCursor, IInv, StepInv, PageInHand, TypeOK, RowType
<1>3. t.page = {} /\ t.from = row.cursor /\ t.cursor = row.cursor
  BY <1>2 DEF IInv, TypeOK, StepType
<1>4. StepInv(t)
  BY <1>2, <1>3 DEF IInv, CursorCovered, Below, StepInv, Forward, Covered,
                    PageAhead, NoGaps, PageInHand
<1> QED
  BY <1>1, <1>4, LocalStep DEF ReadCursor, IInv, TypeOK, history

(* What fetching a page does to the step's local variables. *)
LEMMA FetchedPage ==
    ASSUME IInv, NEW s \in Steps, FetchPage(s)
    PROVE  \E count \in {NoTotal, listed}, t \in StepType :
             /\ step' = [step EXCEPT ![s] = t]
             /\ t.page = PageAt(step[s].cursor) /\ t.finished = Exhausted(t.page)
             /\ t.pc = IF t.finished THEN "recording" ELSE "walking"
             /\ t.total = IF count = NoTotal THEN step[s].total ELSE count
             /\ t.cursor = step[s].cursor /\ t.from = step[s].from
             /\ t.missed = step[s].missed /\ t.load = step[s].load
<1> DEFINE page == PageAt(step[s].cursor)
<1>1. PICK count \in {NoTotal, listed} :
        step' = [step EXCEPT ![s] =
                   [@ EXCEPT !.pc = IF Exhausted(page) THEN "recording" ELSE "walking",
                             !.page = page,
                             !.total = IF count = NoTotal THEN step[s].total ELSE count,
                             !.finished = Exhausted(page)]]
  BY DEF FetchPage
<1> DEFINE pc == IF Exhausted(page) THEN "recording" ELSE "walking"
           total == IF count = NoTotal THEN step[s].total ELSE count
           finished == Exhausted(page)
           t == [step[s] EXCEPT !.pc = pc, !.page = page, !.total = total,
                                !.finished = finished]
<1>2. page \subseteq Offsets
  BY CorpusAssumption DEF PageAt, Offsets, IInv, TypeOK
<1>3. total \in Nat \cup {NoTotal}
  BY DEF IInv, TypeOK, StepType
<1>4. finished \in BOOLEAN /\ pc \in {"recording", "walking"}
  BY DEF Exhausted
<1>5. step[s] \in StepType
  BY DEF IInv, TypeOK
<1>6. t \in StepType /\ t.page = page /\ t.finished = finished /\ t.pc = pc
      /\ t.total = total /\ t.cursor = step[s].cursor /\ t.from = step[s].from
      /\ t.missed = step[s].missed /\ t.load = step[s].load
  <2> HIDE DEF page, pc, total, finished
  <2> QED
    BY <1>2, <1>3, <1>4, <1>5 DEF StepType
<1> QED
  BY <1>1, <1>6

(* The page fetched holds exactly the named funders just past the cursor,   *)
(* so it leaves no gap above what is covered.                               *)
LEMMA FetchPageStep ==
    ASSUME IInv, NEW s \in Steps, FetchPage(s)
    PROVE  IInv'
<1> DEFINE page == PageAt(step[s].cursor)
<1>1. PICK t \in StepType :
        /\ step' = [step EXCEPT ![s] = t]
        /\ t.page = page /\ t.finished = Exhausted(t.page)
        /\ t.pc = IF t.finished THEN "recording" ELSE "walking"
        /\ t.cursor = step[s].cursor /\ t.from = step[s].from
  BY FetchedPage
<1>2. page # {} => t.pc = "walking"
  BY <1>1 DEF Exhausted
<1>3. NoGaps(t)
  <2> SUFFICES ASSUME NEW p \in page, NEW q \in Offsets \ NoOrgId, q <= p
               PROVE  q \in everWalked \cup page
    BY <1>1 DEF NoGaps
  <2>1. CASE q <= step[s].cursor
    BY <2>1 DEF IInv, StepInv, Covered
  <2>2. CASE ~(q <= step[s].cursor)
    BY <2>2, CorpusAssumption DEF PageAt, Offsets, IInv, TypeOK, StepType
  <2> QED
    BY <2>1, <2>2
<1>4. PageAhead(t) /\ PageInHand(t)
  BY <1>1, <1>2 DEF PageAhead, PageInHand, PageAt, IInv, TypeOK, StepType
<1>5. Forward(t) /\ Covered(t)
  BY <1>1 DEF IInv, StepInv, Forward, Covered
<1> QED
  BY <1>1, <1>3, <1>4, <1>5, LocalStep
  DEF FetchPage, IInv, TypeOK, StepInv, history

LEMMA StopPagingStep ==
    ASSUME IInv, NEW s \in Steps, StopPaging(s)
    PROVE  IInv'
<1> DEFINE t == [step[s] EXCEPT !.pc = "recording"]
<1>1. t \in StepType
  BY DEF IInv, TypeOK, StepType
<1>2. StepInv(t)
  BY DEF StopPaging, IInv, TypeOK, StepType, StepInv, Forward, Covered, PageAhead,
         NoGaps, PageInHand
<1>3. setbacks' \in Nat
  BY DEF StopPaging, MayStop, IInv, TypeOK
<1> QED
  BY <1>1, <1>2, <1>3, LocalStep DEF StopPaging, IInv, TypeOK, history

LEMMA LeavePageStep ==
    ASSUME IInv, NEW s \in Steps, LeavePage(s)
    PROVE  IInv'
<1> DEFINE reached == Reached(step[s].total, step[s].cursor)
           t == [step[s] EXCEPT !.pc = IF reached \/ step[s].page # {}
                                       THEN "recording" ELSE "paging",
                                !.page = {}, !.finished = reached]
<1>1. t \in StepType
  BY DEF IInv, TypeOK, StepType, Reached
<1>2. t.page = {} /\ t.cursor = step[s].cursor /\ t.from = step[s].from
  BY DEF IInv, TypeOK, StepType
<1>3. StepInv(t)
  BY <1>2 DEF IInv, StepInv, Forward, Covered, PageAhead, NoGaps, PageInHand
<1>4. setbacks' \in Nat
  BY DEF LeavePage, MayStop, IInv, TypeOK
<1> QED
  BY <1>1, <1>3, <1>4, LocalStep DEF LeavePage, IInv, TypeOK, history

LEMMA CrashStep ==
    ASSUME IInv, NEW s \in Steps, Crash(s)
    PROVE  IInv'
<1>1. setbacks' \in Nat
  BY DEF Crash, IInv, TypeOK
<1> QED
  BY <1>1, IdleInv, LocalStep DEF Crash, IInv, TypeOK, history

-----------------------------------------------------------------------------
(* A step that changes no step in flight's variables, nor what was walked,  *)
(* keeps their invariants.                                                  *)
LEMMA SameSteps ==
    ASSUME IInv, UNCHANGED <<step, everWalked>>
    PROVE  \A s \in Steps : StepInv(step[s])'
  BY DEF IInv, StepInv, Forward, Covered, PageAhead, NoGaps, PageInHand

(* What walking one funder does to the step's local variables. *)
LEMMA WalkedOne ==
    ASSUME IInv, NEW s \in Steps, WalkFunder(s)
    PROVE  \E p \in step[s].page, outcome \in Endings, t \in StepType :
             /\ \A q \in step[s].page : p <= q
             /\ step' = [step EXCEPT ![s] = t]
             /\ t.page = step[s].page \ {p} /\ t.cursor = step[s].cursor + 1
             /\ t.missed = step[s].missed + Missed(outcome)
             /\ t.pc = step[s].pc /\ t.load = step[s].load /\ t.from = step[s].from
             /\ t.total = step[s].total /\ t.finished = step[s].finished
             /\ held' = IF outcome = "stored" THEN held \cup {p} ELSE held
             /\ everWalked' = everWalked \cup {p}
             /\ walkedThisLoad' = IF step[s].load = row.load
                                  THEN walkedThisLoad \cup {p} ELSE walkedThisLoad
<1>1. PICK p \in step[s].page, outcome \in Endings :
         /\ \A q \in step[s].page : p <= q
         /\ step' = [step EXCEPT ![s] =
                [step[s] EXCEPT !.page = @ \ {p},
                                !.cursor = @ + 1,
                                !.missed = @ + Missed(outcome)]]
         /\ held' = IF outcome = "stored" THEN held \cup {p} ELSE held
         /\ everWalked' = everWalked \cup {p}
         /\ walkedThisLoad' = IF step[s].load = row.load
                              THEN walkedThisLoad \cup {p} ELSE walkedThisLoad
  BY DEF WalkFunder
<1> DEFINE t == [step[s] EXCEPT !.page = @ \ {p},
                                !.cursor = @ + 1,
                                !.missed = @ + Missed(outcome)]
<1>2. step[s] \in StepType /\ step[s].pc = "walking"
  BY DEF WalkFunder, IInv, TypeOK
<1>4. Missed(outcome) \in Nat
  BY DEF Missed
<1>5. t \in StepType
  <2> DEFINE page == step[s].page \ {p}
             cursor == step[s].cursor + 1
             missed == step[s].missed + Missed(outcome)
  <2>1. page \subseteq Offsets /\ cursor \in Nat /\ missed \in Nat
    BY <1>2, <1>4 DEF StepType
  <2>2. t = [step[s] EXCEPT !.page = page, !.cursor = cursor, !.missed = missed]
    BY <1>2 DEF StepType
  <2> HIDE DEF t, page, cursor, missed
  <2> QED
    BY <1>2, <2>1, <2>2 DEF StepType
<1>6. /\ t.page = step[s].page \ {p} /\ t.cursor = step[s].cursor + 1
      /\ t.missed = step[s].missed + Missed(outcome)
      /\ t.pc = step[s].pc /\ t.load = step[s].load /\ t.from = step[s].from
      /\ t.total = step[s].total /\ t.finished = step[s].finished
  BY <1>2 DEF StepType
<1>7. step' = [step EXCEPT ![s] = t]
  BY <1>1
<1> HIDE DEF t
<1> QED
  BY <1>1, <1>5, <1>6, <1>7

(* The funder walked is the lowest of the page, so the cursor still falls   *)
(* short of it or is it, and everything up to it is now tried.              *)
LEMMA WalkFunderStep ==
    ASSUME IInv, NEW s \in Steps, WalkFunder(s)
    PROVE  IInv'
<1>1. PICK p \in step[s].page, outcome \in Endings, t \in StepType :
         /\ \A q \in step[s].page : p <= q
         /\ step' = [step EXCEPT ![s] = t]
         /\ t.page = step[s].page \ {p} /\ t.cursor = step[s].cursor + 1
         /\ t.from = step[s].from /\ t.pc = step[s].pc
         /\ held' = IF outcome = "stored" THEN held \cup {p} ELSE held
         /\ everWalked' = everWalked \cup {p}
         /\ walkedThisLoad' = IF step[s].load = row.load
                              THEN walkedThisLoad \cup {p} ELSE walkedThisLoad
  BY WalkedOne
<1>2. step[s] \in StepType /\ step[s].pc = "walking"
  BY DEF WalkFunder, IInv, TypeOK
<1>3. p \in Offsets
  BY <1>2 DEF StepType
<1>8. StepInv(step[s])'
  <2> DEFINE u == step[s]
  <2>1. u' = t
    BY <1>1 DEF IInv, TypeOK
  <2>2. u'.page = step[s].page \ {p} /\ u'.cursor = step[s].cursor + 1
        /\ u'.from = step[s].from /\ u'.pc = "walking"
    BY <1>1, <1>2, <2>1
  <2>3. StepInv(u)
    BY DEF IInv
  <2> HIDE DEF u
  <2>4. PageAhead(u)' /\ PageInHand(u)'
    BY <1>1, <1>2, <1>3, <2>2, <2>3 DEF u, StepInv, PageAhead, PageInHand, StepType, Offsets
  <2>5. Forward(u)'
    BY <1>2, <2>2, <2>3 DEF u, StepInv, Forward, StepType
  <2>6. Covered(u)'
    BY <1>1, <1>2, <1>3, <2>2, <2>3
    DEF u, StepInv, Covered, NoGaps, PageAhead, StepType, Offsets
  <2>7. NoGaps(u)'
    BY <1>1, <2>2, <2>3 DEF u, StepInv, NoGaps
  <2> QED
    BY <2>4, <2>5, <2>6, <2>7 DEF StepInv, u
<1>9. ASSUME NEW r \in Steps PROVE StepInv(step[r])'
  <2>1. CASE r = s
    BY <1>8, <2>1
  <2>2. CASE r # s
    <3>1. StepInv(step[r]) /\ step'[r] = step[r]
      BY <1>1, <2>2 DEF IInv, TypeOK
    <3> QED
      BY <1>1, <3>1 DEF StepInv, Forward, Covered, PageAhead, NoGaps, PageInHand
  <2> QED
    BY <2>1, <2>2
<1>10. TypeOK'
  <2>1. step' \in [Steps -> StepType]
    BY <1>1 DEF IInv, TypeOK
  <2>2. everWalked' \subseteq Offsets /\ walkedThisLoad' \subseteq Offsets
        /\ held' \subseteq Offsets
    BY <1>1, <1>3 DEF IInv, TypeOK
  <2> QED
    BY <2>1, <2>2 DEF WalkFunder, IInv, TypeOK
<1>11. CursorCovered'
  BY <1>1 DEF WalkFunder, IInv, CursorCovered, Below
<1> QED
  BY <1>9, <1>10, <1>11 DEF IInv

(* The cursor a step writes is one below which everything has been tried,   *)
(* whether the row has moved on or fallen back meanwhile.                   *)
LEMMA RecordStep ==
    ASSUME IInv, NEW s \in Steps, Record(s)
    PROVE  IInv'
<1> DEFINE t == step[s]
           total == IF t.total = NoTotal THEN row.total ELSE t.total
           done == row.done + Walked(t)
           missed == row.missed + t.missed
<1>1. t \in StepType /\ row \in RowType /\ StepInv(t)
  BY DEF IInv, TypeOK
<1>2. row' \in RowType /\ row'.cursor \in {row.cursor, t.cursor}
  <2>1. CASE row.started
    <3>1. row' = [row EXCEPT !.cursor = t.cursor, !.total = total, !.done = done,
                             !.missed = missed, !.finished = t.finished]
      BY <1>1, <2>1 DEF Record, RowType
    <3>2. t.cursor \in Nat /\ total \in Nat \cup {NoTotal} /\ missed \in Nat
          /\ t.finished \in BOOLEAN
      BY <1>1 DEF RowType, StepType
    <3>3. done \in Nat
      BY <1>1 DEF RowType, StepType, StepInv, Forward, Walked
    <3> HIDE DEF t, total, done, missed
    <3> QED
      BY <1>1, <3>1, <3>2, <3>3 DEF RowType
  <2>2. CASE ~row.started
    BY <1>1, <2>2 DEF Record
  <2> QED
    BY <2>1, <2>2
<1>3. TypeOK'
  <2>1. step' \in [Steps -> StepType]
    BY IdleInv DEF Record, IInv, TypeOK
  <2>2. sinceAttempt' \in Ages
    BY DEF Record, IInv, TypeOK, Ages
  <2>3. lateRecord' \in BOOLEAN
    <3>1. CASE row.started
      BY <3>1 DEF Record
    <3>2. CASE ~row.started
      BY <3>2 DEF Record, IInv, TypeOK
    <3> QED
      BY <3>1, <3>2
  <2> QED
    BY <1>2, <2>1, <2>2, <2>3 DEF Record, IInv, TypeOK
<1>4. CursorCovered'
  <2>1. everWalked' = everWalked
    BY DEF Record
  <2> QED
    BY <1>1, <1>2, <2>1 DEF IInv, CursorCovered, Below, StepInv, Covered
<1>5. ASSUME NEW r \in Steps PROVE StepInv(step[r])'
  <2>1. StepInv(step[r]) /\ step'[r] \in {Idle, step[r]} /\ everWalked' = everWalked
    BY DEF Record, IInv, TypeOK
  <2> QED
    BY <2>1, IdleInv DEF StepInv, Forward, Covered, PageAhead, NoGaps, PageInHand
<1> QED
  BY <1>3, <1>4, <1>5 DEF IInv

LEMMA RestartStep ==
    ASSUME IInv, Restart
    PROVE  IInv'
<1>1. row' \in RowType /\ row'.cursor = 0
  <2>1. EmptyRow \in RowType /\ EmptyRow.cursor = 0
    BY DEF EmptyRow, RowType
  <2>2. row.load + 1 \in Nat
    BY DEF IInv, TypeOK, RowType
  <2> QED
    BY <2>1, <2>2 DEF Restart, RowType
<1>2. TypeOK'
  <2>1. sinceAttempt' \in Ages /\ grants' \in Nat
    BY DEF Restart, Ages
  <2>2. lateRecord' \in BOOLEAN
    BY DEF Restart
  <2>3. walkedThisLoad' \subseteq Offsets
    BY DEF Restart
  <2> QED
    BY <1>1, <2>1, <2>2, <2>3 DEF Restart, IInv, TypeOK
<1>3. CursorCovered'
  BY <1>1 DEF CursorCovered, Below, Offsets
<1> QED
  BY <1>2, <1>3, SameSteps DEF Restart, IInv

LEMMA TimePassesStep ==
    ASSUME IInv, TimePasses
    PROVE  IInv'
<1>1. TypeOK'
  BY DEF TimePasses, IInv, TypeOK, Ages
<1>2. CursorCovered'
  BY DEF TimePasses, IInv, CursorCovered, Below
<1> QED
  BY <1>1, <1>2, SameSteps DEF TimePasses, IInv

LEMMA ListGrowsStep ==
    ASSUME IInv, ListGrows
    PROVE  IInv'
<1>1. TypeOK'
  BY CorpusAssumption DEF ListGrows, IInv, TypeOK, history
<1>2. CursorCovered'
  BY DEF ListGrows, IInv, CursorCovered, Below, history
<1> QED
  BY <1>1, <1>2, SameSteps DEF ListGrows, IInv, history

LEMMA StutterStep ==
    ASSUME IInv, UNCHANGED vars
    PROVE  IInv'
<1>1. TypeOK'
  BY DEF vars, IInv, TypeOK
<1>2. CursorCovered'
  BY DEF vars, IInv, CursorCovered, Below
<1> QED
  BY <1>1, <1>2, SameSteps DEF vars, IInv

-----------------------------------------------------------------------------
(* The invariant of the proof holds in every state the walk reaches. *)
THEOREM SpecIInv == Spec => []IInv
<1>1. IInv /\ [Next]_vars => IInv'
  <2> SUFFICES ASSUME IInv, [Next]_vars PROVE IInv'
    OBVIOUS
  <2>1. ASSUME NEW s \in Steps, StepActions(s) PROVE IInv'
    BY <2>1, NudgeStep, ClaimWinsStep, ClaimRefusedStep, StepByHandStep,
       ReadCursorStep, FetchPageStep, StopPagingStep, WalkFunderStep,
       LeavePageStep, RecordStep, CrashStep DEF StepActions
  <2> QED
    BY <2>1, RestartStep, TimePassesStep, ListGrowsStep, StutterStep DEF Next
<1> QED
  BY InitIInv, <1>1, PTL DEF Spec

(* The row, the steps in flight and the history have their types, whatever  *)
(* the constants.                                                           *)
THEOREM SpecTypeOK == Spec => []TypeOK
<1>1. IInv => TypeOK
  BY DEF IInv
<1> QED
  BY SpecIInv, <1>1, PTL

(* Every funder below the recorded cursor has really been tried, for any    *)
(* number of overlapping steps, crashes and restarts and any list that only *)
(* grows.                                                                   *)
THEOREM SpecCursorCovered == Spec => []CursorCovered
<1>1. IInv => CursorCovered
  BY DEF IInv
<1> QED
  BY SpecIInv, <1>1, PTL

-----------------------------------------------------------------------------
(* The lease.  A grant of the running interval is still fresh and has       *)
(* started the load, so no second one can be claimed; and a load nobody     *)
(* started is not a finished one.                                           *)
LeaseInv ==
    /\ grants > 0 => grants = 1 /\ sinceAttempt = 0 /\ row.started
    /\ row.finished => row.started

LEMMA InitLease == Init => LeaseInv
  BY DEF Init, LeaseInv, EmptyRow

LEMMA RecordLease ==
    ASSUME IInv, LeaseInv, NEW s \in Steps, Record(s)
    PROVE  LeaseInv'
<1>1. CASE row.started
  <2>1. sinceAttempt' = 0 /\ row'.started = row.started /\ grants' = grants
    BY <1>1 DEF Record, IInv, TypeOK, RowType
  <2> QED
    BY <1>1, <2>1 DEF LeaseInv
<1>2. CASE ~row.started
  <2>1. UNCHANGED <<row, sinceAttempt, grants>>
    BY <1>2 DEF Record
  <2> QED
    BY <2>1 DEF LeaseInv
<1> QED
  BY <1>1, <1>2

LEMMA RestartLease ==
    ASSUME Restart
    PROVE  LeaseInv'
<1>1. grants' = 0 /\ row'.started = TRUE
  BY DEF Restart, EmptyRow
<1> QED
  BY <1>1 DEF LeaseInv

LEMMA ClaimLease ==
    ASSUME IInv, LeaseInv, NEW s \in Steps, ClaimWins(s)
    PROVE  LeaseInv' /\ ~row.finished
<1>1. ~row.finished
  BY DEF ClaimWins, Claimable, LeaseInv
<1>2. grants = 0
  BY DEF ClaimWins, Claimable, LeaseInv, MinAge, IInv, TypeOK, Ages
<1>3. row'.started = TRUE /\ row'.finished = row.finished
  BY DEF ClaimWins, IInv, TypeOK, RowType
<1> QED
  BY <1>1, <1>2, <1>3 DEF ClaimWins, LeaseInv

(* No other action grants a lease, and each keeps the invariant. *)
LEMMA NextLease ==
    ASSUME IInv, LeaseInv, [Next]_vars
    PROVE  LeaseInv' /\ (grants' > grants => ~row.finished)
<1>0. grants \in Nat
  BY DEF IInv, TypeOK
<1>1. ASSUME NEW s \in Steps, Record(s)
      PROVE  LeaseInv' /\ (grants' > grants => ~row.finished)
  <2>1. LeaseInv'
    BY <1>1, RecordLease
  <2>2. grants' = grants
    BY <1>1 DEF Record
  <2> QED
    BY <1>0, <2>1, <2>2
<1>2. ASSUME NEW s \in Steps, StepActions(s), ~Record(s), ~ClaimWins(s)
      PROVE  UNCHANGED <<row, sinceAttempt, grants>>
  BY <1>2 DEF StepActions, Nudge, ClaimRefused, StepByHand, ReadCursor, FetchPage,
              StopPaging, WalkFunder, LeavePage, Crash, history
<1>3. CASE Restart
  <2>1. LeaseInv'
    BY <1>3, RestartLease
  <2>2. grants' = 0
    BY <1>3 DEF Restart
  <2> QED
    BY <1>0, <2>1, <2>2
<1>4. CASE TimePasses
  BY <1>0, <1>4 DEF TimePasses, LeaseInv
<1>5. CASE ListGrows \/ UNCHANGED vars
  BY <1>0, <1>5 DEF ListGrows, vars, history, LeaseInv
<1>6. ASSUME NEW s \in Steps, StepActions(s)
      PROVE  LeaseInv' /\ (grants' > grants => ~row.finished)
  BY <1>0, <1>1, <1>2, <1>6, ClaimLease DEF LeaseInv
<1> QED
  BY <1>3, <1>4, <1>5, <1>6 DEF Next

(* One lease per interval, and none on a load that has finished, although   *)
(* each caller looked at the row in an earlier transaction.                 *)
THEOREM SpecLeaseIsSingle == Spec => LeaseIsSingle
<1>1. IInv /\ LeaseInv => OneGrantPerInterval
  BY DEF LeaseInv, OneGrantPerInterval, IInv, TypeOK
<1>2. IInv /\ LeaseInv /\ [Next]_vars => [grants' > grants => ~row.finished]_vars
  BY NextLease
<1>3. IInv /\ LeaseInv /\ [Next]_vars => LeaseInv'
  BY NextLease
<1> QED
  BY InitLease, SpecIInv, <1>1, <1>2, <1>3, PTL
  DEF Spec, LeaseIsSingle, NoGrantOnceFinished

-----------------------------------------------------------------------------
(* The low water mark.  A step in flight after the action either was in     *)
(* flight before it and began at the same offset, or began at the recorded  *)
(* cursor.                                                                  *)
LEMMA LocalFloor ==
    ASSUME IInv, NEW s \in Steps, row'.cursor = row.cursor,
           \A r \in Steps \ {s} : step'[r] = step[r],
           step'[s].pc \in {"paging", "walking", "recording"}
             => \/ step'[s].from = row.cursor
                \/ step[s].pc \in {"paging", "walking", "recording"}
                   /\ step'[s].from = step[s].from
    PROVE  Floor' \subseteq Floor
<1> SUFFICES ASSUME NEW x \in Floor' PROVE x \in Floor
  OBVIOUS
<1>1. CASE x = row'.cursor
  BY <1>1 DEF Floor
<1>2. ASSUME NEW r \in InFlight', x = step'[r].from
      PROVE  x \in Floor
  <2>1. r \in Steps /\ step'[r].pc \in {"paging", "walking", "recording"}
    BY <1>2 DEF InFlight
  <2>2. CASE r = s
    BY <1>2, <2>1, <2>2 DEF Floor, InFlight
  <2>3. CASE r # s
    BY <1>2, <2>1, <2>3 DEF Floor, InFlight
  <2> QED
    BY <2>2, <2>3
<1> QED
  BY <1>1, <1>2 DEF Floor

LEMMA EarlyFloor ==
    ASSUME IInv, NEW s \in Steps,
           \/ \E kind \in Kinds : Nudge(s, kind)
           \/ ClaimWins(s) \/ ClaimRefused(s) \/ StepByHand(s) \/ Crash(s)
    PROVE  Floor' \subseteq Floor
<1>1. step'[s].pc \in {"idle", "nudged", "claimed"}
  <2>0. step \in [Steps -> StepType]
    BY DEF IInv, TypeOK
  <2>1. \E t \in StepType : step' = [step EXCEPT ![s] = t] /\ t.pc \in {"idle", "nudged", "claimed"}
    <3>1. CASE \E kind \in Kinds : Nudge(s, kind)
      <4>1. PICK kind \in Kinds : Nudge(s, kind)
        BY <3>1
      <4> DEFINE t == [Idle EXCEPT !.pc = "nudged", !.kind = kind]
      <4>2. t \in StepType /\ t.pc = "nudged"
        BY IdleInv DEF StepType
      <4>3. step' = [step EXCEPT ![s] = t]
        BY <4>1 DEF Nudge
      <4> QED
        BY <4>2, <4>3
    <3>2. CASE ClaimWins(s) \/ StepByHand(s)
      BY <3>2, ClaimedIdle DEF ClaimWins, StepByHand, Idle
    <3>3. CASE ClaimRefused(s) \/ Crash(s)
      BY <3>3, IdleInv DEF ClaimRefused, Crash, Idle
    <3> QED
      BY <3>1, <3>2, <3>3
  <2> QED
    BY <2>0, <2>1
<1>2. \A r \in Steps \ {s} : step'[r] = step[r]
  BY DEF Nudge, ClaimWins, ClaimRefused, StepByHand, Crash, IInv, TypeOK
<1>3. row'.cursor = row.cursor
  BY DEF Nudge, ClaimWins, ClaimRefused, StepByHand, Crash, IInv, TypeOK, RowType, history
<1> QED
  BY <1>1, <1>2, <1>3, LocalFloor

LEMMA WalkingFloor ==
    ASSUME IInv, NEW s \in Steps,
           ReadCursor(s) \/ FetchPage(s) \/ StopPaging(s) \/ WalkFunder(s) \/ LeavePage(s)
    PROVE  Floor' \subseteq Floor
<1>0. step[s] \in StepType /\ step \in [Steps -> StepType]
  BY DEF IInv, TypeOK
<1>1. \A r \in Steps \ {s} : step'[r] = step[r]
  BY <1>0 DEF ReadCursor, FetchPage, StopPaging, WalkFunder, LeavePage
<1>2. row' = row
  BY DEF ReadCursor, FetchPage, StopPaging, WalkFunder, LeavePage
<1>3. CASE ReadCursor(s)
  <2>1. step'[s].from = row.cursor
    BY <1>0, <1>3 DEF ReadCursor, StepType
  <2> QED
    BY <1>1, <1>2, <2>1, LocalFloor
<1>4. CASE FetchPage(s) \/ StopPaging(s) \/ WalkFunder(s) \/ LeavePage(s)
  <2>1. step[s].pc \in {"paging", "walking"} /\ step'[s].from = step[s].from
    <3>1. CASE FetchPage(s)
      BY <1>0, <3>1 DEF FetchPage, StepType
    <3>2. CASE StopPaging(s)
      BY <1>0, <3>2 DEF StopPaging, StepType
    <3>3. CASE WalkFunder(s)
      <4>1. step[s].pc = "walking"
        BY <3>3 DEF WalkFunder
      <4>2. \E t \in StepType : step' = [step EXCEPT ![s] = t] /\ t.from = step[s].from
        BY <3>3, WalkedOne
      <4> QED
        BY <1>0, <4>1, <4>2
    <3>4. CASE LeavePage(s)
      BY <1>0, <3>4 DEF LeavePage, StepType
    <3> QED
      BY <1>4, <3>1, <3>2, <3>3, <3>4
  <2> QED
    BY <1>1, <1>2, <2>1, LocalFloor
<1> QED
  BY <1>3, <1>4

(* What a step records lies at or above the offset it began at. *)
LEMMA RecordFloor ==
    ASSUME IInv, NEW s \in Steps, Record(s)
    PROVE  \A x \in Floor' : \E y \in Floor : y <= x
<1> SUFFICES ASSUME NEW x \in Floor' PROVE \E y \in Floor : y <= x
  OBVIOUS
<1>1. /\ row.cursor \in Nat /\ row \in RowType
      /\ \A r \in Steps : step[r] \in StepType /\ step[r].from \in Nat /\ step[r].cursor \in Nat
      /\ step[s].from <= step[s].cursor
  BY DEF IInv, TypeOK, RowType, StepType, StepInv, Forward
<1>2. s \in InFlight
  BY DEF Record, InFlight
<1>3. row'.cursor \in {row.cursor, step[s].cursor}
  <2>1. CASE row.started
    BY <1>1, <2>1 DEF Record, RowType
  <2>2. CASE ~row.started
    BY <2>2 DEF Record
  <2> QED
    BY <2>1, <2>2
<1>4. CASE x = row'.cursor
  BY <1>1, <1>2, <1>3, <1>4 DEF Floor
<1>5. ASSUME NEW r \in InFlight', x = step'[r].from
      PROVE  \E y \in Floor : y <= x
  <2>1. r \in InFlight /\ step'[r] = step[r]
    BY <1>5 DEF InFlight, Record, Idle, IInv, TypeOK
  <2>2. r \in Steps
    BY <2>1 DEF InFlight
  <2>3. x \in Floor /\ x \in Nat
    BY <1>1, <1>5, <2>1, <2>2 DEF Floor
  <2> QED
    BY <2>3
<1> QED
  BY <1>4, <1>5 DEF Floor

LEMMA FloorReflexive ==
    ASSUME IInv, Floor' \subseteq Floor
    PROVE  \A x \in Floor' : \E y \in Floor : y <= x
<1>1. \A y \in Floor : y \in Nat
  BY DEF Floor, InFlight, IInv, TypeOK, RowType, StepType
<1> QED
  BY <1>1

(* Overlapping steps repeat work and never undo the walk: within one load   *)
(* the lowest offset the row may fall back to only rises.                   *)
THEOREM SpecLowWaterRises == Spec => LowWaterRises
<1>1. ASSUME IInv, Next, row'.load = row.load
      PROVE  \A x \in Floor' : \E y \in Floor : y <= x
  <2>1. ASSUME NEW s \in Steps, StepActions(s)
        PROVE  \A x \in Floor' : \E y \in Floor : y <= x
    BY <1>1, <2>1, EarlyFloor, WalkingFloor, RecordFloor, FloorReflexive DEF StepActions
  <2>2. ~Restart
    <3>1. row.load \in Nat
      BY <1>1 DEF IInv, TypeOK, RowType
    <3>2. Restart => row'.load = row.load + 1
      BY DEF Restart, EmptyRow
    <3> QED
      BY <1>1, <3>1, <3>2
  <2>3. CASE TimePasses \/ ListGrows
    <3>1. UNCHANGED <<row, step>>
      BY <2>3 DEF TimePasses, ListGrows, history
    <3>2. Floor' \subseteq Floor
      BY <3>1 DEF Floor, InFlight
    <3> QED
      BY <1>1, <3>2, FloorReflexive
  <2> QED
    BY <1>1, <2>1, <2>2, <2>3 DEF Next
<1>2. IInv /\ [Next]_vars
        => [row'.load = row.load => \A x \in Floor' : \E y \in Floor : y <= x]_vars
  BY <1>1
<1> QED
  BY SpecIInv, <1>2, PTL DEF Spec, LowWaterRises

-----------------------------------------------------------------------------
(* The end of the walk.  The count a step was told is never above the list  *)
(* it came from, and a step that declares the walk finished has seen every  *)
(* named funder up to that count tried.                                     *)
ListRead(t) == \A q \in Offsets \ NoOrgId : q <= t.total => q \in everWalked

EndOf(t) == t.total <= listed /\ (t.finished => t.pc = "recording" /\ ListRead(t))

EndInv == row.total <= listed /\ \A s \in Steps : EndOf(step[s])

LEMMA InitEnd == Init => EndInv
  BY CorpusAssumption DEF Init, EndInv, EndOf, EmptyRow, Idle, NoTotal

(* An empty page lies at the end of the list: a full page of entries that   *)
(* name nobody would take more nameless entries than there are.             *)
LEMMA EmptyPageEnds ==
    ASSUME listed \in 0..MaxListed, NEW offset \in Nat, PageAt(offset) = {}
    PROVE  \A q \in Offsets \ NoOrgId : q <= listed => q <= offset
<1> SUFFICES ASSUME NEW q \in Offsets \ NoOrgId, q <= listed, ~(q <= offset)
             PROVE  FALSE
  OBVIOUS
<1>0. listed \in Nat /\ MaxListed \in Nat /\ PageSize \in Nat \ {0} /\ q \in Nat
  BY CorpusAssumption DEF Offsets
<1>1. ~(q <= offset + PageSize)
  BY <1>0 DEF PageAt, Offsets
<1> DEFINE full == (offset + 1)..(offset + PageSize)
<1>2. full \subseteq NoOrgId
  BY <1>0, <1>1 DEF PageAt
<1>3. IsFiniteSet(NoOrgId)
  <2>1. IsFiniteSet(1..MaxListed)
    BY <1>0, FS_Interval
  <2> QED
    BY <2>1, CorpusAssumption, FS_Subset
<1>4. Cardinality(full) = PageSize
  BY <1>0, FS_Interval
<1>5. Cardinality(full) <= Cardinality(NoOrgId) /\ Cardinality(NoOrgId) \in Nat
  BY <1>2, <1>3, FS_Subset, FS_CardinalityType
<1> HIDE DEF full
<1> QED
  BY <1>0, <1>4, <1>5, PageAssumption

LEMMA LocalEnd ==
    ASSUME IInv, EndInv, NEW s \in Steps, NEW t, step' = [step EXCEPT ![s] = t],
           row'.total = row.total, listed' = listed, everWalked \subseteq everWalked',
           EndOf(t)
    PROVE  EndInv'
<1>1. ASSUME NEW r \in Steps PROVE EndOf(step[r])'
  <2>1. EndOf(step[r]) /\ step'[r] \in {step[r], t}
    BY DEF EndInv, IInv, TypeOK
  <2> QED
    BY <2>1 DEF EndOf, ListRead
<1> QED
  BY <1>1 DEF EndInv

LEMMA IdleEnd ==
    ASSUME IInv, NEW t, t.total = NoTotal, t.finished = FALSE
    PROVE  EndOf(t)
  BY DEF EndOf, IInv, TypeOK, NoTotal

LEMMA EarlyEnd ==
    ASSUME IInv, EndInv, NEW s \in Steps,
           \/ \E kind \in Kinds : Nudge(s, kind)
           \/ ClaimWins(s) \/ ClaimRefused(s) \/ StepByHand(s) \/ Crash(s)
    PROVE  EndInv'
<1>1. \E t \in StepType : /\ step' = [step EXCEPT ![s] = t]
                          /\ t.total = NoTotal /\ t.finished = FALSE
  <2>1. CASE \E kind \in Kinds : Nudge(s, kind)
    <3>1. PICK kind \in Kinds : Nudge(s, kind)
      BY <2>1
    <3> DEFINE t == [Idle EXCEPT !.pc = "nudged", !.kind = kind]
    <3>2. t \in StepType /\ t.total = NoTotal /\ t.finished = FALSE
      BY IdleInv DEF StepType, Idle
    <3>3. step' = [step EXCEPT ![s] = t]
      BY <3>1 DEF Nudge
    <3> QED
      BY <3>2, <3>3
  <2>2. CASE ClaimWins(s) \/ StepByHand(s)
    BY <2>2, ClaimedIdle DEF ClaimWins, StepByHand, Idle
  <2>3. CASE ClaimRefused(s) \/ Crash(s)
    BY <2>3, IdleInv DEF ClaimRefused, Crash, Idle
  <2> QED
    BY <2>1, <2>2, <2>3
<1>2. row'.total = row.total /\ listed' = listed /\ everWalked' = everWalked
  BY DEF Nudge, ClaimWins, ClaimRefused, StepByHand, Crash, history, IInv, TypeOK, RowType
<1> QED
  BY <1>1, <1>2, IdleEnd, LocalEnd

LEMMA FetchPageEnd ==
    ASSUME IInv, EndInv, NEW s \in Steps, FetchPage(s)
    PROVE  EndInv'
<1>1. PICK count \in {NoTotal, listed}, t \in StepType :
        /\ step' = [step EXCEPT ![s] = t]
        /\ t.page = PageAt(step[s].cursor) /\ t.finished = Exhausted(t.page)
        /\ t.pc = IF t.finished THEN "recording" ELSE "walking"
        /\ t.total = IF count = NoTotal THEN step[s].total ELSE count
  BY FetchedPage
<1>2. listed \in 0..MaxListed /\ MaxListed \in Nat /\ step[s] \in StepType
      /\ step[s].cursor \in Nat /\ t.total \in Nat \cup {NoTotal}
  BY CorpusAssumption DEF IInv, TypeOK, StepType
<1>3. t.total <= listed
  BY <1>1, <1>2 DEF EndInv, EndOf, NoTotal
<1>4. t.finished => ListRead(t)
  <2> SUFFICES ASSUME PageAt(step[s].cursor) = {}, NEW q \in Offsets \ NoOrgId, q <= t.total
               PROVE  q \in everWalked
    BY <1>1 DEF ListRead, Exhausted
  <2>1. q <= listed
    BY <1>2, <1>3 DEF NoTotal, Offsets
  <2>2. q <= step[s].cursor
    BY <1>2, <2>1, EmptyPageEnds
  <2> QED
    BY <2>2 DEF IInv, StepInv, Covered
<1>5. row' = row /\ listed' = listed /\ everWalked' = everWalked
  BY DEF FetchPage, history
<1>6. EndOf(t)
  BY <1>1, <1>3, <1>4 DEF EndOf
<1> QED
  BY <1>1, <1>5, <1>6, LocalEnd

LEMMA LeavePageEnd ==
    ASSUME IInv, EndInv, NEW s \in Steps, LeavePage(s)
    PROVE  EndInv'
<1> DEFINE reached == Reached(step[s].total, step[s].cursor)
           t == [step[s] EXCEPT !.pc = IF reached \/ step[s].page # {}
                                       THEN "recording" ELSE "paging",
                                !.page = {}, !.finished = reached]
<1>1. step[s] \in StepType /\ EndOf(step[s]) /\ Covered(step[s])
  BY DEF IInv, TypeOK, EndInv, StepInv
<1>2. t.finished = reached /\ t.total = step[s].total
      /\ t.pc = IF reached \/ step[s].page # {} THEN "recording" ELSE "paging"
  BY <1>1 DEF StepType
<1>3. step' = [step EXCEPT ![s] = t]
  BY DEF LeavePage
<1>4. row' = row /\ listed' = listed /\ everWalked' = everWalked
  BY DEF LeavePage, history
<1>5. reached => ListRead(step[s])
  BY <1>1 DEF Reached, ListRead, Covered, StepType, Offsets
<1> HIDE DEF t
<1>6. EndOf(t)
  BY <1>1, <1>2, <1>5 DEF EndOf, ListRead
<1> QED
  BY <1>3, <1>4, <1>6, LocalEnd

LEMMA OtherWalkingEnd ==
    ASSUME IInv, EndInv, NEW s \in Steps, ReadCursor(s) \/ StopPaging(s) \/ WalkFunder(s)
    PROVE  EndInv'
<1>1. step[s] \in StepType /\ EndOf(step[s]) /\ row.total <= listed /\ row \in RowType
  BY DEF IInv, TypeOK, EndInv
<1>2. row' = row /\ listed' = listed
  BY DEF ReadCursor, StopPaging, WalkFunder
<1>3. CASE ReadCursor(s)
  <2> DEFINE t == [step[s] EXCEPT !.pc = "paging", !.load = row.load,
                                  !.from = row.cursor, !.cursor = row.cursor,
                                  !.total = row.total]
  <2>1. t.total = row.total /\ t.finished = step[s].finished /\ step[s].pc # "recording"
    BY <1>1, <1>3 DEF ReadCursor, StepType
  <2>2. step' = [step EXCEPT ![s] = t] /\ everWalked' = everWalked
    BY <1>3 DEF ReadCursor, history
  <2> HIDE DEF t
  <2>3. EndOf(t)
    BY <1>1, <2>1 DEF EndOf
  <2> QED
    BY <1>2, <2>2, <2>3, LocalEnd
<1>4. CASE StopPaging(s)
  <2> DEFINE t == [step[s] EXCEPT !.pc = "recording"]
  <2>1. t.total = step[s].total /\ t.finished = step[s].finished /\ step[s].pc # "recording"
    BY <1>1, <1>4 DEF StopPaging, StepType
  <2>2. step' = [step EXCEPT ![s] = t] /\ everWalked' = everWalked
    BY <1>4 DEF StopPaging, history
  <2> HIDE DEF t
  <2>3. EndOf(t)
    BY <1>1, <2>1 DEF EndOf
  <2> QED
    BY <1>2, <2>2, <2>3, LocalEnd
<1>5. CASE WalkFunder(s)
  <2>1. PICK p \in step[s].page, t \in StepType :
          /\ step' = [step EXCEPT ![s] = t]
          /\ t.pc = step[s].pc /\ t.total = step[s].total /\ t.finished = step[s].finished
          /\ everWalked' = everWalked \cup {p}
    BY <1>5, WalkedOne
  <2>2. step[s].pc # "recording"
    BY <1>5 DEF WalkFunder
  <2>3. EndOf(t)
    BY <1>1, <2>1, <2>2 DEF EndOf
  <2> QED
    BY <1>2, <2>1, <2>3, LocalEnd
<1> QED
  BY <1>3, <1>4, <1>5

LEMMA RecordEnd ==
    ASSUME IInv, EndInv, NEW s \in Steps, Record(s)
    PROVE  EndInv'
<1>1. row \in RowType /\ step \in [Steps -> StepType] /\ EndOf(step[s])
  BY DEF IInv, TypeOK, EndInv
<1>2. row'.total <= listed
  <2>1. CASE row.started
    <3>1. row'.total \in {row.total, step[s].total}
      BY <1>1, <2>1 DEF Record, RowType
    <3> QED
      BY <1>1, <3>1 DEF EndInv, EndOf
  <2>2. CASE ~row.started
    BY <2>2 DEF Record, EndInv
  <2> QED
    BY <2>1, <2>2
<1>3. listed' = listed /\ everWalked' = everWalked
  BY DEF Record
<1>4. ASSUME NEW r \in Steps PROVE EndOf(step[r])'
  <2>1. EndOf(step[r]) /\ step'[r] \in {step[r], Idle}
    BY <1>1 DEF EndInv, Record
  <2>2. EndOf(Idle)
    BY IdleEnd DEF Idle
  <2> QED
    BY <1>3, <2>1, <2>2 DEF EndOf, ListRead
<1> QED
  BY <1>2, <1>3, <1>4 DEF EndInv

LEMMA NextEnd ==
    ASSUME IInv, EndInv, [Next]_vars
    PROVE  EndInv'
<1>0. listed \in Nat /\ row.total \in Int /\ \A s \in Steps : step[s].total \in Int
  BY CorpusAssumption DEF IInv, TypeOK, RowType, StepType, NoTotal
<1>1. ASSUME NEW s \in Steps, StepActions(s) PROVE EndInv'
  BY <1>1, EarlyEnd, FetchPageEnd, LeavePageEnd, OtherWalkingEnd, RecordEnd DEF StepActions
<1>2. CASE Restart
  <2>1. row'.total = NoTotal /\ UNCHANGED <<listed, step, everWalked>>
    BY <1>2 DEF Restart, EmptyRow
  <2> QED
    BY <1>0, <2>1 DEF EndInv, EndOf, ListRead, NoTotal
<1>3. CASE TimePasses \/ UNCHANGED vars
  BY <1>3 DEF TimePasses, vars, history, EndInv, EndOf, ListRead
<1>4. CASE ListGrows
  BY <1>0, <1>4 DEF ListGrows, history, EndInv, EndOf, ListRead
<1> QED
  BY <1>1, <1>2, <1>3, <1>4 DEF Next

(* Neither a stale count, nor a page of nameless entries, nor a step that   *)
(* died ends the walk short of the list the step was told of.               *)
THEOREM SpecFinishedMeansListRead == Spec => []FinishedMeansListRead
<1>1. IInv /\ EndInv => FinishedMeansListRead
  BY DEF EndInv, EndOf, ListRead, FinishedMeansListRead, Below
<1>2. IInv /\ EndInv /\ [Next]_vars => EndInv'
  BY NextEnd
<1> QED
  BY InitEnd, SpecIInv, <1>1, <1>2, PTL DEF Spec

-----------------------------------------------------------------------------
(* What is missing is counted.  A step's own counter covers the funders     *)
(* between the offset it began at and where it is; the row's counter covers *)
(* those below the offset any step of the current load began at.            *)
Behind(t) == {q \in Offsets \ NoOrgId : t.from < q /\ q <= t.cursor} \ held

(* A funder of the page may lie well above the cursor, which moves by one   *)
(* entry at a time: what lies below that funder, and is not still to come,  *)
(* is counted as well.                                                      *)
PassedOver(t, p) == {q \in (Offsets \ NoOrgId) \ t.page : t.from < q /\ q < p} \ held

OwnCount(t) ==
    /\ Cardinality(Behind(t)) <= t.missed
    /\ \A p \in t.page : Cardinality(PassedOver(t, p)) <= t.missed

SharedCount(t) ==
    /\ t.load <= row.load
    /\ (/\ ~lateRecord /\ t.load = row.load
        /\ t.pc \in {"paging", "walking", "recording"})
          => Cardinality(Below(t.from) \ held) <= row.missed

CountInv ==
    /\ MissingIsCounted
    /\ \A s \in Steps : OwnCount(step[s]) /\ SharedCount(step[s])

LEMMA OffsetsFinite == IsFiniteSet(Offsets)
  BY CorpusAssumption, FS_Interval DEF Offsets

(* Sets of offsets have a size, a larger set has a larger one, and a union  *)
(* is no larger than its parts together.                                    *)
LEMMA CountMonotone ==
    ASSUME NEW B \in SUBSET Offsets, NEW A \in SUBSET B
    PROVE  Cardinality(A) \in Nat /\ Cardinality(B) \in Nat /\ Cardinality(A) <= Cardinality(B)
<1>1. IsFiniteSet(B)
  BY OffsetsFinite, FS_Subset
<1>2. IsFiniteSet(A) /\ Cardinality(A) <= Cardinality(B)
  BY <1>1, FS_Subset
<1> QED
  BY <1>1, <1>2, FS_CardinalityType

LEMMA CountUnion ==
    ASSUME NEW B \in SUBSET Offsets, NEW C \in SUBSET Offsets, NEW A \in SUBSET (B \cup C)
    PROVE  Cardinality(A) <= Cardinality(B) + Cardinality(C)
<1>1. IsFiniteSet(B) /\ IsFiniteSet(C)
  BY OffsetsFinite, FS_Subset
<1>2. Cardinality(B \cup C) = Cardinality(B) + Cardinality(C) - Cardinality(B \cap C)
  BY <1>1, FS_Union
<1>3. Cardinality(B \cap C) \in Nat /\ Cardinality(B) \in Nat /\ Cardinality(C) \in Nat
  BY CountMonotone
<1>4. Cardinality(A) <= Cardinality(B \cup C) /\ Cardinality(A) \in Nat
      /\ Cardinality(B \cup C) \in Nat
  BY CountMonotone
<1> QED
  BY <1>2, <1>3, <1>4

LEMMA CountOneMore ==
    ASSUME NEW B \in SUBSET Offsets, NEW x \in Offsets, NEW A \in SUBSET (B \cup {x})
    PROVE  Cardinality(A) <= Cardinality(B) + 1
<1>1. Cardinality({x}) = 1
  BY FS_Singleton
<1>2. Cardinality(A) <= Cardinality(B) + Cardinality({x})
  BY CountUnion
<1> QED
  BY <1>1, <1>2

LEMMA CountEmpty == Cardinality({}) = 0
  BY FS_EmptySet

(* A step that has counted nothing yet, and begins where it stands.         *)
LEMMA FreshCount ==
    ASSUME NEW t \in StepType, t.page = {}, t.cursor = t.from
    PROVE  OwnCount(t)
<1>1. Behind(t) = {}
  BY DEF Behind, StepType, Offsets
<1> QED
  BY <1>1, CountEmpty DEF OwnCount, StepType

LEMMA InitCount == Init => CountInv
<1> SUFFICES ASSUME Init PROVE CountInv
  OBVIOUS
<1>1. Below(0) \ held = {}
  BY DEF Below, Offsets
<1>2. row.cursor = 0 /\ row.missed = 0
  BY DEF Init, EmptyRow
<1>3. ASSUME NEW s \in Steps PROVE OwnCount(step[s]) /\ SharedCount(step[s])
  <2>1. step[s] = Idle
    BY DEF Init
  <2>2. OwnCount(Idle)
    BY IdleInv, FreshCount DEF Idle
  <2>3. Idle.load = 0 /\ Idle.pc = "idle" /\ row.load = 0
    BY DEF Init, EmptyRow, Idle
  <2> QED
    BY <2>1, <2>2, <2>3 DEF SharedCount
<1> QED
  BY <1>1, <1>2, <1>3, CountEmpty DEF CountInv, MissingIsCounted

(* A step that moves only its own variables, before or between funders.     *)
LEMMA LocalCount ==
    ASSUME IInv, CountInv, NEW s \in Steps, NEW t, step' = [step EXCEPT ![s] = t],
           row'.cursor = row.cursor, row'.missed = row.missed, row'.load = row.load,
           held' = held, lateRecord' = lateRecord, OwnCount(t), SharedCount(t)
    PROVE  CountInv'
<1>1. MissingIsCounted'
  BY DEF CountInv, MissingIsCounted, Below
<1>2. ASSUME NEW r \in Steps PROVE (OwnCount(step[r]) /\ SharedCount(step[r]))'
  <2>1. step'[r] \in {step[r], t} /\ OwnCount(step[r]) /\ SharedCount(step[r])
    BY DEF CountInv, IInv, TypeOK
  <2> QED
    BY <2>1 DEF OwnCount, SharedCount, Behind, PassedOver, Below
<1> QED
  BY <1>1, <1>2 DEF CountInv

LEMMA EarlyCount ==
    ASSUME IInv, CountInv, NEW s \in Steps,
           \/ \E kind \in Kinds : Nudge(s, kind)
           \/ ClaimWins(s) \/ ClaimRefused(s) \/ StepByHand(s) \/ Crash(s)
    PROVE  CountInv'
<1>1. \E t \in StepType :
        /\ step' = [step EXCEPT ![s] = t]
        /\ t.page = {} /\ t.cursor = t.from /\ t.load = 0
        /\ t.pc \in {"idle", "nudged", "claimed"}
  <2>1. CASE \E kind \in Kinds : Nudge(s, kind)
    <3>1. PICK kind \in Kinds : Nudge(s, kind)
      BY <2>1
    <3> DEFINE t == [Idle EXCEPT !.pc = "nudged", !.kind = kind]
    <3>2. t \in StepType /\ t.page = {} /\ t.cursor = t.from /\ t.load = 0 /\ t.pc = "nudged"
      BY IdleInv DEF StepType, Idle
    <3>3. step' = [step EXCEPT ![s] = t]
      BY <3>1 DEF Nudge
    <3> QED
      BY <3>2, <3>3
  <2>2. CASE ClaimWins(s) \/ StepByHand(s)
    BY <2>2, ClaimedIdle DEF ClaimWins, StepByHand, Idle
  <2>3. CASE ClaimRefused(s) \/ Crash(s)
    BY <2>3, IdleInv DEF ClaimRefused, Crash, Idle
  <2> QED
    BY <2>1, <2>2, <2>3
<1>2. PICK t \in StepType :
        /\ step' = [step EXCEPT ![s] = t]
        /\ t.page = {} /\ t.cursor = t.from /\ t.load = 0
        /\ t.pc \in {"idle", "nudged", "claimed"}
  BY <1>1
<1>3. OwnCount(t) /\ SharedCount(t)
  BY <1>2, FreshCount DEF SharedCount, IInv, TypeOK, RowType
<1>4. row'.cursor = row.cursor /\ row'.missed = row.missed /\ row'.load = row.load
      /\ held' = held /\ lateRecord' = lateRecord
  BY DEF Nudge, ClaimWins, ClaimRefused, StepByHand, Crash, history, IInv, TypeOK, RowType
<1> QED
  BY <1>2, <1>3, <1>4, LocalCount

(* A step that begins finds below the cursor no more missing than the row   *)
(* has counted.                                                             *)
LEMMA ReadCursorCount ==
    ASSUME IInv, CountInv, NEW s \in Steps, ReadCursor(s)
    PROVE  CountInv'
<1> DEFINE t == [step[s] EXCEPT !.pc = "paging", !.load = row.load,
                                !.from = row.cursor, !.cursor = row.cursor,
                                !.total = row.total]
<1>1. step[s] \in StepType /\ row \in RowType /\ step[s].page = {}
  BY DEF ReadCursor, IInv, TypeOK, StepInv, PageInHand
<1>2. t \in StepType /\ t.page = {} /\ t.from = row.cursor /\ t.cursor = row.cursor
      /\ t.load = row.load
  BY <1>1 DEF StepType, RowType
<1>3. step' = [step EXCEPT ![s] = t] /\ UNCHANGED <<row, held, lateRecord>>
  BY DEF ReadCursor, history
<1> HIDE DEF t
<1>4. OwnCount(t)
  BY <1>2, FreshCount
<1>5. SharedCount(t)
  BY <1>1, <1>2 DEF SharedCount, CountInv, MissingIsCounted, RowType
<1> QED
  BY <1>3, <1>4, <1>5, LocalCount

(* What the fetched page passes over lies at or below the cursor.           *)
LEMMA FetchPageCount ==
    ASSUME IInv, CountInv, NEW s \in Steps, FetchPage(s)
    PROVE  CountInv'
<1>1. PICK t \in StepType :
        /\ step' = [step EXCEPT ![s] = t]
        /\ t.page = PageAt(step[s].cursor)
        /\ t.cursor = step[s].cursor /\ t.from = step[s].from
        /\ t.missed = step[s].missed /\ t.load = step[s].load
  BY FetchedPage
<1>2. step[s] \in StepType /\ OwnCount(step[s]) /\ SharedCount(step[s])
      /\ listed \in 0..MaxListed /\ MaxListed \in Nat /\ PageSize \in Nat
  BY CorpusAssumption DEF IInv, TypeOK, CountInv
<1>3. step[s].pc = "paging" /\ UNCHANGED <<row, held, lateRecord>>
  BY DEF FetchPage, history
<1>4. Behind(t) = Behind(step[s])
  BY <1>1 DEF Behind
<1>5. ASSUME NEW p \in t.page PROVE PassedOver(t, p) \subseteq Behind(step[s])
  BY <1>1, <1>2 DEF PassedOver, Behind, PageAt, Offsets, StepType
<1>6. ASSUME NEW p \in t.page PROVE Cardinality(PassedOver(t, p)) <= t.missed
  <2>1. Behind(step[s]) \in SUBSET Offsets
    BY DEF Behind
  <2>2. Cardinality(PassedOver(t, p)) <= Cardinality(Behind(step[s]))
        /\ Cardinality(PassedOver(t, p)) \in Nat /\ Cardinality(Behind(step[s])) \in Nat
    BY <1>5, <2>1, CountMonotone
  <2> QED
    BY <1>1, <1>2, <2>2 DEF OwnCount, StepType
<1>7. OwnCount(t)
  BY <1>1, <1>2, <1>4, <1>6 DEF OwnCount
<1>8. SharedCount(t)
  BY <1>1, <1>2, <1>3 DEF SharedCount
<1> QED
  BY <1>1, <1>3, <1>7, <1>8, LocalCount

LEMMA LeavingCount ==
    ASSUME IInv, CountInv, NEW s \in Steps, StopPaging(s) \/ LeavePage(s)
    PROVE  CountInv'
<1>1. step[s] \in StepType /\ OwnCount(step[s]) /\ SharedCount(step[s])
  BY DEF IInv, TypeOK, CountInv
<1>2. step[s].pc \in {"paging", "walking"} /\ UNCHANGED <<row, held, lateRecord>>
  BY DEF StopPaging, LeavePage, history
<1>3. \E t : /\ step' = [step EXCEPT ![s] = t]
             /\ t.page \subseteq {} /\ t.cursor = step[s].cursor /\ t.from = step[s].from
             /\ t.missed = step[s].missed /\ t.load = step[s].load
  <2>1. CASE StopPaging(s)
    <3> DEFINE t == [step[s] EXCEPT !.pc = "recording"]
    <3>1. step' = [step EXCEPT ![s] = t]
      BY <2>1 DEF StopPaging
    <3>2. step[s].page = {}
      BY <2>1 DEF StopPaging, IInv, StepInv, PageInHand
    <3>3. t.page = {} /\ t.cursor = step[s].cursor /\ t.from = step[s].from
          /\ t.missed = step[s].missed /\ t.load = step[s].load
      BY <1>1, <3>2 DEF StepType
    <3> QED
      BY <3>1, <3>3
  <2>2. CASE LeavePage(s)
    <3> DEFINE t == [step[s] EXCEPT
                       !.pc = IF Reached(step[s].total, step[s].cursor) \/ step[s].page # {}
                              THEN "recording" ELSE "paging",
                       !.page = {}, !.finished = Reached(step[s].total, step[s].cursor)]
    <3>1. step' = [step EXCEPT ![s] = t]
      BY <2>2 DEF LeavePage
    <3>2. t.page = {} /\ t.cursor = step[s].cursor /\ t.from = step[s].from
          /\ t.missed = step[s].missed /\ t.load = step[s].load
      BY <1>1 DEF StepType
    <3> QED
      BY <3>1, <3>2
  <2> QED
    BY <2>1, <2>2
<1>4. PICK t : /\ step' = [step EXCEPT ![s] = t]
               /\ t.page \subseteq {} /\ t.cursor = step[s].cursor /\ t.from = step[s].from
               /\ t.missed = step[s].missed /\ t.load = step[s].load
  BY <1>3
<1>5. OwnCount(t)
  BY <1>1, <1>4 DEF OwnCount, Behind
<1>6. SharedCount(t)
  BY <1>1, <1>2, <1>4 DEF SharedCount
<1> QED
  BY <1>2, <1>4, <1>5, <1>6, LocalCount

(* More complete records held never make a count too small. *)
LEMMA HeldGrows ==
    ASSUME held \subseteq held', NEW t \in StepType, OwnCount(t)
    PROVE  OwnCount(t)'
<1>0. t.missed \in Nat
  BY DEF StepType
<1>1. Cardinality(Behind(t)') <= t.missed
  <2>1. Behind(t) \in SUBSET Offsets /\ Behind(t)' \in SUBSET Behind(t)
    BY DEF Behind
  <2>2. Cardinality(Behind(t)') <= Cardinality(Behind(t))
        /\ Cardinality(Behind(t)') \in Nat /\ Cardinality(Behind(t)) \in Nat
    BY <2>1, CountMonotone
  <2> QED
    BY <1>0, <2>2 DEF OwnCount
<1>2. ASSUME NEW p \in t.page PROVE Cardinality(PassedOver(t, p)') <= t.missed
  <2>1. PassedOver(t, p) \in SUBSET Offsets /\ PassedOver(t, p)' \in SUBSET PassedOver(t, p)
    BY DEF PassedOver
  <2>2. Cardinality(PassedOver(t, p)') <= Cardinality(PassedOver(t, p))
        /\ Cardinality(PassedOver(t, p)') \in Nat /\ Cardinality(PassedOver(t, p)) \in Nat
    BY <2>1, CountMonotone
  <2> QED
    BY <1>0, <2>2 DEF OwnCount
<1> QED
  BY <1>1, <1>2 DEF OwnCount

LEMMA MissedCounts ==
    ASSUME NEW outcome
    PROVE  Missed(outcome) \in Nat /\ (outcome # "stored" => 1 <= Missed(outcome))
<1>1. outcome = "stored" => Missed(outcome) = 0
  BY DEF Missed
<1>2. outcome = "cut short, not stored" => Missed(outcome) = 2
  BY DEF Missed
<1>3. outcome # "stored" /\ outcome # "cut short, not stored" => Missed(outcome) = 1
  BY Zenon DEF Missed
<1>4. Missed(outcome) \in {0, 1, 2} /\ (outcome # "stored" => Missed(outcome) \in {1, 2})
  BY <1>1, <1>2, <1>3, Zenon
<1> QED
  BY <1>4

(* The funder just read is stored complete or counted as missing. *)
LEMMA WalkedCount ==
    ASSUME IInv, CountInv, NEW s \in Steps, NEW t \in StepType, NEW p \in step[s].page,
           NEW outcome \in Endings, step[s].pc = "walking",
           \A q \in step[s].page : p <= q,
           t.page = step[s].page \ {p}, t.cursor = step[s].cursor + 1,
           t.missed = step[s].missed + Missed(outcome), t.from = step[s].from,
           held' = IF outcome = "stored" THEN held \cup {p} ELSE held
    PROVE  OwnCount(t)'
<1>1. step[s] \in StepType /\ OwnCount(step[s]) /\ StepInv(step[s])
  BY DEF IInv, TypeOK, CountInv
<1>2. p \in Offsets /\ step[s].page \subseteq Offsets /\ Offsets \subseteq Nat
      /\ step[s].missed \in Nat /\ step[s].cursor \in Nat /\ step[s].from \in Nat
  BY <1>1 DEF StepType, Offsets
<1>3. step[s].cursor + 1 <= p
  BY <1>1, <1>2 DEF StepInv, PageAhead
<1>4. Missed(outcome) \in Nat /\ (outcome # "stored" => 1 <= Missed(outcome))
  BY MissedCounts
<1>5. ASSUME NEW B \in SUBSET Offsets, NEW A \in SUBSET (B \cup {p}),
             Cardinality(B) <= step[s].missed, outcome = "stored" => A \subseteq B
      PROVE  Cardinality(A) <= t.missed
  <2>1. Cardinality(A) \in Nat /\ Cardinality(B) \in Nat
    BY <1>2, CountMonotone
  <2>2. CASE outcome = "stored"
    <3>1. Cardinality(A) <= Cardinality(B)
      BY <1>5, <2>2, CountMonotone
    <3> QED
      BY <1>2, <1>4, <1>5, <2>1, <3>1
  <2>3. CASE outcome # "stored"
    <3>1. Cardinality(A) <= Cardinality(B) + 1
      BY <1>2, CountOneMore
    <3> QED
      BY <1>2, <1>4, <1>5, <2>1, <2>3, <3>1
  <2> QED
    BY <2>2, <2>3
<1>6. Cardinality(Behind(t)') <= t.missed
  <2>1. PassedOver(step[s], p) \in SUBSET Offsets
    BY DEF PassedOver
  <2>2. Behind(t)' \in SUBSET (PassedOver(step[s], p) \cup {p})
    <3> SUFFICES ASSUME NEW q \in Offsets \ NoOrgId, step[s].from < q, q <= step[s].cursor + 1,
                        q \notin held', q # p
                 PROVE  q \in (Offsets \ NoOrgId) \ step[s].page /\ q < p /\ q \notin held
      BY DEF Behind, PassedOver
    <3>1. q \in Nat /\ p \in Nat
      BY <1>2
    <3>2. q < p
      BY <1>2, <1>3, <3>1
    <3> QED
      BY <3>1, <3>2
  <2>3. outcome = "stored" => Behind(t)' \subseteq PassedOver(step[s], p)
    BY <2>2 DEF Behind
  <2>4. Cardinality(PassedOver(step[s], p)) <= step[s].missed
    BY <1>1 DEF OwnCount
  <2> QED
    BY <1>5, <2>1, <2>2, <2>3, <2>4
<1>7. ASSUME NEW r \in t.page PROVE Cardinality(PassedOver(t, r)') <= t.missed
  <2>1. PassedOver(step[s], r) \in SUBSET Offsets
    BY DEF PassedOver
  <2>2. PassedOver(t, r)' \in SUBSET (PassedOver(step[s], r) \cup {p})
    BY DEF PassedOver
  <2>3. outcome = "stored" => PassedOver(t, r)' \subseteq PassedOver(step[s], r)
    BY <2>2 DEF PassedOver
  <2>4. Cardinality(PassedOver(step[s], r)) <= step[s].missed
    BY <1>1 DEF OwnCount
  <2> QED
    BY <1>5, <2>1, <2>2, <2>3, <2>4
<1> QED
  BY <1>6, <1>7 DEF OwnCount

LEMMA WalkFunderCount ==
    ASSUME IInv, CountInv, NEW s \in Steps, WalkFunder(s)
    PROVE  CountInv'
<1>1. PICK p \in step[s].page, outcome \in Endings, t \in StepType :
        /\ \A q \in step[s].page : p <= q
        /\ step' = [step EXCEPT ![s] = t]
        /\ t.page = step[s].page \ {p} /\ t.cursor = step[s].cursor + 1
        /\ t.missed = step[s].missed + Missed(outcome)
        /\ t.pc = step[s].pc /\ t.load = step[s].load /\ t.from = step[s].from
        /\ held' = IF outcome = "stored" THEN held \cup {p} ELSE held
  BY WalkedOne
<1>2. step[s].pc = "walking" /\ UNCHANGED <<row, lateRecord>>
  BY DEF WalkFunder
<1>3. OwnCount(t)'
  BY <1>1, <1>2, WalkedCount
<1>4. held \subseteq held'
  BY <1>1
<1>5. row \in RowType /\ row.missed \in Nat
  BY DEF IInv, TypeOK, RowType
<1>6. ASSUME NEW o \in Nat, Cardinality(Below(o) \ held) <= row.missed
      PROVE  Cardinality(Below(o) \ held') <= row.missed
  <2>1. Below(o) \ held \in SUBSET Offsets /\ Below(o) \ held' \in SUBSET (Below(o) \ held)
    BY <1>4 DEF Below
  <2>2. Cardinality(Below(o) \ held') <= Cardinality(Below(o) \ held)
        /\ Cardinality(Below(o) \ held') \in Nat /\ Cardinality(Below(o) \ held) \in Nat
    BY <2>1, CountMonotone
  <2> QED
    BY <1>5, <1>6, <2>2
<1>7. MissingIsCounted'
  <2>1. row.cursor \in Nat
    BY DEF IInv, TypeOK, RowType
  <2> QED
    BY <1>2, <1>6, <2>1 DEF CountInv, MissingIsCounted, Below
<1>8. ASSUME NEW r \in Steps PROVE (OwnCount(step[r]) /\ SharedCount(step[r]))'
  <2>1. step[r] \in StepType /\ step[r].from \in Nat
        /\ OwnCount(step[r]) /\ SharedCount(step[r])
    BY DEF IInv, TypeOK, CountInv, StepType
  <2>2. step'[r].pc = step[r].pc /\ step'[r].load = step[r].load /\ step'[r].from = step[r].from
        /\ (r # s => step'[r] = step[r]) /\ (r = s => step'[r] = t)
    BY <1>1 DEF IInv, TypeOK
  <2>3. OwnCount(step[r])'
    <3>1. CASE r = s
      BY <1>3, <2>2, <3>1 DEF OwnCount, Behind, PassedOver
    <3>2. CASE r # s
      <4>1. PICK u \in StepType : u = step[r]
        BY <2>1
      <4>2. OwnCount(u)'
        BY <1>4, <2>1, <4>1, HeldGrows
      <4> QED
        BY <2>2, <3>2, <4>1, <4>2 DEF OwnCount, Behind, PassedOver
    <3> QED
      BY <3>1, <3>2
  <2>4. SharedCount(step[r])'
    BY <1>2, <1>6, <2>1, <2>2 DEF SharedCount, Below
  <2> QED
    BY <2>3, <2>4
<1> QED
  BY <1>7, <1>8 DEF CountInv

(* A step of the current load adds what it missed to a row that has counted *)
(* all that is missing below the offset it began at.                        *)
LEMMA RecordCount ==
    ASSUME IInv, CountInv, NEW s \in Steps, Record(s)
    PROVE  CountInv'
<1>1. row \in RowType /\ step[s] \in StepType /\ step[s].pc = "recording"
      /\ row.missed \in Nat /\ step[s].missed \in Nat
      /\ OwnCount(step[s]) /\ SharedCount(step[s])
  BY DEF IInv, TypeOK, RowType, StepType, CountInv, Record
<1>2. held' = held
  BY DEF Record
<1>3. /\ row'.load = row.load
      /\ row'.missed \in Nat /\ row.missed <= row'.missed
      /\ ~lateRecord' => ~lateRecord
  <2>1. CASE row.started
    <3>1. row'.load = row.load /\ row'.missed = row.missed + step[s].missed
      BY <1>1, <2>1 DEF Record, RowType
    <3>2. ~lateRecord' => ~lateRecord
      BY <2>1 DEF Record
    <3> QED
      BY <1>1, <3>1, <3>2
  <2>2. CASE ~row.started
    BY <1>1, <2>2 DEF Record
  <2> QED
    BY <2>1, <2>2
<1>4. MissingIsCounted'
  <2>1. CASE row.started
    <3> SUFFICES ASSUME ~lateRecord'
                 PROVE  Cardinality(Below(step[s].cursor) \ held) <= row.missed + step[s].missed
      BY <1>1, <1>2, <2>1 DEF MissingIsCounted, Record, RowType, Below
    <3>1. ~lateRecord /\ step[s].load = row.load
      BY <2>1 DEF Record
    <3>2. Cardinality(Below(step[s].from) \ held) <= row.missed
      BY <1>1, <3>1 DEF SharedCount
    <3>3. Below(step[s].cursor) \ held \in SUBSET ((Below(step[s].from) \ held) \cup Behind(step[s]))
      BY <1>1 DEF Below, Behind, StepType, Offsets
    <3>4. Below(step[s].from) \ held \in SUBSET Offsets /\ Behind(step[s]) \in SUBSET Offsets
          /\ Below(step[s].cursor) \ held \in SUBSET Offsets
      BY DEF Below, Behind
    <3>5. Cardinality(Below(step[s].cursor) \ held)
            <= Cardinality(Below(step[s].from) \ held) + Cardinality(Behind(step[s]))
      BY <3>3, <3>4, CountUnion
    <3>6. Cardinality(Below(step[s].cursor) \ held) \in Nat
          /\ Cardinality(Below(step[s].from) \ held) \in Nat
          /\ Cardinality(Behind(step[s])) \in Nat
      BY <3>4, CountMonotone
    <3> QED
      BY <1>1, <3>2, <3>5, <3>6 DEF OwnCount
  <2>2. CASE ~row.started
    BY <2>2 DEF Record, CountInv, MissingIsCounted, Below
  <2> QED
    BY <2>1, <2>2
<1>5. ASSUME NEW r \in Steps PROVE (OwnCount(step[r]) /\ SharedCount(step[r]))'
  <2>1. step'[r] = Idle \/ step'[r] = step[r]
    BY DEF Record, IInv, TypeOK
  <2>2. CASE step'[r] = Idle
    <3>1. OwnCount(Idle)
      BY IdleInv, FreshCount DEF Idle
    <3>2. Idle.load = 0 /\ Idle.pc = "idle" /\ row'.load \in Nat
      BY <1>1, <1>3 DEF Idle, RowType
    <3> QED
      BY <1>2, <2>2, <3>1, <3>2 DEF OwnCount, SharedCount, Behind, PassedOver
  <2>3. CASE step'[r] = step[r]
    <3>1. OwnCount(step[r])'
      BY <1>2, <2>3 DEF CountInv, OwnCount, Behind, PassedOver
    <3>2. Cardinality(Below(step[r].from) \ held) \in Nat
      <4>1. Below(step[r].from) \ held \in SUBSET Offsets
        BY DEF Below
      <4> QED
        BY <4>1, CountMonotone
    <3>3. SharedCount(step[r])'
      BY <1>1, <1>2, <1>3, <2>3, <3>2 DEF CountInv, SharedCount, Below
    <3> QED
      BY <3>1, <3>3
  <2> QED
    BY <2>1, <2>2, <2>3
<1> QED
  BY <1>4, <1>5 DEF CountInv

(* A restart is a load of its own, to which no step in flight belongs. *)
LEMMA RestartCount ==
    ASSUME IInv, CountInv, Restart
    PROVE  CountInv'
<1>1. row'.cursor = 0 /\ row'.missed = 0 /\ row'.load = row.load + 1
      /\ UNCHANGED <<step, held>> /\ row.load \in Nat
  BY DEF Restart, EmptyRow, IInv, TypeOK, RowType
<1>2. (Below(row.cursor) \ held)' = {}
  BY <1>1 DEF Below, Offsets
<1>3. MissingIsCounted'
  BY <1>1, <1>2, CountEmpty DEF MissingIsCounted
<1>4. ASSUME NEW r \in Steps PROVE (OwnCount(step[r]) /\ SharedCount(step[r]))'
  <2>1. OwnCount(step[r])'
    BY <1>1 DEF CountInv, OwnCount, Behind, PassedOver
  <2>2. step[r].load \in Nat /\ step[r].load <= row.load
    BY DEF CountInv, SharedCount, IInv, TypeOK, StepType
  <2> QED
    BY <1>1, <2>1, <2>2 DEF SharedCount
<1> QED
  BY <1>3, <1>4 DEF CountInv

LEMMA NextCount ==
    ASSUME IInv, CountInv, [Next]_vars
    PROVE  CountInv'
<1>1. ASSUME NEW s \in Steps, StepActions(s) PROVE CountInv'
  BY <1>1, EarlyCount, ReadCursorCount, FetchPageCount, LeavingCount, WalkFunderCount,
     RecordCount DEF StepActions
<1>2. CASE TimePasses \/ ListGrows \/ UNCHANGED vars
  <2>1. UNCHANGED <<row, step, held, lateRecord>>
    BY <1>2 DEF TimePasses, ListGrows, vars, history
  <2> QED
    BY <2>1 DEF CountInv, MissingIsCounted, OwnCount, SharedCount, Behind, PassedOver, Below
<1> QED
  BY <1>1, <1>2, RestartCount DEF Next

(* Each funder below the cursor whose complete record is not stored is in   *)
(* one of the two counters, for any number of overlapping steps, crashes    *)
(* and restarts, as long as no step of an earlier load recorded into this   *)
(* one.                                                                     *)
THEOREM SpecMissingIsCounted == Spec => []MissingIsCounted
<1>1. CountInv => MissingIsCounted
  BY DEF CountInv
<1>2. IInv /\ CountInv /\ [Next]_vars => CountInv'
  BY NextCount
<1> QED
  BY InitCount, SpecIInv, <1>1, <1>2, PTL DEF Spec
=============================================================================
