-------------------------- MODULE ContestedRowProofs --------------------------
(***************************************************************************)
(* Proofs about the machines of ContestedRow, each for every value of its  *)
(* constants and then side by side: AwardShelf and the contract it         *)
(* implements, CorpusClock, AttemptLimit, Serving, Fetching and Prospects. *)
(***************************************************************************)
EXTENDS ContestedRow, TotalFacts

(***************************************************************************)
(* The shelf.  DecisionHolds compares a writer's read with a shelf others  *)
(* may write; it is inductive together with LockHeld, which says that      *)
(* nobody else is in the same stretch of the transaction.                  *)
(***************************************************************************)

(* From the upsert of the dataset row to the end of its transaction a       *)
(* writer holds the lock of that row.                                       *)
LockHeld ==
    \A w \in Writers :
        writer[w].pc \in {"dataset", "funder", "replacing"} => datasetLock = w

OnlyTheWalk == ~ByHand => \A w \in Writers : writer[w].path = "walk"

IInv == TypeOK /\ LockHeld /\ DecisionHolds /\ OnlyTheWalk

-----------------------------------------------------------------------------
LEMMA RestingType == Resting \in WriterType
  BY ShelfAssumption DEF Resting, WriterType

LEMMA InitIInv == Init => IInv
<1> SUFFICES ASSUME Init PROVE IInv
  OBVIOUS
<1>1. TypeOK
  BY RestingType, ShelfAssumption DEF Init, TypeOK, Empty, Shelves
<1>2. LockHeld /\ DecisionHolds /\ OnlyTheWalk
  BY DEF Init, LockHeld, DecisionHolds, OnlyTheWalk, Resting
<1> QED
  BY <1>1, <1>2 DEF IInv

(* A writer that ends its transaction, having left the shelf alone. *)
LEMMA ReleaseStep ==
    ASSUME IInv, NEW w \in Writers, Release(w), UNCHANGED shelf
    PROVE  IInv'
<1>1. TypeOK'
  BY RestingType, ShelfAssumption DEF IInv, TypeOK, Release
<1>2. \A v \in Writers : v # w => writer'[v] = writer[v]
  BY DEF IInv, TypeOK, Release
<1>3. writer'[w] = Resting
  BY DEF IInv, TypeOK, Release
<1>4. LockHeld'
  BY <1>2, <1>3 DEF IInv, LockHeld, Release, Resting
<1>5. DecisionHolds'
  BY <1>2, <1>3 DEF IInv, DecisionHolds, Resting
<1>6. OnlyTheWalk'
  BY <1>2, <1>3 DEF IInv, OnlyTheWalk, Resting
<1> QED
  BY <1>1, <1>4, <1>5, <1>6 DEF IInv

LEMMA FetchStep ==
    ASSUME IInv, NEW w \in Writers, Fetch(w)
    PROVE  IInv'
<1>1. PICK n \in 0..MaxAwards, cut \in BOOLEAN, path \in Paths :
        writer' = [writer EXCEPT ![w] =
                     [pc |-> "fetched", path |-> path, n |-> n, cut |-> cut]]
  BY DEF Fetch
<1> DEFINE t == [pc |-> "fetched", path |-> path, n |-> n, cut |-> cut]
<1>2. t \in WriterType
  BY DEF WriterType, Paths
<1>3. writer' \in [Writers -> WriterType]
  BY <1>1, <1>2 DEF IInv, TypeOK
<1>4. \A v \in Writers : v # w => writer'[v] = writer[v]
  BY <1>1 DEF IInv, TypeOK
<1>5. writer'[w] = t
  BY <1>1 DEF IInv, TypeOK
<1>6. writer'[w].pc = "fetched" /\ writer'[w].path \in Paths
  BY <1>5
<1>7. TypeOK'
  BY <1>3 DEF IInv, TypeOK, Fetch
<1>8. LockHeld' /\ DecisionHolds'
  BY <1>4, <1>6 DEF IInv, LockHeld, DecisionHolds, Fetch
<1>9. OnlyTheWalk'
  BY <1>4, <1>6 DEF IInv, OnlyTheWalk, Paths
<1> QED
  BY <1>7, <1>8, <1>9 DEF IInv

(* A writer that goes on to its next statement, keeping what it fetched. *)
LEMMA NextStatement ==
    ASSUME IInv, NEW w \in Writers,
           NEW pc \in {"dataset", "funder", "replacing"},
           writer' = [writer EXCEPT ![w].pc = pc],
           shelf' = shelf, datasetLock' = w, funderLock' \in Writers \cup {NoOne},
           datasetLock \in {NoOne, w},
           pc = "replacing" => ~(GuardsPartial(w) /\ Smaller(w))
    PROVE  IInv'
<1>1. writer[w] \in WriterType
  BY DEF IInv, TypeOK
<1>2. writer'[w].pc = pc /\ writer'[w].path = writer[w].path
      /\ writer'[w].n = writer[w].n /\ writer'[w].cut = writer[w].cut
  BY <1>1 DEF IInv, TypeOK, WriterType
<1>3. \A v \in Writers : v # w => writer'[v] = writer[v]
  BY DEF IInv, TypeOK
<1>4. TypeOK'
  <2>1. [writer[w] EXCEPT !.pc = pc] \in WriterType
    BY <1>1 DEF WriterType
  <2> QED
    BY <2>1 DEF IInv, TypeOK
<1>5. LockHeld'
  BY <1>2, <1>3, ShelfAssumption DEF IInv, LockHeld
<1>6. DecisionHolds'
  <2>1. writer[w].n \in Nat /\ shelf.n \in Nat
    BY <1>1, ShelfAssumption DEF IInv, TypeOK, WriterType, Shelves
  <2>2. writer'[w].pc = "replacing" /\ writer'[w].path = "walk" /\ writer'[w].cut
          => writer'[w].n >= shelf.n
    BY <1>2, <2>1 DEF GuardsPartial, Smaller
  <2> QED
    BY <1>3, <2>2 DEF IInv, DecisionHolds
<1>7. OnlyTheWalk'
  BY <1>2, <1>3 DEF IInv, OnlyTheWalk
<1> QED
  BY <1>4, <1>5, <1>6, <1>7 DEF IInv

LEMMA UpsertDatasetStep ==
    ASSUME IInv, NEW w \in Writers, UpsertDataset(w)
    PROVE  IInv'
  BY NextStatement DEF UpsertDataset, IInv, TypeOK

LEMMA UpsertFunderStep ==
    ASSUME IInv, NEW w \in Writers, UpsertFunder(w)
    PROVE  IInv'
<1>1. datasetLock = w
  BY DEF UpsertFunder, IInv, LockHeld
<1> QED
  BY <1>1, NextStatement DEF UpsertFunder

LEMMA GoOnStep ==
    ASSUME IInv, NEW w \in Writers, GoOn(w)
    PROVE  IInv'
<1>1. datasetLock = w
  BY DEF GoOn, IInv, LockHeld
<1> QED
  BY <1>1, NextStatement DEF GoOn, IInv, TypeOK

(* Nobody else is about to replace, so no decision is overtaken. *)
LEMMA ReplaceStep ==
    ASSUME IInv, NEW w \in Writers, Replace(w)
    PROVE  IInv'
<1>1. writer[w] \in WriterType /\ datasetLock = w
  BY DEF Replace, IInv, TypeOK, LockHeld
<1>2. shelf' \in Shelves
  BY <1>1 DEF Replace, Shelves, WriterType
<1>3. \A v \in Writers : v # w => writer'[v] = writer[v]
  BY DEF Replace, Release, IInv, TypeOK
<1>4. writer'[w] = Resting
  BY DEF Replace, Release, IInv, TypeOK
<1>5. TypeOK'
  BY <1>2, RestingType, ShelfAssumption DEF Replace, Release, IInv, TypeOK
<1>6. \A v \in Writers : v # w => writer[v].pc # "replacing"
  BY <1>1 DEF IInv, LockHeld
<1>7. LockHeld'
  BY <1>3, <1>4 DEF IInv, LockHeld, Replace, Release, Resting
<1>8. DecisionHolds'
  BY <1>3, <1>4, <1>6 DEF DecisionHolds, Resting
<1>9. OnlyTheWalk'
  BY <1>3, <1>4 DEF IInv, OnlyTheWalk, Resting
<1> QED
  BY <1>5, <1>7, <1>8, <1>9 DEF IInv

LEMMA RemoveFunderStep ==
    ASSUME IInv, RemoveFunder
    PROVE  IInv'
<1>1. TypeOK' /\ shelf'.n = 0
  BY ShelfAssumption DEF RemoveFunder, IInv, TypeOK, Empty, Shelves
<1>2. LockHeld' /\ OnlyTheWalk'
  BY DEF RemoveFunder, IInv, LockHeld, OnlyTheWalk
<1>3. DecisionHolds'
  BY <1>1, ShelfAssumption DEF RemoveFunder, IInv, TypeOK, DecisionHolds, WriterType
<1> QED
  BY <1>1, <1>2, <1>3 DEF IInv

LEMMA StutterStep == IInv /\ UNCHANGED vars => IInv'
  BY DEF vars, IInv, TypeOK, LockHeld, DecisionHolds, OnlyTheWalk

-----------------------------------------------------------------------------
(* The invariant of the proof holds in every reachable state. *)
THEOREM SpecIInv == Spec => []IInv
<1>1. IInv /\ [Next]_vars => IInv'
  <2> SUFFICES ASSUME IInv, [Next]_vars PROVE IInv'
    OBVIOUS
  <2>1. ASSUME NEW w \in Writers, KeepFuller(w) \/ RollBack(w) PROVE IInv'
    BY <2>1, ReleaseStep DEF KeepFuller, RollBack
  <2> QED
    BY <2>1, FetchStep, UpsertDatasetStep, UpsertFunderStep, GoOnStep, ReplaceStep,
       RemoveFunderStep, StutterStep DEF Next
<1> QED
  BY InitIInv, <1>1, PTL DEF Spec

(* The stored rows, the row locks and the writers keep their types. *)
THEOREM SpecTypeOK == Spec => []TypeOK
<1>1. IInv => TypeOK
  BY DEF IInv
<1> QED
  BY SpecIInv, <1>1, PTL

(* However many writers overlap, a walk step that has decided to replace is *)
(* still right to when its delete runs: its cut-short read is no smaller    *)
(* than what it deletes.                                                    *)
THEOREM SpecDecisionHolds == Spec => []DecisionHolds
<1>1. IInv => DecisionHolds
  BY DEF IInv
<1> QED
  BY SpecIInv, <1>1, PTL

-----------------------------------------------------------------------------
(* A step of the writers is a step of the contract, or leaves the shelf     *)
(* alone.                                                                   *)
LEMMA StepImplements ==
    ASSUME ~ByHand, IInv, [Next]_vars
    PROVE  [Contract!Next]_shelf
<1>1. ASSUME NEW w \in Writers, Replace(w) PROVE Contract!Next
  <2>1. writer[w] \in WriterType /\ shelf \in Shelves
    BY DEF IInv, TypeOK
  <2>2. CASE writer[w].cut
    <3>1. writer[w].n >= shelf.n
      BY <1>1, <2>2 DEF Replace, IInv, DecisionHolds, OnlyTheWalk
    <3>2. writer[w].n \in shelf.n..MaxAwards
      BY <2>1, <3>1, ShelfAssumption DEF WriterType, Shelves
    <3>3. shelf' = [n |-> writer[w].n, whole |-> FALSE]
      BY <1>1, <2>2 DEF Replace
    <3>4. Contract!CutShortRead
      BY <3>2, <3>3 DEF Contract!CutShortRead
    <3> QED
      BY <3>4 DEF Contract!Next
  <2>3. CASE ~writer[w].cut
    <3>1. shelf' = [n |-> writer[w].n, whole |-> TRUE]
      BY <1>1, <2>3 DEF Replace
    <3>2. Contract!WholeRead
      BY <2>1, <3>1 DEF Contract!WholeRead, WriterType
    <3> QED
      BY <3>2 DEF Contract!Next
  <2> QED
    BY <2>1, <2>2, <2>3 DEF WriterType
<1>2. ASSUME RemoveFunder PROVE Contract!Next
  BY <1>2 DEF RemoveFunder, Empty, Contract!Next, Contract!Removed, Contract!Empty
<1>3. ASSUME NEW w \in Writers,
             Fetch(w) \/ UpsertDataset(w) \/ UpsertFunder(w) \/ KeepFuller(w)
             \/ GoOn(w) \/ RollBack(w)
      PROVE  UNCHANGED shelf
  BY <1>3 DEF Fetch, UpsertDataset, UpsertFunder, KeepFuller, GoOn, RollBack
<1>4. ASSUME UNCHANGED vars PROVE UNCHANGED shelf
  BY <1>4 DEF vars
<1> QED
  BY <1>1, <1>2, <1>3, <1>4 DEF Next

(* When only the walk writes, any number of overlapping steps and removals  *)
(* together behave as the contract that readers of the record rely on.      *)
THEOREM WalkImplementsContract ==
    ASSUME ~ByHand
    PROVE  Spec => ImplementsContract
<1>1. Init => Contract!Init
  BY DEF Init, Empty, Contract!Init, Contract!Empty
<1>2. IInv /\ [Next]_vars => [Contract!Next]_shelf
  BY StepImplements
<1> QED
  BY SpecIInv, <1>1, <1>2, PTL DEF Spec, ImplementsContract, Contract!Spec

-----------------------------------------------------------------------------
(***************************************************************************)
(* The clock.  corpusStanding looks at three timestamps and knows nothing  *)
(* of what really moved the load last.  Once the load has progressed, that *)
(* is progressed_at; before, it is started_at, and no attempt is older     *)
(* than the start.                                                         *)
(***************************************************************************)
ClockInv ==
    /\ ClockTypeOK
    /\ quiet = IF progressedAt # Never THEN progressedAt ELSE startedAt
    /\ updatedAt # Never => updatedAt <= startedAt

(* The ages of timestamps, as arithmetic sees them. *)
LEMMA AgesAreNumbers ==
    /\ \A a \in Stamp : a # Never => a \in 0..4
    /\ Never \in Stamp /\ 0 \in Stamp /\ 0 # Never
  BY ClockAssumption DEF Stamp, Ages, Old, StalledAfter

LEMMA OlderAges ==
    /\ Older(Never) = Never
    /\ \A a \in Stamp :
         /\ Older(a) \in Stamp
         /\ a # Never => /\ Older(a) # Never /\ Older(a) \in 0..4
                         /\ Older(a) = IF a = 4 THEN 4 ELSE a + 1
  BY ClockAssumption DEF Stamp, Ages, Old, StalledAfter, Older

LEMMA ClockStarts == ClockInit => ClockInv
<1> SUFFICES ASSUME ClockInit PROVE ClockInv
  OBVIOUS
<1>1. ClockTypeOK
  <2>1. CASE startedAt = Never /\ updatedAt = Never /\ quiet = Never
    BY <2>1, AgesAreNumbers DEF ClockInit, ClockTypeOK, MaxInFlight
  <2>2. CASE startedAt \in Ages /\ updatedAt \in 0..startedAt /\ quiet = startedAt
    <3>1. startedAt \in Stamp /\ updatedAt \in Stamp /\ startedAt # Never
      BY <2>2, ClockAssumption DEF Stamp, Ages, Old, StalledAfter
    <3> QED
      BY <2>2, <3>1, AgesAreNumbers DEF ClockInit, ClockTypeOK, MaxInFlight
  <2> QED
    BY <2>1, <2>2 DEF ClockInit
<1>2. quiet = startedAt /\ progressedAt = Never
  BY DEF ClockInit
<1>3. updatedAt # Never => updatedAt <= startedAt
  BY DEF ClockInit, Ages, Old, StalledAfter
<1> QED
  BY <1>1, <1>2, <1>3 DEF ClockInv

LEMMA TimePassesOnTheClock ==
    ASSUME ClockInv, TwelveHoursPass
    PROVE  ClockInv'
<1> USE DEF ClockInv, ClockTypeOK, TwelveHoursPass
<1>1. ClockTypeOK'
  BY OlderAges, AgesAreNumbers
<1>2. quiet' = IF progressedAt' # Never THEN progressedAt' ELSE startedAt'
  BY OlderAges
<1>3. updatedAt' # Never => updatedAt' <= startedAt'
  BY OlderAges, AgesAreNumbers
<1> QED
  BY <1>1, <1>2, <1>3

LEMMA ClockInvStep == ClockInv /\ [ClockNext]_clockVars => ClockInv'
<1> SUFFICES ASSUME ClockInv, [ClockNext]_clockVars PROVE ClockInv'
  OBVIOUS
<1>1. CASE Claim
  BY <1>1, AgesAreNumbers DEF ClockInv, ClockTypeOK, Claim, Or, MaxInFlight
<1>2. CASE StepByHand
  BY <1>2 DEF ClockInv, ClockTypeOK, StepByHand, clocks, MaxInFlight
<1>3. CASE Die
  BY <1>3 DEF ClockInv, ClockTypeOK, Die, clocks, MaxInFlight
<1>4. CASE Restart
  BY <1>4, AgesAreNumbers DEF ClockInv, ClockTypeOK, Restart
<1>5. CASE TwelveHoursPass
  BY <1>5, TimePassesOnTheClock
<1>6. CASE \E moved, finished \in BOOLEAN : Record(moved, finished)
  <2>1. PICK moved \in BOOLEAN, finished \in BOOLEAN : Record(moved, finished)
    BY <1>6
  <2>2. CASE NoRow
    BY <2>1, <2>2 DEF ClockInv, ClockTypeOK, Record, clocks, MaxInFlight
  <2>3. CASE ~NoRow
    <3>1. ClockTypeOK'
      BY <2>1, <2>3, AgesAreNumbers DEF ClockInv, ClockTypeOK, Record, NoRow, MaxInFlight
    <3>2. quiet' = IF progressedAt' # Never THEN progressedAt' ELSE startedAt'
      BY <2>1, <2>3, AgesAreNumbers DEF ClockInv, Record
    <3>3. updatedAt' # Never => updatedAt' <= startedAt'
      BY <2>1, <2>3, AgesAreNumbers DEF ClockInv, ClockTypeOK, Record, NoRow
    <3> QED
      BY <3>1, <3>2, <3>3 DEF ClockInv
  <2> QED
    BY <2>2, <2>3
<1>7. CASE UNCHANGED clockVars
  BY <1>7 DEF ClockInv, ClockTypeOK, clockVars
<1> QED
  BY <1>1, <1>2, <1>3, <1>4, <1>5, <1>6, <1>7 DEF ClockNext

LEMMA ClockInvIsHonest == ClockInv => FillingIsHonest
<1> SUFFICES ASSUME ClockInv PROVE FillingIsHonest
  OBVIOUS
<1>1. {startedAt, updatedAt, progressedAt} \subseteq Stamp
  BY DEF ClockInv, ClockTypeOK
<1>2. FillingHasMoved
  BY <1>1 DEF ClockInv, FillingHasMoved, Standing, LastMoved, Or
<1>3. StalledIsReal
  <2> SUFFICES ASSUME Standing = "stalled" PROVE quiet = Old
    BY DEF StalledIsReal
  <2>1. startedAt # Never /\ ~(LastMoved <= StalledAfter)
    BY DEF Standing
  <2>2. CASE progressedAt # Never
    BY <1>1, <2>1, <2>2, AgesAreNumbers DEF ClockInv, LastMoved, Or, Old, StalledAfter
  <2>3. CASE progressedAt = Never /\ updatedAt # Never
    BY <1>1, <2>1, <2>3, AgesAreNumbers DEF ClockInv, LastMoved, Or, Old, StalledAfter
  <2>4. CASE progressedAt = Never /\ updatedAt = Never
    BY <1>1, <2>1, <2>4, AgesAreNumbers DEF ClockInv, LastMoved, Or, Old, StalledAfter
  <2> QED
    BY <2>2, <2>3, <2>4
<1> QED
  BY <1>2, <1>3 DEF FillingIsHonest

(* FillingIsHonest holds of every run of the load: a load said to be        *)
(* filling has moved within 36 hours, one said to be stalled has not        *)
(* (corpusStanding in src/db/corpus.ts).                                    *)
THEOREM SpecFillingIsHonest == ClockSpec => []FillingIsHonest
  BY ClockStarts, ClockInvStep, ClockInvIsHonest, PTL DEF ClockSpec

-----------------------------------------------------------------------------
(***************************************************************************)
(* The start of a deployment and its connections.  A build goes by a list  *)
(* of applied migrations that may be stale; what it knows of them is still *)
(* true, for migrations are never taken back, and BuildsKnow says how much *)
(* it knows.  A connection carries its request's settings because each is  *)
(* held by one request, which holds no other (HeldByOne).                  *)
(***************************************************************************)
Builds == [at : {"idle", "table", "read", "loop", "locked", "recheck"},
           seen : SUBSET (1..Migrations), next : 1..(Migrations + 1)]
Roles == {"owner", "app_operator", "app_user"}
Connections == [by : Requests \cup {Nobody}, role : Roles, tenant : Tenants \cup {Nobody}]
Asks == {Gone} \cup [at : {"waiting", "open", "thrown"}, on : Instances,
                      kind : Kinds, tenant : Tenants]

(* What a build has read, and what it has gone past, is applied. *)
BuildsKnow ==
    \A i \in Instances :
      /\ build[i].seen \subseteq applied
      /\ 1..(build[i].next - 1) \subseteq applied
      /\ build[i].at \in {"locked", "recheck"} => build[i].next <= Migrations

(* A connection in use is in one transaction's hands, and that transaction  *)
(* has no other.                                                            *)
HeldByOne ==
    \A i, j \in Instances, s, t \in Slots :
      pool[i][s].by # Nobody =>
        /\ request[pool[i][s].by].at \in {"open", "thrown"}
        /\ pool[j][t].by = pool[i][s].by => i = j /\ s = t

BuildsInv ==
    /\ ServingTypeOK
    /\ build \in [Instances -> Builds]
    /\ BuildsKnow
    /\ MigrationsRunOnce

PoolInv ==
    /\ pool \in [Instances -> [Slots -> Connections]]
    /\ request \in [Requests -> Asks]
    /\ HeldByOne
    /\ OwnTenantOnly

ServingInv == BuildsInv /\ PoolInv

-----------------------------------------------------------------------------
LEMMA NoBuildIsBuild == NoBuild \in Builds /\ NoBuild.at = "idle" /\ NoBuild.next = 1 /\ NoBuild.seen = {}
  BY ServingAssumption DEF NoBuild, Builds

LEMMA FreshIsFree == Fresh \in Connections /\ Fresh.by = Nobody /\ Fresh = Fresh
  BY DEF Fresh, Connections, Roles

LEMMA GoneIsAsk == Gone \in Asks /\ Gone.at = "away"
  BY DEF Gone, Asks, Kinds

LEMMA ServingStarts == ServingInit => ServingInv
<1> SUFFICES ASSUME ServingInit PROVE ServingInv
  OBVIOUS
<1>1. PICK n \in 0..Migrations : applied = IF table THEN 1..n ELSE {}
  BY DEF ServingInit
<1>2. \E m \in 0..Migrations : applied = 1..m
  <2>1. CASE table
    BY <1>1, <2>1
  <2>2. CASE ~table
    <3>1. applied = 1..0
      BY <1>1, <2>2
    <3> QED
      BY <3>1, ServingAssumption
  <2> QED
    BY <2>1, <2>2
<1>3. applied \subseteq 1..Migrations
  BY <1>2, ServingAssumption
<1>4. ServingTypeOK
  BY <1>3, NoBuildIsBuild, ServingAssumption DEF ServingInit, ServingTypeOK, Builds
<1>5. build \in [Instances -> Builds] /\ BuildsKnow
  BY NoBuildIsBuild DEF ServingInit, BuildsKnow
<1>6. MigrationsRunOnce
  BY <1>2 DEF ServingInit, MigrationsRunOnce
<1>7. pool \in [Instances -> [Slots -> Connections]] /\ request \in [Requests -> Asks]
  BY FreshIsFree, GoneIsAsk DEF ServingInit
<1>8. HeldByOne /\ OwnTenantOnly
  BY FreshIsFree DEF ServingInit, HeldByOne, OwnTenantOnly
<1> QED
  BY <1>4, <1>5, <1>6, <1>7, <1>8 DEF ServingInv, BuildsInv, PoolInv

-----------------------------------------------------------------------------
(* One build moves, and the migrations stay or grow by the one it runs.    *)
BuildOK(b, ready) ==
    /\ b.seen \subseteq applied' /\ 1..(b.next - 1) \subseteq applied'
    /\ b.at \in {"locked", "recheck"} => b.next <= Migrations
    /\ b.at # "idle" => ready = "building"
    /\ ready = "ready" => applied' = 1..Migrations

LEMMA BuildMoves ==
    ASSUME BuildsInv, NEW i \in Instances, NEW b \in Builds,
           NEW h \in {"none", "building", "ready"},
           handle' = [handle EXCEPT ![i] = h], build' = [build EXCEPT ![i] = b],
           applied' = applied, twice' = twice,
           lock' \in Instances \cup {Nobody}, failures' \in 0..MaxFailures,
           BuildOK(b, h)
    PROVE  BuildsInv'
<1>1. /\ handle' \in [Instances -> {"none", "building", "ready"}]
      /\ build' \in [Instances -> Builds]
  BY DEF BuildsInv, ServingTypeOK
<1>2. \A j \in Instances : j # i => handle'[j] = handle[j] /\ build'[j] = build[j]
  BY DEF BuildsInv, ServingTypeOK
<1>3. handle'[i] = h /\ build'[i] = b
  BY DEF BuildsInv, ServingTypeOK
<1>4. \A j \in Instances : build'[j].at # "idle" => handle'[j] = "building"
  BY <1>2, <1>3 DEF BuildsInv, ServingTypeOK, BuildOK
<1>5. ServingTypeOK'
  BY <1>1, <1>4 DEF BuildsInv, ServingTypeOK, Builds
<1>6. BuildsKnow'
  BY <1>2, <1>3 DEF BuildsInv, BuildsKnow, BuildOK
<1>7. MigrationsRunOnce'
  BY <1>2, <1>3 DEF BuildsInv, MigrationsRunOnce, BuildOK
<1> QED
  BY <1>1, <1>5, <1>6, <1>7 DEF BuildsInv

LEMMA BuildsOfArrive ==
    ASSUME BuildsInv, NEW i \in Instances, Arrive(i)
    PROVE  BuildsInv'
<1>1. /\ handle' = [handle EXCEPT ![i] = IF @ = "none" THEN "building" ELSE @]
      /\ build' = [build EXCEPT ![i] =
            IF handle[i] = "none" THEN [NoBuild EXCEPT !.at = "table"] ELSE @]
      /\ UNCHANGED <<applied, lock, twice, failures>>
  BY DEF Arrive
<1>2. CASE handle[i] = "none"
  <2> DEFINE b == [NoBuild EXCEPT !.at = "table"]
  <2>1. b \in Builds /\ b.at = "table" /\ b.seen = {} /\ b.next = 1
    BY NoBuildIsBuild DEF NoBuild, Builds
  <2>2. handle' = [handle EXCEPT ![i] = "building"] /\ build' = [build EXCEPT ![i] = b]
    BY <1>1, <1>2 DEF BuildsInv, ServingTypeOK
  <2> HIDE DEF b
  <2>3. BuildOK(b, "building")
    BY <2>1 DEF BuildOK
  <2> QED
    BY <1>1, <2>1, <2>2, <2>3, BuildMoves DEF BuildsInv, ServingTypeOK
<1>3. CASE handle[i] # "none"
  <2>1. handle' = handle /\ build' = build
    BY <1>1, <1>3 DEF BuildsInv, ServingTypeOK
  <2> QED
    BY <1>1, <2>1 DEF BuildsInv, ServingTypeOK, BuildsKnow, MigrationsRunOnce
<1> QED
  BY <1>2, <1>3

LEMMA BuildsOfCreateTable ==
    ASSUME BuildsInv, NEW i \in Instances, CreateTable(i)
    PROVE  BuildsInv'
<1>1. PICK lost \in SUBSET {j \in Instances \ {i} : build[j].at = "table" /\ ~table} :
         /\ handle' = Forget(lost)
         /\ build' = [j \in Instances |->
              IF j = i THEN [build[i] EXCEPT !.at = "read"]
              ELSE IF j \in lost THEN NoBuild ELSE build[j]]
  BY DEF CreateTable
<1>2. build[i].at = "table" /\ UNCHANGED <<applied, lock, twice, failures>>
  BY DEF CreateTable
<1> DEFINE b == [build[i] EXCEPT !.at = "read"]
<1>3. b \in Builds /\ b.at = "read" /\ b.seen = build[i].seen /\ b.next = build[i].next
  BY DEF BuildsInv, Builds
<1>4. i \notin lost /\ handle'[i] = handle[i] /\ build'[i] = b
  BY <1>1 DEF Forget
<1>5. \A j \in Instances : j # i /\ j \in lost => handle'[j] = "none" /\ build'[j] = NoBuild
  BY <1>1 DEF Forget
<1>6. \A j \in Instances : j # i /\ j \notin lost => handle'[j] = handle[j] /\ build'[j] = build[j]
  BY <1>1 DEF Forget
<1>7. handle' \in [Instances -> {"none", "building", "ready"}] /\ build' \in [Instances -> Builds]
  BY <1>1, <1>3, NoBuildIsBuild DEF BuildsInv, ServingTypeOK, Forget
<1> HIDE DEF b
<1>8. \A j \in Instances : build'[j].at # "idle" => handle'[j] = "building"
  BY <1>2, <1>3, <1>4, <1>5, <1>6, NoBuildIsBuild DEF BuildsInv, ServingTypeOK
<1>9. ServingTypeOK'
  BY <1>2, <1>7, <1>8 DEF BuildsInv, ServingTypeOK, Builds
<1>10. BuildsKnow'
  <2> SUFFICES ASSUME NEW j \in Instances
               PROVE  /\ build'[j].seen \subseteq applied'
                      /\ 1..(build'[j].next - 1) \subseteq applied'
                      /\ build'[j].at \in {"locked", "recheck"} => build'[j].next <= Migrations
    BY DEF BuildsKnow
  <2>1. CASE j = i
    BY <1>2, <1>3, <1>4, <2>1 DEF BuildsInv, BuildsKnow
  <2>2. CASE j # i /\ j \in lost
    BY <1>2, <1>5, <2>2, NoBuildIsBuild
  <2>3. CASE j # i /\ j \notin lost
    BY <1>2, <1>6, <2>3 DEF BuildsInv, BuildsKnow
  <2> QED
    BY <2>1, <2>2, <2>3
<1>11. MigrationsRunOnce'
  BY <1>2, <1>4, <1>5, <1>6 DEF BuildsInv, MigrationsRunOnce
<1> QED
  BY <1>7, <1>9, <1>10, <1>11 DEF BuildsInv

LEMMA BuildsOfReadApplied ==
    ASSUME BuildsInv, NEW i \in Instances, ReadApplied(i)
    PROVE  BuildsInv'
<1> DEFINE b == [build[i] EXCEPT !.at = "loop", !.seen = applied]
<1>1. build[i].at = "read" /\ UNCHANGED <<handle, applied, lock, twice, failures>>
  BY DEF ReadApplied
<1>2. build[i] \in Builds /\ applied \subseteq 1..Migrations
  BY DEF BuildsInv, ServingTypeOK
<1>3. b \in Builds /\ b.at = "loop" /\ b.seen = applied /\ b.next = build[i].next
  BY <1>2 DEF Builds
<1>4. build' = [build EXCEPT ![i] = b]
  BY <1>2 DEF ReadApplied, BuildsInv, Builds
<1> HIDE DEF b
<1>5. BuildOK(b, handle[i])
  BY <1>1, <1>3 DEF BuildOK, BuildsInv, BuildsKnow, ServingTypeOK, MigrationsRunOnce
<1>6. handle' = [handle EXCEPT ![i] = handle[i]]
  BY <1>1 DEF BuildsInv, ServingTypeOK
<1> QED
  BY <1>1, <1>3, <1>4, <1>5, <1>6, BuildMoves DEF BuildsInv, ServingTypeOK

LEMMA BuildsOfStepOn ==
    ASSUME BuildsInv, NEW i \in Instances, StepOn(i)
    PROVE  BuildsInv'
<1>1. build[i].at = "loop" /\ UNCHANGED <<applied, lock, twice, failures>>
  BY DEF StepOn
<1>2. build[i] \in Builds /\ handle[i] = "building" /\ Migrations \in Nat
  BY <1>1, ServingAssumption DEF BuildsInv, ServingTypeOK
<1>3. build[i].seen \subseteq applied /\ 1..(build[i].next - 1) \subseteq applied
  BY DEF BuildsInv, BuildsKnow
<1>4. CASE build[i].next > Migrations
  <2>1. handle' = [handle EXCEPT ![i] = "ready"] /\ build' = [build EXCEPT ![i] = NoBuild]
    BY <1>4 DEF StepOn
  <2>2. build[i].next - 1 = Migrations
    BY <1>2, <1>4 DEF Builds
  <2>3. applied = 1..Migrations
    BY <1>3, <2>2 DEF BuildsInv, ServingTypeOK
  <2>4. BuildOK(NoBuild, "ready")
    BY <1>1, <2>3, NoBuildIsBuild DEF BuildOK
  <2> QED
    BY <1>1, <2>1, <2>4, NoBuildIsBuild, BuildMoves DEF BuildsInv, ServingTypeOK
<1>5. CASE build[i].next <= Migrations
  <2> DEFINE b == IF build[i].next \in build[i].seen
                  THEN [build[i] EXCEPT !.next = build[i].next + 1]
                  ELSE [build[i] EXCEPT !.at = "locked"]
  <2>1. build' = [build EXCEPT ![i] = b] /\ handle' = handle
    BY <1>2, <1>5 DEF StepOn, BuildsInv, Builds
  <2>2. b \in Builds
    BY <1>2, <1>5 DEF Builds
  <2>3. BuildOK(b, "building")
    <3>1. b.seen \subseteq applied
      BY <1>2, <1>3 DEF Builds
    <3>2. 1..(b.next - 1) \subseteq applied
      <4>1. CASE build[i].next \in build[i].seen
        <5>1. b.next - 1 = build[i].next
          BY <1>2, <4>1 DEF Builds
        <5>2. \A m \in 1..build[i].next : m \in 1..(build[i].next - 1) \/ m = build[i].next
          BY <1>2 DEF Builds
        <5> QED
          BY <1>3, <4>1, <5>1, <5>2
      <4>2. CASE build[i].next \notin build[i].seen
        BY <1>2, <1>3, <4>2 DEF Builds
      <4> QED
        BY <4>1, <4>2
    <3>3. b.at \in {"locked", "recheck"} => b.next <= Migrations
      BY <1>1, <1>2, <1>5 DEF Builds
    <3> QED
      BY <1>1, <3>1, <3>2, <3>3 DEF BuildOK
  <2> HIDE DEF b
  <2>4. handle' = [handle EXCEPT ![i] = "building"]
    BY <1>2, <2>1 DEF BuildsInv, ServingTypeOK
  <2> QED
    BY <1>1, <2>1, <2>2, <2>3, <2>4, BuildMoves DEF BuildsInv, ServingTypeOK
<1> QED
  BY <1>2, <1>4, <1>5 DEF Builds

LEMMA BuildsOfTakeLock ==
    ASSUME BuildsInv, NEW i \in Instances, TakeLock(i)
    PROVE  BuildsInv'
<1> DEFINE b == [build[i] EXCEPT !.at = "recheck"]
<1>1. build[i].at = "locked" /\ lock' = i /\ UNCHANGED <<handle, applied, twice, failures>>
  BY DEF TakeLock
<1>2. build[i] \in Builds /\ handle[i] = "building"
  BY <1>1 DEF BuildsInv, ServingTypeOK
<1>3. b \in Builds /\ b.seen = build[i].seen /\ b.next = build[i].next
  BY <1>2 DEF Builds
<1>4. build' = [build EXCEPT ![i] = b]
  BY DEF TakeLock
<1> HIDE DEF b
<1>5. BuildOK(b, "building")
  BY <1>1, <1>3 DEF BuildOK, BuildsInv, BuildsKnow
<1>6. handle' = [handle EXCEPT ![i] = "building"]
  BY <1>1, <1>2 DEF BuildsInv, ServingTypeOK
<1> QED
  BY <1>1, <1>3, <1>4, <1>5, <1>6, BuildMoves DEF BuildsInv, ServingTypeOK

(* The next migration of a stretch makes a stretch one longer. *)
LEMMA StretchGrows ==
    ASSUME NEW n \in Nat, NEW m \in Nat, NEW k \in 1..m, n <= m,
           1..(k - 1) \subseteq 1..n, k \notin 1..n
    PROVE  (1..n) \cup {k} = 1..(n + 1) /\ n + 1 <= m
<1>1. k = n + 1
  <2>1. k > n
    OBVIOUS
  <2>2. CASE k > n + 1
    <3>1. n + 1 \in 1..(k - 1)
      BY <2>2
    <3> QED
      BY <3>1
  <2> QED
    BY <2>1, <2>2
<1> QED
  BY <1>1

LEMMA BuildsOfRunMigration ==
    ASSUME BuildsInv, NEW i \in Instances, RunMigration(i)
    PROVE  BuildsInv'
<1> DEFINE k == build[i].next
           b == [build[i] EXCEPT !.at = "loop", !.next = k + 1]
<1>1. build[i].at = "recheck" /\ lock' = Nobody /\ UNCHANGED <<handle, failures>>
  BY DEF RunMigration
<1>2. build[i] \in Builds /\ handle[i] = "building" /\ Migrations \in Nat
  BY <1>1, ServingAssumption DEF BuildsInv, ServingTypeOK
<1>3. k \in 1..Migrations /\ build[i].seen \subseteq applied /\ 1..(k - 1) \subseteq applied
  BY <1>1, <1>2 DEF BuildsInv, BuildsKnow, Builds
<1>4. b \in Builds /\ b.at = "loop" /\ b.seen = build[i].seen /\ b.next = k + 1
  <2>1. k + 1 \in 1..(Migrations + 1)
    BY <1>2, <1>3
  <2> QED
    BY <1>2, <2>1 DEF Builds
<1>5. build' = [build EXCEPT ![i] = b]
  BY <1>2 DEF RunMigration, BuildsInv, Builds
<1>6. handle' = [handle EXCEPT ![i] = "building"]
  BY <1>1, <1>2 DEF BuildsInv, ServingTypeOK
<1> HIDE DEF b
<1>7. twice' = twice /\ applied' = applied \cup {k}
  BY DEF RunMigration, StillToRun
<1>8. PICK n \in 0..Migrations : applied = 1..n
  BY DEF BuildsInv, MigrationsRunOnce
<1>9. \E m \in 0..Migrations : applied' = 1..m
  <2>1. CASE k \in applied
    BY <1>7, <1>8, <2>1
  <2>2. CASE k \notin applied
    <3>1. (1..n) \cup {k} = 1..(n + 1) /\ n + 1 <= Migrations
      <4>1. n \in Nat /\ Migrations \in Nat /\ n <= Migrations
        BY <1>2
      <4>2. k \in 1..Migrations /\ 1..(k - 1) \subseteq 1..n /\ k \notin 1..n
        BY <1>3, <1>8, <2>2
      <4> HIDE DEF k
      <4> QED
        BY <4>1, <4>2, StretchGrows
    <3> QED
      BY <1>2, <1>7, <1>8, <3>1
  <2> QED
    BY <2>1, <2>2
<1>10. applied' \subseteq 1..Migrations /\ applied \subseteq applied'
  BY <1>3, <1>7 DEF BuildsInv, ServingTypeOK
<1>11. 1..(b.next - 1) \subseteq applied'
  <2>1. b.next - 1 = k
    BY <1>3, <1>4
  <2>2. \A m \in 1..k : m \in 1..(k - 1) \/ m = k
    BY <1>3
  <2> QED
    BY <1>3, <1>7, <2>1, <2>2
<1>12. \A j \in Instances : j # i => handle'[j] = handle[j] /\ build'[j] = build[j]
  BY <1>1, <1>5
<1>13. handle'[i] = "building" /\ build'[i] = b
  BY <1>1, <1>2, <1>5 DEF BuildsInv
<1>14. ServingTypeOK'
  <2>1. build' \in [Instances -> Builds]
    BY <1>4, <1>5 DEF BuildsInv
  <2>2. \A j \in Instances : build'[j].at # "idle" => handle'[j] = "building"
    BY <1>12, <1>13 DEF BuildsInv, ServingTypeOK
  <2> QED
    BY <1>1, <1>7, <1>10, <2>1, <2>2 DEF BuildsInv, ServingTypeOK, Builds
<1>15. build' \in [Instances -> Builds]
  BY <1>4, <1>5 DEF BuildsInv
<1>16. BuildsKnow'
  BY <1>3, <1>4, <1>10, <1>11, <1>12, <1>13 DEF BuildsInv, BuildsKnow
<1>17. MigrationsRunOnce'
  <2>1. \A j \in Instances : handle'[j] = "ready" => applied' = 1..Migrations
    BY <1>10, <1>12, <1>13 DEF BuildsInv, MigrationsRunOnce
  <2> QED
    BY <1>7, <1>9, <2>1 DEF BuildsInv, MigrationsRunOnce
<1> QED
  BY <1>14, <1>15, <1>16, <1>17 DEF BuildsInv

LEMMA BuildsOfTheHost ==
    ASSUME BuildsInv, NEW i \in Instances, BuildFails(i) \/ Recycle(i)
    PROVE  BuildsInv'
<1>1. /\ handle' = [handle EXCEPT ![i] = "none"]
      /\ build' = [build EXCEPT ![i] = NoBuild]
      /\ lock' = Unlocked(i) /\ failures < MaxFailures /\ failures' = failures + 1
      /\ UNCHANGED <<applied, twice>>
  BY DEF BuildFails, Recycle, Forget, BuildsInv, ServingTypeOK
<1>2. failures' \in 0..MaxFailures /\ lock' \in Instances \cup {Nobody}
  BY <1>1, ServingAssumption DEF BuildsInv, ServingTypeOK, Unlocked
<1>3. BuildOK(NoBuild, "none")
  BY NoBuildIsBuild DEF BuildOK
<1> QED
  BY <1>1, <1>2, <1>3, NoBuildIsBuild, BuildMoves

LEMMA BuildsStep == BuildsInv /\ [ServingNext]_servingVars => BuildsInv'
<1> SUFFICES ASSUME BuildsInv, [ServingNext]_servingVars PROVE BuildsInv'
  OBVIOUS
<1>1. CASE \E i \in Instances : Arrive(i) \/ BuildStep(i) \/ BuildFails(i) \/ Recycle(i)
  BY <1>1, BuildsOfArrive, BuildsOfCreateTable, BuildsOfReadApplied, BuildsOfStepOn,
     BuildsOfTakeLock, BuildsOfRunMigration, BuildsOfTheHost DEF BuildStep
<1>2. CASE (\E r \in Requests : RequestStep(r)) \/ UNCHANGED servingVars
  <2>1. UNCHANGED <<handle, build, applied, lock, twice, failures>>
    BY <1>2 DEF RequestStep, Connect, TimeOut, NestAdmin, Finish, servingVars
  <2> QED
    BY <2>1 DEF BuildsInv, ServingTypeOK, BuildsKnow, MigrationsRunOnce
<1> QED
  BY <1>1, <1>2 DEF ServingNext

-----------------------------------------------------------------------------
(* What is asked of the connections when only requests move: those in       *)
(* their transactions go on as they began.                                  *)
LEMMA OnlyRequestsMove ==
    ASSUME PoolInv, UNCHANGED pool, request' \in [Requests -> Asks],
           \A r \in Requests : request[r].at \in {"open", "thrown"} =>
               /\ request'[r].at \in {"open", "thrown"}
               /\ request'[r].on = request[r].on
               /\ request'[r].kind = request[r].kind
               /\ request'[r].tenant = request[r].tenant
    PROVE  PoolInv'
<1>1. \A i \in Instances, s \in Slots : pool[i][s].by \in Requests \cup {Nobody}
  BY DEF PoolInv, Connections
<1>2. HeldByOne'
  BY <1>1 DEF PoolInv, HeldByOne
<1>3. OwnTenantOnly'
  <2> SUFFICES ASSUME NEW i \in Instances, NEW s \in Slots
               PROVE  LET c == pool[i][s]
                      IN IF c.by = Nobody THEN c = Fresh
                         ELSE /\ request'[c.by].on = i
                              /\ c.role = RoleOf(request'[c.by].kind)
                              /\ c.tenant = IF request'[c.by].kind = "tenant"
                                            THEN request'[c.by].tenant ELSE Nobody
    BY DEF OwnTenantOnly
  <2>1. CASE pool[i][s].by = Nobody
    BY <2>1 DEF PoolInv, OwnTenantOnly
  <2>2. CASE pool[i][s].by # Nobody
    <3>1. request[pool[i][s].by].at \in {"open", "thrown"} /\ pool[i][s].by \in Requests
      BY <1>1, <2>2 DEF PoolInv, HeldByOne
    <3> QED
      BY <2>2, <3>1 DEF PoolInv, OwnTenantOnly
  <2> QED
    BY <2>1, <2>2
<1> QED
  BY <1>2, <1>3 DEF PoolInv

LEMMA PoolOfWaiting ==
    ASSUME PoolInv, NEW i \in Instances, Arrive(i) \/ CreateTable(i) \/ BuildFails(i)
    PROVE  PoolInv'
<1>1. CASE Arrive(i)
  <2>1. PICK r \in Requests, k \in Kinds, t \in Tenants :
          /\ request[r].at = "away"
          /\ request' = [request EXCEPT ![r] =
                [at |-> "waiting", on |-> i, kind |-> k, tenant |-> t]]
          /\ UNCHANGED pool
    BY <1>1 DEF Arrive
  <2>2. [at |-> "waiting", on |-> i, kind |-> k, tenant |-> t] \in Asks
    BY DEF Asks
  <2>3. request' \in [Requests -> Asks]
    BY <2>1, <2>2 DEF PoolInv
  <2>4. \A q \in Requests : q # r => request'[q] = request[q]
    BY <2>1
  <2> QED
    BY <2>1, <2>3, <2>4, OnlyRequestsMove
<1>2. CASE CreateTable(i) \/ BuildFails(i)
  <2>1. PICK I \in SUBSET Instances : request' = Refuse(I) /\ UNCHANGED pool
    BY <1>2 DEF CreateTable, BuildFails
  <2>2. request' \in [Requests -> Asks]
    BY <2>1, GoneIsAsk DEF PoolInv, Refuse
  <2>3. \A q \in Requests : request[q].at \in {"open", "thrown"} => request'[q] = request[q]
    BY <2>1 DEF Refuse
  <2> QED
    BY <2>1, <2>2, <2>3, OnlyRequestsMove
<1> QED
  BY <1>1, <1>2

LEMMA PoolOfTimeOut ==
    ASSUME PoolInv, NEW r \in Requests, TimeOut(r) \/ NestAdmin(r)
    PROVE  PoolInv'
<1>1. CASE TimeOut(r)
  <2>1. request[r].at = "waiting" /\ request' = [request EXCEPT ![r] = Gone] /\ UNCHANGED pool
    BY <1>1 DEF TimeOut
  <2>2. request' \in [Requests -> Asks]
    BY <2>1, GoneIsAsk DEF PoolInv
  <2> QED
    BY <2>1, <2>2, OnlyRequestsMove
<1>2. CASE NestAdmin(r)
  <2> DEFINE q == [request[r] EXCEPT !.at = "thrown"]
  <2>1. request' = [request EXCEPT ![r] = q] /\ UNCHANGED pool
    BY <1>2 DEF NestAdmin
  <2>2. /\ q \in Asks /\ q.at = "thrown" /\ q.on = request[r].on
        /\ q.kind = request[r].kind /\ q.tenant = request[r].tenant
    <3>1. request[r] \in Asks /\ request[r].at = "open"
      BY <1>2 DEF NestAdmin, PoolInv
    <3> QED
      BY <3>1 DEF Asks, Gone
  <2> HIDE DEF q
  <2>3. request' \in [Requests -> Asks]
    BY <2>1, <2>2 DEF PoolInv
  <2>4. request'[r] = q /\ \A p \in Requests : p # r => request'[p] = request[p]
    BY <2>1 DEF PoolInv
  <2> QED
    BY <2>1, <2>2, <2>3, <2>4, OnlyRequestsMove
<1> QED
  BY <1>1, <1>2

LEMMA PoolOfRecycle ==
    ASSUME PoolInv, NEW i \in Instances, Recycle(i)
    PROVE  PoolInv'
<1>1. /\ pool' = [pool EXCEPT ![i] = [s \in Slots |-> Fresh]]
      /\ request' = [r \in Requests |-> IF request[r].on = i THEN Gone ELSE request[r]]
  BY DEF Recycle
<1>2. pool' \in [Instances -> [Slots -> Connections]]
  BY <1>1, FreshIsFree DEF PoolInv
<1>3. request' \in [Requests -> Asks]
  BY <1>1, GoneIsAsk DEF PoolInv
<1>4. \A s \in Slots : pool'[i][s] = Fresh
  BY <1>1 DEF PoolInv
<1>5. \A j \in Instances : j # i => pool'[j] = pool[j]
  BY <1>1 DEF PoolInv
<1>6. ASSUME NEW j \in Instances, NEW s \in Slots, pool'[j][s].by # Nobody
      PROVE  /\ j # i /\ pool[j][s].by # Nobody /\ pool'[j][s] = pool[j][s]
             /\ pool[j][s].by \in Requests /\ request'[pool[j][s].by] = request[pool[j][s].by]
  <2>1. j # i /\ pool'[j][s] = pool[j][s]
    BY <1>4, <1>5, <1>6, FreshIsFree
  <2>2. pool[j][s].by \in Requests
    BY <1>6, <2>1 DEF PoolInv, Connections
  <2>3. request[pool[j][s].by].on = j
    BY <1>6, <2>1 DEF PoolInv, OwnTenantOnly
  <2> QED
    BY <1>1, <1>6, <2>1, <2>2, <2>3
<1>7. HeldByOne'
  <2> SUFFICES ASSUME NEW j \in Instances, NEW k \in Instances, NEW s \in Slots, NEW t \in Slots,
                      pool'[j][s].by # Nobody
               PROVE  /\ request'[pool'[j][s].by].at \in {"open", "thrown"}
                      /\ pool'[k][t].by = pool'[j][s].by => j = k /\ s = t
    BY DEF HeldByOne
  <2>1. request'[pool'[j][s].by].at \in {"open", "thrown"}
    BY <1>6 DEF PoolInv, HeldByOne
  <2>2. ASSUME pool'[k][t].by = pool'[j][s].by PROVE j = k /\ s = t
    <3>1. pool'[k][t] = pool[k][t] /\ pool'[j][s] = pool[j][s]
      BY <1>6, <2>2
    <3> QED
      BY <2>2, <3>1 DEF PoolInv, HeldByOne
  <2> QED
    BY <2>1, <2>2
<1>8. OwnTenantOnly'
  <2> SUFFICES ASSUME NEW j \in Instances, NEW s \in Slots
               PROVE  LET c == pool'[j][s]
                      IN IF c.by = Nobody THEN c = Fresh
                         ELSE /\ request'[c.by].on = j
                              /\ c.role = RoleOf(request'[c.by].kind)
                              /\ c.tenant = IF request'[c.by].kind = "tenant"
                                            THEN request'[c.by].tenant ELSE Nobody
    BY DEF OwnTenantOnly
  <2>1. CASE pool'[j][s].by = Nobody
    BY <1>4, <1>5, <2>1 DEF PoolInv, OwnTenantOnly
  <2>2. CASE pool'[j][s].by # Nobody
    BY <1>6, <2>2 DEF PoolInv, OwnTenantOnly
  <2> QED
    BY <2>1, <2>2
<1> QED
  BY <1>2, <1>3, <1>7, <1>8 DEF PoolInv

(* One connection and one request move. *)
Hands(r, i, s, c, q) ==
    /\ pool' \in [Instances -> [Slots -> Connections]]
    /\ \A j \in Instances, t \in Slots :
          pool'[j][t] = IF j = i /\ t = s THEN c ELSE pool[j][t]
    /\ request' = [request EXCEPT ![r] = q]
    /\ \A j \in Instances, t \in Slots : pool[j][t].by = r => j = i /\ t = s
    /\ \/ c = Fresh
       \/ /\ c.by = r /\ q.on = i /\ q.at \in {"open", "thrown"}
          /\ c.role = RoleOf(q.kind)
          /\ c.tenant = IF q.kind = "tenant" THEN q.tenant ELSE Nobody

LEMMA OneConnectionMoves ==
    ASSUME PoolInv, NEW r \in Requests, NEW i \in Instances, NEW s \in Slots,
           NEW c \in Connections, NEW q \in Asks, Hands(r, i, s, c, q)
    PROVE  PoolInv'
<1> USE DEF Hands
<1>1. pool' \in [Instances -> [Slots -> Connections]] /\ request' \in [Requests -> Asks]
  BY DEF PoolInv
<1>2. pool'[i][s] = c /\ request'[r] = q
  BY DEF PoolInv
<1>3. ASSUME NEW j \in Instances, NEW t \in Slots, j # i \/ t # s
      PROVE  /\ pool'[j][t] = pool[j][t] /\ pool[j][t].by # r
             /\ pool[j][t].by # Nobody =>
                   pool[j][t].by \in Requests /\ request'[pool[j][t].by] = request[pool[j][t].by]
  <2>1. pool'[j][t] = pool[j][t]
    BY <1>3 DEF PoolInv
  <2>2. pool[j][t].by # r
    BY <1>3
  <2>3. pool[j][t].by \in Requests \cup {Nobody}
    BY DEF PoolInv, Connections
  <2> QED
    BY <2>1, <2>2, <2>3 DEF PoolInv
<1>4. r # Nobody
  BY ServingAssumption
<1>5. HeldByOne'
  <2> SUFFICES ASSUME NEW j \in Instances, NEW k \in Instances, NEW t \in Slots, NEW u \in Slots,
                      pool'[j][t].by # Nobody
               PROVE  /\ request'[pool'[j][t].by].at \in {"open", "thrown"}
                      /\ pool'[k][u].by = pool'[j][t].by => j = k /\ t = u
    BY DEF HeldByOne
  <2>1. CASE j = i /\ t = s
    <3>1. c.by = r /\ q.at \in {"open", "thrown"}
      BY <1>2, <2>1, FreshIsFree
    <3>2. pool'[k][u].by = r => k = i /\ u = s
      BY <1>3
    <3> QED
      BY <1>2, <2>1, <3>1, <3>2
  <2>2. CASE j # i \/ t # s
    <3>1. pool'[j][t] = pool[j][t] /\ pool[j][t].by # r
      BY <1>3, <2>2
    <3>2. request'[pool'[j][t].by].at \in {"open", "thrown"}
      BY <1>3, <2>2, <3>1 DEF PoolInv, HeldByOne
    <3>3. ASSUME pool'[k][u].by = pool'[j][t].by PROVE j = k /\ t = u
      <4>1. ~(k = i /\ u = s)
        BY <1>2, <3>1, <3>3, FreshIsFree
      <4>2. pool'[k][u] = pool[k][u]
        BY <1>3, <4>1
      <4> QED
        BY <3>1, <3>3, <4>2 DEF PoolInv, HeldByOne
    <3> QED
      BY <3>2, <3>3
  <2> QED
    BY <2>1, <2>2
<1>6. OwnTenantOnly'
  <2> SUFFICES ASSUME NEW j \in Instances, NEW t \in Slots
               PROVE  LET d == pool'[j][t]
                      IN IF d.by = Nobody THEN d = Fresh
                         ELSE /\ request'[d.by].on = j
                              /\ d.role = RoleOf(request'[d.by].kind)
                              /\ d.tenant = IF request'[d.by].kind = "tenant"
                                            THEN request'[d.by].tenant ELSE Nobody
    BY DEF OwnTenantOnly
  <2>1. CASE j = i /\ t = s
    BY <1>2, <1>4, <2>1, FreshIsFree
  <2>2. CASE j # i \/ t # s
    BY <1>3, <2>2 DEF PoolInv, OwnTenantOnly
  <2> QED
    BY <2>1, <2>2
<1> QED
  BY <1>1, <1>5, <1>6 DEF PoolInv

LEMMA BegunCarries ==
    ASSUME NEW r \in Requests, request[r].kind \in Kinds, request[r].tenant \in Tenants
    PROVE  LET c == Begun(Fresh, r)
               q == request[r]
           IN /\ c \in Connections /\ c.by = r /\ c.role = RoleOf(q.kind)
              /\ c.tenant = IF q.kind = "tenant" THEN q.tenant ELSE Nobody
<1> DEFINE role == IF request[r].kind = "admin" THEN "owner" ELSE RoleOf(request[r].kind)
           tenant == IF request[r].kind = "tenant" THEN request[r].tenant ELSE Nobody
<1>1. role = RoleOf(request[r].kind) /\ role \in Roles
  BY DEF RoleOf, Kinds, Roles
<1>2. tenant \in Tenants \cup {Nobody}
  OBVIOUS
<1>3. Begun(Fresh, r) = [Fresh EXCEPT !.by = r, !.role = role, !.tenant = tenant]
  BY DEF Begun, Fresh
<1> HIDE DEF role, tenant
<1>4. Begun(Fresh, r) = [by |-> r, role |-> role, tenant |-> tenant]
  BY <1>3 DEF Fresh
<1>5. Begun(Fresh, r) \in Connections
  BY <1>1, <1>2, <1>4 DEF Connections
<1> QED
  BY <1>1, <1>4, <1>5 DEF tenant

LEMMA EndedIsFresh == \A c \in Connections : Ended(c) = Fresh
<1> TAKE c \in Connections
<1>1. PICK b \in Requests \cup {Nobody}, ro \in Roles, te \in Tenants \cup {Nobody} :
        c = [by |-> b, role |-> ro, tenant |-> te]
  BY DEF Connections
<1>2. [c EXCEPT !.by = Nobody] = [by |-> Nobody, role |-> ro, tenant |-> te]
  BY <1>1
<1>3. [[by |-> Nobody, role |-> ro, tenant |-> te] EXCEPT !.role = "owner"]
        = [by |-> Nobody, role |-> "owner", tenant |-> te]
  OBVIOUS
<1>4. [[by |-> Nobody, role |-> "owner", tenant |-> te] EXCEPT !.tenant = Nobody]
        = [by |-> Nobody, role |-> "owner", tenant |-> Nobody]
  OBVIOUS
<1> QED
  BY <1>2, <1>3, <1>4 DEF Ended, Fresh

LEMMA PoolOfConnect ==
    ASSUME PoolInv, NEW r \in Requests, Connect(r)
    PROVE  PoolInv'
<1> DEFINE i == request[r].on
<1>1. request[r].at = "waiting" /\ request[r] \in Asks
  BY DEF Connect, PoolInv
<1>2. i \in Instances /\ request[r].kind \in Kinds /\ request[r].tenant \in Tenants
  BY <1>1 DEF Asks, Gone
<1>3. PICK s \in Slots :
         /\ pool[i][s].by = Nobody
         /\ pool' = [pool EXCEPT ![i][s] = Begun(@, r)]
         /\ request' = [request EXCEPT ![r].at = "open"]
  BY DEF Connect
<1> DEFINE q == [request[r] EXCEPT !.at = "open"]
           c == Begun(pool[i][s], r)
<1>4. /\ q \in Asks /\ q.at = "open" /\ q.on = i
      /\ q.kind = request[r].kind /\ q.tenant = request[r].tenant
  BY <1>1 DEF Asks, Gone
<1>5. pool[i][s] = Fresh
  BY <1>2, <1>3 DEF PoolInv, OwnTenantOnly
<1>6. c \in Connections /\ c.by = r /\ c.role = RoleOf(q.kind)
      /\ c.tenant = IF q.kind = "tenant" THEN q.tenant ELSE Nobody
  BY <1>2, <1>4, <1>5, BegunCarries
<1>8. \A j \in Instances, t \in Slots : pool[j][t].by # r
  BY <1>1, ServingAssumption DEF PoolInv, HeldByOne
<1>9. pool' = [pool EXCEPT ![i][s] = c] /\ request' = [request EXCEPT ![r] = q]
  BY <1>2, <1>3 DEF PoolInv
<1> HIDE DEF q, c
<1>7. /\ pool' \in [Instances -> [Slots -> Connections]]
      /\ \A j \in Instances, t \in Slots :
            pool'[j][t] = IF j = i /\ t = s THEN c ELSE pool[j][t]
  BY <1>2, <1>6, <1>9 DEF PoolInv
<1>10. /\ c.by = r /\ q.on = i /\ q.at \in {"open", "thrown"}
       /\ c.role = RoleOf(q.kind)
       /\ c.tenant = IF q.kind = "tenant" THEN q.tenant ELSE Nobody
  BY <1>4, <1>6
<1> HIDE DEF i
<1>11. Hands(r, i, s, c, q)
  BY <1>7, <1>8, <1>9, <1>10 DEF Hands
<1> QED
  BY <1>2, <1>4, <1>6, <1>11, OneConnectionMoves

LEMMA PoolOfFinish ==
    ASSUME PoolInv, NEW r \in Requests, Finish(r)
    PROVE  PoolInv'
<1> DEFINE i == request[r].on
<1>1. request[r].at \in {"open", "thrown"} /\ request[r] \in Asks
  BY DEF Finish, PoolInv
<1>2. i \in Instances
  BY <1>1 DEF Asks, Gone
<1>3. PICK s \in Slots :
         /\ pool[i][s].by = r
         /\ pool' = [pool EXCEPT ![i][s] = Ended(@)]
         /\ request' = [request EXCEPT ![r] = Gone]
  BY DEF Finish
<1>4. Ended(pool[i][s]) = Fresh
  BY <1>2, EndedIsFresh DEF PoolInv
<1>5. pool' = [pool EXCEPT ![i][s] = Fresh]
  BY <1>2, <1>3, <1>4 DEF PoolInv
<1>6. \A j \in Instances, t \in Slots : pool[j][t].by = r => j = i /\ t = s
  BY <1>2, <1>3, ServingAssumption DEF PoolInv, HeldByOne
<1>7. /\ pool' \in [Instances -> [Slots -> Connections]]
      /\ \A j \in Instances, t \in Slots :
            pool'[j][t] = IF j = i /\ t = s THEN Fresh ELSE pool[j][t]
  BY <1>2, <1>5, FreshIsFree DEF PoolInv
<1> HIDE DEF i
<1>8. Hands(r, i, s, Fresh, Gone)
  BY <1>3, <1>6, <1>7 DEF Hands
<1> QED
  BY <1>2, <1>8, FreshIsFree, GoneIsAsk, OneConnectionMoves

LEMMA PoolStep == PoolInv /\ [ServingNext]_servingVars => PoolInv'
<1> SUFFICES ASSUME PoolInv, [ServingNext]_servingVars PROVE PoolInv'
  OBVIOUS
<1>1. CASE UNCHANGED <<pool, request>>
  BY <1>1 DEF PoolInv, HeldByOne, OwnTenantOnly
<1>2. ASSUME NEW i \in Instances, ReadApplied(i) \/ StepOn(i) \/ TakeLock(i) \/ RunMigration(i)
      PROVE  UNCHANGED <<pool, request>>
  BY <1>2 DEF ReadApplied, StepOn, TakeLock, RunMigration
<1>3. CASE \E i \in Instances : Arrive(i) \/ BuildStep(i) \/ BuildFails(i) \/ Recycle(i)
  BY <1>1, <1>2, <1>3, PoolOfWaiting, PoolOfRecycle DEF BuildStep
<1>4. CASE \E r \in Requests : RequestStep(r)
  BY <1>4, PoolOfConnect, PoolOfTimeOut, PoolOfFinish DEF RequestStep
<1> QED
  BY <1>1, <1>3, <1>4 DEF ServingNext, servingVars

LEMMA ServingInvStep == ServingInv /\ [ServingNext]_servingVars => ServingInv'
  BY BuildsStep, PoolStep DEF ServingInv

(* However many processes start at once, on a database with any number of   *)
(* the migrations, and whatever fails: no migration runs twice or out of    *)
(* order, nobody is served before the last, and a connection carries its    *)
(* own request's role and tenant and nothing when it is free                *)
(* (src/db/migrate.ts, src/db/client.ts).                                   *)
THEOREM SpecServingIsSafe == ServingSpec => []ServingIsSafe
<1>1. ServingInv => ServingIsSafe
  BY DEF ServingInv, BuildsInv, PoolInv, ServingIsSafe
<1> QED
  BY <1>1, ServingInvStep, ServingStarts, PTL DEF ServingSpec

-----------------------------------------------------------------------------
(***************************************************************************)
(* One bucket of the limit on attempts, for every policy and any number of *)
(* attempts at once.  A row that is read and written back later has not    *)
(* counted more than `counted` tells of its window: that is kept of the    *)
(* row and of every read that is still to be written.                      *)
(***************************************************************************)

(* What a row says of its window was counted in that window.               *)
WasCounted(r) ==
    r # NoRecord /\ r.age < Window =>
        counted[r.age] >= r.count \/ counted[r.age] >= MaxAttempts

LimitInv ==
    /\ Limit!TypeOK
    /\ WasCounted(record)
    /\ \A a \in Attempts : attempts[a].at = "counting" => WasCounted(attempts[a].read)

LEMMA RowsOfTheBucket ==
    /\ NoRecord \notin Limit!Records
    /\ MaxAttempts \in Nat \ {0} /\ Window \in Nat \ {0}
    /\ \A k \in Limit!AttemptStates :
          /\ k.at \in {"failed", "counting"} => k.age \in 0 .. 1
          /\ k.at = "counting" => k.read \in Limit!Records \cup {NoRecord}
          /\ k.at = "allowed" => k = [at |-> "allowed"]
  BY OthersAssumption DEF Limit!PolicyAssumption, Limit!Records, Limit!Ages, Limit!Oldest,
     Limit!AttemptStates, Limit!Idle

LEMMA LimitStarts == Limit!Init => LimitInv
  BY RowsOfTheBucket DEF Limit!Init, LimitInv, Limit!TypeOK, WasCounted, Limit!AttemptStates,
     Limit!Idle

(* An attempt moves on and neither the row nor the past changes. *)
LEMMA AttemptMoves ==
    ASSUME LimitInv, NEW a \in Attempts, NEW k \in Limit!AttemptStates,
           attempts' = [attempts EXCEPT ![a] = k], counted' = counted,
           record' \in {record, NoRecord},
           k.at = "counting" => k.read = record
    PROVE  LimitInv'
<1>1. Limit!TypeOK'
  BY DEF LimitInv, Limit!TypeOK
<1>2. WasCounted(record)'
  BY DEF LimitInv, WasCounted
<1>3. ASSUME NEW b \in Attempts, attempts'[b].at = "counting"
      PROVE  WasCounted(attempts[b].read)'
  BY <1>3 DEF LimitInv, WasCounted, Limit!TypeOK
<1> QED
  BY <1>1, <1>2, <1>3 DEF LimitInv

LEMMA WriteIsCounted ==
    ASSUME LimitInv, NEW a \in Attempts, Limit!WriteAttempt(a)
    PROVE  LimitInv'
<1> PICK r, age : r = attempts[a].read /\ age = attempts[a].age
  OBVIOUS
<1>1. /\ attempts[a].at = "counting" /\ r \in Limit!Records \cup {NoRecord}
      /\ age \in 0 .. 1 /\ WasCounted(r)
  BY RowsOfTheBucket DEF LimitInv, Limit!TypeOK, Limit!WriteAttempt
<1>2. /\ counted \in [0 .. Window - 1 -> 0 .. MaxAttempts]
      /\ counted' \in [0 .. Window - 1 -> 0 .. MaxAttempts]
      /\ \A g \in 0 .. Window - 1 :
            /\ counted[g] \in Nat /\ counted'[g] \in Nat
            /\ counted'[g] = MaxAttempts \/ counted'[g] = counted[g] + 1
  BY RowsOfTheBucket DEF LimitInv, Limit!TypeOK, Limit!WriteAttempt
<1>n. Window \in Nat /\ MaxAttempts \in Nat
  BY RowsOfTheBucket
<1>3. record' = Limit!OneMore(r, age) /\ record' \in Limit!Records
  BY <1>1, RowsOfTheBucket DEF Limit!WriteAttempt, Limit!OneMore, Limit!Records, Limit!Ages, Limit!Oldest
<1>4. Limit!TypeOK'
  BY <1>2, <1>3 DEF LimitInv, Limit!TypeOK, Limit!WriteAttempt, Limit!Put, Limit!AttemptStates
<1>5. WasCounted(record)'
  <2>1. CASE r = NoRecord \/ Limit!WindowExpired(r, age)
    <3>1. record' = [count |-> 1, age |-> age]
      BY <1>3, <2>1 DEF Limit!OneMore
    <3>2. ASSUME age < Window PROVE counted'[age] >= 1
      <4>1. age \in 0 .. Window - 1
        BY <1>1, <1>n, <3>2
      <4>2. /\ counted[age] \in Nat /\ counted'[age] \in Nat
            /\ counted'[age] = MaxAttempts \/ counted'[age] = counted[age] + 1
        BY <1>2, <4>1
      <4> QED
        BY <4>2, RowsOfTheBucket
    <3> QED
      BY <3>1, <3>2 DEF WasCounted
  <2>2. CASE ~(r = NoRecord \/ Limit!WindowExpired(r, age))
    <3>1. record' = [count |-> r.count + 1, age |-> r.age]
      BY <1>3, <2>2 DEF Limit!OneMore
    <3>2. r.count \in Nat /\ r.age \in Nat
      BY <1>1, <2>2, RowsOfTheBucket DEF Limit!Records, Limit!Ages, Limit!Oldest
    <3>3. r.age < Window =>
            counted'[r.age] >= r.count + 1 \/ counted'[r.age] >= MaxAttempts
      <4> SUFFICES ASSUME r.age < Window
                   PROVE  counted'[r.age] >= r.count + 1 \/ counted'[r.age] >= MaxAttempts
        OBVIOUS
      <4>1. r.age \in 0 .. Window - 1
        BY <1>n, <3>2
      <4>2. counted[r.age] >= r.count \/ counted[r.age] >= MaxAttempts
        BY <1>1, <2>2 DEF WasCounted
      <4>3. /\ counted[r.age] \in Nat /\ counted'[r.age] \in Nat
            /\ counted'[r.age] = MaxAttempts \/ counted'[r.age] = counted[r.age] + 1
        BY <1>2, <4>1
      <4> QED
        BY <1>n, <3>2, <4>2, <4>3
    <3> QED
      BY <3>1, <3>3 DEF WasCounted
  <2> QED
    BY <2>1, <2>2
<1>6. ASSUME NEW b \in Attempts, attempts'[b].at = "counting"
      PROVE  WasCounted(attempts[b].read)'
  <2> PICK q : q = attempts[b].read
    OBVIOUS
  <2>1. attempts'[b].read = q /\ WasCounted(q) /\ attempts'[b] = attempts[b]
    BY <1>6 DEF LimitInv, Limit!TypeOK, Limit!WriteAttempt, Limit!Put, Limit!Idle
  <2>2. q \in Limit!Records \cup {NoRecord}
    BY <1>6, <2>1, RowsOfTheBucket DEF LimitInv, Limit!TypeOK
  <2>3. ASSUME q # NoRecord, q.age < Window
        PROVE  counted'[q.age] >= q.count \/ counted'[q.age] >= MaxAttempts
    <3>1. q.age \in 0 .. Window - 1 /\ q.count \in Nat
      BY <1>n, <2>2, <2>3 DEF Limit!Records, Limit!Ages, Limit!Oldest
    <3>2. counted[q.age] >= q.count \/ counted[q.age] >= MaxAttempts
      BY <2>1, <2>3 DEF WasCounted
    <3>3. /\ counted[q.age] \in Nat /\ counted'[q.age] \in Nat
          /\ counted'[q.age] = MaxAttempts \/ counted'[q.age] = counted[q.age] + 1
      BY <1>2, <3>1
    <3> QED
      BY <1>n, <3>1, <3>2, <3>3
  <2> QED
    BY <2>1, <2>3 DEF WasCounted
<1> QED
  BY <1>4, <1>5, <1>6 DEF LimitInv

(* A row a part older has the same count and tells of the same failures.   *)
LEMMA OlderIsAsCounted ==
    ASSUME LimitInv, Limit!TimePasses,
           NEW r \in Limit!Records \cup {NoRecord}, WasCounted(r),
           NEW q, q = Limit!OlderRecord(r)
    PROVE  q \in Limit!Records \cup {NoRecord} /\ WasCounted(q)'
<1>1. CASE r = NoRecord
  BY <1>1 DEF Limit!OlderRecord, WasCounted
<1>2. CASE r # NoRecord
  <2>1. r \in Limit!Records /\ r.count \in Nat /\ r.age \in Nat
    BY <1>2, RowsOfTheBucket DEF Limit!Records, Limit!Ages, Limit!Oldest
  <2>2. /\ q \in Limit!Records /\ q.count = r.count
        /\ q.age = r.age + 1 \/ q.age = Limit!Oldest
    BY <1>2, <2>1, RowsOfTheBucket DEF Limit!OlderRecord, Limit!Older, Limit!Records, Limit!Ages, Limit!Oldest
  <2>3. \A g \in 0 .. Window - 1 : g # 0 => counted'[g] = counted[g - 1]
    BY DEF LimitInv, Limit!TypeOK, Limit!TimePasses
  <2> QED
    BY <1>2, <2>1, <2>2, <2>3, RowsOfTheBucket DEF WasCounted, Limit!Oldest
<1> QED
  BY <1>1, <1>2

LEMMA TimeIsCounted == LimitInv /\ Limit!TimePasses => LimitInv'
<1> SUFFICES ASSUME LimitInv, Limit!TimePasses PROVE LimitInv'
  OBVIOUS
<1>1. record' \in Limit!Records \cup {NoRecord} /\ WasCounted(record)'
  BY OlderIsAsCounted DEF LimitInv, Limit!TypeOK, Limit!TimePasses
<1>2. counted' \in [0 .. Window - 1 -> 0 .. MaxAttempts]
  BY RowsOfTheBucket DEF LimitInv, Limit!TypeOK, Limit!TimePasses
<1>3. ASSUME NEW a \in Attempts
      PROVE  /\ attempts'[a] \in Limit!AttemptStates
             /\ attempts'[a].at = "counting" => WasCounted(attempts[a].read)'
  <2> DEFINE k == attempts[a]
  <2>1. k \in Limit!AttemptStates /\ attempts'[a] = Limit!OlderAttempt(k)
    BY DEF LimitInv, Limit!TypeOK, Limit!TimePasses
  <2>2. CASE k.at = "counting" /\ k.age = 0
    <3>1. attempts'[a] = [k EXCEPT !.age = 1, !.read = Limit!OlderRecord(k.read)]
      BY <2>1, <2>2 DEF Limit!OlderAttempt
    <3>2. k \in [at : {"counting"}, age : 0 .. 1, read : Limit!Records \cup {NoRecord}]
      BY <2>1, <2>2 DEF Limit!AttemptStates, Limit!Idle
    <3>3. attempts'[a].read = Limit!OlderRecord(k.read)
      BY <3>1, <3>2
    <3>4. /\ attempts'[a].read \in Limit!Records \cup {NoRecord}
          /\ WasCounted(attempts[a].read)'
      BY <2>2, <3>2, <3>3, OlderIsAsCounted DEF LimitInv
    <3>5. attempts'[a] \in [at : {"counting"}, age : 0 .. 1, read : Limit!Records \cup {NoRecord}]
      <4>1. attempts'[a] =
              [at |-> "counting", age |-> 1, read |-> Limit!OlderRecord(k.read)]
        BY <3>1, <3>2
      <4> QED
        BY <3>3, <3>4, <4>1
    <3> QED
      BY <3>4, <3>5 DEF Limit!AttemptStates
  <2>3. CASE ~(k.at = "counting" /\ k.age = 0)
    <3>1. \/ attempts'[a] = [k EXCEPT !.age = 1] /\ k.at = "failed"
          \/ attempts'[a] = k /\ k.at = "allowed"
          \/ attempts'[a] = Limit!Idle
      BY <2>1, <2>3 DEF Limit!OlderAttempt
    <3> QED
      BY <2>1, <3>1 DEF Limit!AttemptStates, Limit!Idle
  <2> QED
    BY <2>2, <2>3
<1>4. attempts' \in [Attempts -> Limit!AttemptStates]
  BY <1>3 DEF Limit!TimePasses
<1> QED
  BY <1>1, <1>2, <1>3, <1>4 DEF LimitInv, Limit!TypeOK

LEMMA LimitInvStep == LimitInv /\ [Limit!Next]_limitVars => LimitInv'
<1> SUFFICES ASSUME LimitInv, [Limit!Next]_limitVars PROVE LimitInv'
  OBVIOUS
<1>1. ASSUME NEW a \in Attempts, Limit!Check(a) PROVE LimitInv'
  <2>1. [at |-> "allowed"] \in Limit!AttemptStates
    BY DEF Limit!AttemptStates
  <2>2. /\ attempts' = [attempts EXCEPT ![a] = [at |-> "allowed"]]
        /\ counted' = counted /\ record' = record
    BY <1>1 DEF Limit!Check, Limit!Put
  <2> QED
    BY <2>1, <2>2, AttemptMoves
<1>2. ASSUME NEW a \in Attempts, Limit!Fail(a) PROVE LimitInv'
  <2>1. [at |-> "failed", age |-> 0] \in Limit!AttemptStates
    BY DEF Limit!AttemptStates
  <2>2. /\ attempts' = [attempts EXCEPT ![a] = [at |-> "failed", age |-> 0]]
        /\ counted' = counted /\ record' = record
    BY <1>2 DEF Limit!Fail, Limit!Put
  <2> QED
    BY <2>1, <2>2, AttemptMoves
<1>3. ASSUME NEW a \in Attempts, Limit!ReadAttempt(a) PROVE LimitInv'
  <2> DEFINE k == [at |-> "counting", age |-> attempts[a].age, read |-> record]
  <2>1. k \in Limit!AttemptStates
    BY <1>3, RowsOfTheBucket DEF Limit!ReadAttempt, LimitInv, Limit!TypeOK, Limit!AttemptStates
  <2>2. attempts' = [attempts EXCEPT ![a] = k] /\ counted' = counted /\ record' = record
    BY <1>3 DEF Limit!ReadAttempt, Limit!Put
  <2> QED
    BY <2>1, <2>2, AttemptMoves
<1>4. ASSUME NEW a \in Attempts, Limit!Succeed(a) PROVE LimitInv'
  BY <1>4, AttemptMoves DEF Limit!Succeed, Limit!Put, Limit!AttemptStates, Limit!Idle
<1>5. ASSUME NEW a \in Attempts, Limit!Stop(a) PROVE LimitInv'
  BY <1>5, AttemptMoves DEF Limit!Stop, Limit!Put, Limit!AttemptStates, Limit!Idle
<1>6. CASE Limit!Sweep
  BY <1>6 DEF Limit!Sweep, LimitInv, Limit!TypeOK, WasCounted
<1>7. CASE UNCHANGED limitVars
  BY <1>7 DEF limitVars, LimitInv, Limit!TypeOK, WasCounted
<1> QED
  BY <1>1, <1>2, <1>3, <1>4, <1>5, <1>6, <1>7, WriteIsCounted, TimeIsCounted DEF Limit!Next

LEMMA CountedIsJust == LimitInv => BlocksAreJust
<1> SUFFICES ASSUME LimitInv, Limit!IsBlocked(record)
             PROVE  counted[record.age] >= MaxAttempts
  BY DEF BlocksAreJust, Limit!NobodyBlockedEarly
<1>1. record \in Limit!Records /\ record.age \in Nat /\ record.count \in Nat /\ record # NoRecord
  BY RowsOfTheBucket DEF Limit!IsBlocked, LimitInv, Limit!TypeOK, Limit!Records, Limit!Ages, Limit!Oldest
<1>2. record.age < Window /\ record.count >= MaxAttempts
  BY <1>1, RowsOfTheBucket DEF Limit!IsBlocked, Limit!WindowExpired
<1>3. counted[record.age] \in Nat
  BY <1>1, <1>2, RowsOfTheBucket DEF LimitInv, Limit!TypeOK
<1> QED
  BY <1>1, <1>2, <1>3, RowsOfTheBucket DEF LimitInv, WasCounted

-----------------------------------------------------------------------------
(***************************************************************************)
(* The calls to the world outside, for any number of them, any addresses,  *)
(* whatever names resolve to, and every timer.                             *)
(***************************************************************************)

(* One call on its own: what it may have been sent where it stands, and    *)
(* that it has looked at an address before it goes there.                  *)
CallIsCareful(k) ==
    /\ k \in Net!CallStates
    /\ k.tries <= MaxRedirects \/ k.tries <= MaxTries
    /\ k.held <= MaxBytes
    /\ k.at = "connecting" => k.kind = "page"
    /\ k.at = "reading" => k.status = "fine"
    /\ k.out = "read" => k.status = "fine" /\ k.body = "whole"
    /\ k.out = "empty" => k.kind = "search"
    /\ k.kind = "page" /\ (k.at = "connecting" \/ k.reached # Nowhere) =>
          Net!CheckWebAddress(k.to) = "none"
    /\ k.kind = "page" /\ k.reached # Nowhere => ~Net!IsPrivateAddress(k.reached)

InLine(k) == k.kind = "list" /\ k.at \in {"queued", "spacing", "asked", "reading"}
AtWork(k) == k.kind = "list" /\ k.at \in {"spacing", "asked", "reading"}
OnlyLists(k) == k.at \in {"queued", "spacing"} => k.kind = "list"

(* The list requests under way are those in the chain, each once; the one  *)
(* at work heads it, and while it waits its timer makes up what the last   *)
(* start leaves of the interval.                                           *)
QueueInv ==
    /\ since \in 0 .. MinInterval
    /\ chain \in Seq(Calls)
    /\ \A i, j \in DOMAIN chain : chain[i] = chain[j] => i = j
    /\ \A c \in Calls :
          /\ OnlyLists(call[c])
          /\ (\E i \in DOMAIN chain : chain[i] = c) <=> InLine(call[c])
          /\ AtWork(call[c]) => Head(chain) = c
          /\ call[c].at = "spacing" => call[c].due = MinInterval - since

NetInv ==
    /\ DOMAIN call = Calls /\ call = [c \in Calls |-> call[c]]
    /\ \A c \in Calls : CallIsCareful(call[c])
    /\ QueueInv

LEMMA NetNumbers ==
    /\ MinInterval \in Nat /\ MaxRedirects \in Nat
    /\ MaxBytes \in Nat \ {0} /\ MaxTries \in Nat \ {0} /\ Off \notin Nat
    /\ Timeouts["list"] \in Nat /\ Timeouts["page"] \in Nat
    /\ \A kind \in Net!Lookups : Timeouts[kind] \in Nat
  BY OthersAssumption DEF Net!FetchingAssumption, Net!Lookups

LEMMA NoCallIsCareful == CallIsCareful(Net!NoCall) /\ ~InLine(Net!NoCall)
<1>1. Net!NoCall \in Net!CallStates
  BY DEF Net!NoCall, Net!CallStates, Net!Kinds
<1> QED
  BY <1>1, NetNumbers DEF Net!NoCall, CallIsCareful, InLine

LEMMA NetStarts == Net!FetchingInit => NetInv
<1> SUFFICES ASSUME Net!FetchingInit PROVE NetInv
  OBVIOUS
<1>1. \A c \in Calls : call[c] = Net!NoCall
  BY DEF Net!FetchingInit
<1>2. chain = <<>> /\ since = MinInterval /\ chain \in Seq(Calls) /\ DOMAIN chain = {}
  BY DEF Net!FetchingInit
<1>3. QueueInv
  BY <1>1, <1>2, NetNumbers, NoCallIsCareful
     DEF QueueInv, OnlyLists, AtWork, Net!NoCall
<1> QED
  BY <1>1, <1>3, NoCallIsCareful DEF NetInv, Net!FetchingInit

-----------------------------------------------------------------------------
(* One call moves, and the chain and the clock are as they were, or the    *)
(* one that waited has just started.                                       *)
LEMMA CallMoves ==
    ASSUME NetInv, NEW c \in Calls, NEW k,
           call' = [call EXCEPT ![c] = k],
           CallIsCareful(k), OnlyLists(k), chain' = chain,
           InLine(k) <=> InLine(call[c]),
           AtWork(k) => Head(chain) = c,
           k.at = "spacing" => k.due = MinInterval - since,
           \/ since' = since
           \/ since' = 0 /\ AtWork(call[c]) /\ k.at # "spacing"
    PROVE  NetInv'
<1>1. /\ call'[c] = k /\ \A d \in Calls \ {c} : call'[d] = call[d]
      /\ DOMAIN call' = Calls /\ call' = [d \in Calls |-> call'[d]]
  BY DEF NetInv
<1>2. \A d \in Calls : CallIsCareful(call'[d])
  BY <1>1 DEF NetInv
<1>3. since' \in 0 .. MinInterval
  BY NetNumbers DEF NetInv, QueueInv
<1>4. ASSUME NEW d \in Calls
      PROVE  /\ OnlyLists(call'[d])
             /\ (\E i \in DOMAIN chain : chain[i] = d) <=> InLine(call'[d])
             /\ AtWork(call'[d]) => Head(chain) = d
             /\ call'[d].at = "spacing" => call'[d].due = MinInterval - since'
  <2>1. CASE d = c
    <3>1. call'[c].at = "spacing" => since' = since
      BY <1>1
    <3> QED
      BY <1>1, <2>1, <3>1 DEF NetInv, QueueInv
  <2>2. CASE d # c
    <3>1. call[d].at = "spacing" => since' = since
      <4>1. call[d].at = "spacing" => Head(chain) = d
        BY DEF NetInv, QueueInv, OnlyLists, AtWork
      <4> QED
        BY <2>2, <4>1 DEF NetInv, QueueInv
    <3> QED
      BY <1>1, <2>2, <3>1 DEF NetInv, QueueInv
  <2> QED
    BY <2>1, <2>2
<1>5. QueueInv'
  BY <1>3, <1>4 DEF NetInv, QueueInv
<1> QED
  BY <1>1, <1>2, <1>5 DEF NetInv

(* A call ends; a list request leaves the chain it heads.                  *)
LEMMA CallSettles ==
    ASSUME NetInv, NEW c \in Calls,
           call[c].at \in {"connecting", "asked", "reading"},
           NEW out \in {"none", "read", "empty", "refused"},
           NEW status \in {"none", "fine", "error", "broken"},
           NEW body \in {"none", "whole", "shape", "text", "huge"},
           Net!Settle(c, out, status, body), since' = since,
           out = "read" => status = "fine" /\ body = "whole",
           out = "empty" => call[c].kind = "search"
    PROVE  NetInv'
<1> PICK k : k = [Net!NoCall EXCEPT !.kind = call[c].kind, !.to = call[c].to,
                      !.reached = call[c].reached, !.status = status, !.body = body, !.out = out]
  OBVIOUS
<1>1. /\ call' = [call EXCEPT ![c] = k]
      /\ chain' = IF call[c].kind = "list" THEN Tail(chain) ELSE chain
  BY DEF Net!Settle, Net!ChainAfter
<1>2. CallIsCareful(call[c])
  BY DEF NetInv
<1>3. /\ k.kind = call[c].kind /\ k.to = call[c].to /\ k.reached = call[c].reached
      /\ k.status = status /\ k.body = body /\ k.out = out
      /\ k.at = "idle" /\ k.due = Off /\ k.tries = 0 /\ k.held = 0
  BY DEF Net!NoCall
<1>4. k \in Net!CallStates
  BY <1>2 DEF CallIsCareful, Net!CallStates, Net!NoCall
<1>5. CallIsCareful(k) /\ ~InLine(k) /\ ~AtWork(k) /\ OnlyLists(k) /\ k.at # "spacing"
  BY <1>2, <1>3, <1>4, NetNumbers DEF CallIsCareful, InLine, AtWork, OnlyLists
<1>6. CASE call[c].kind # "list"
  <2>1. ~InLine(call[c])
    BY <1>6 DEF InLine
  <2> QED
    BY <1>1, <1>5, <1>6, <2>1, CallMoves
<1>7. CASE call[c].kind = "list"
  <2>1. /\ call'[c] = k /\ \A d \in Calls \ {c} : call'[d] = call[d]
        /\ DOMAIN call' = Calls /\ call' = [d \in Calls |-> call'[d]]
    BY <1>1 DEF NetInv
  <2>2. AtWork(call[c])
    BY <1>2, <1>7 DEF AtWork, CallIsCareful
  <2>3. InLine(call[c]) /\ Head(chain) = c /\ chain # <<>>
    BY <2>2 DEF NetInv, QueueInv, AtWork, InLine
  <2>4. /\ chain \in Seq(Calls) /\ Len(chain) \in Nat \ {0}
        /\ chain[1] = c /\ DOMAIN chain = 1 .. Len(chain)
    BY <2>3 DEF NetInv, QueueInv
  <2>5. /\ chain' \in Seq(Calls) /\ DOMAIN chain' = 1 .. Len(chain) - 1
        /\ \A i \in 1 .. Len(chain) - 1 : chain'[i] = chain[i + 1]
    BY <1>1, <1>7, <2>3, <2>4
  <2>6. \A i, j \in DOMAIN chain : chain[i] = chain[j] => i = j
    BY DEF NetInv, QueueInv
  <2>7. \A i, j \in DOMAIN chain' : chain'[i] = chain'[j] => i = j
    BY <2>4, <2>5, <2>6
  <2>8. \A d \in Calls : (\E i \in DOMAIN chain' : chain'[i] = d)
                           <=> d # c /\ (\E i \in DOMAIN chain : chain[i] = d)
    <3> SUFFICES ASSUME NEW d \in Calls
                 PROVE  (\E i \in DOMAIN chain' : chain'[i] = d)
                          <=> d # c /\ (\E i \in DOMAIN chain : chain[i] = d)
      OBVIOUS
    <3>1. ASSUME NEW i \in DOMAIN chain', chain'[i] = d
          PROVE  d # c /\ (\E j \in DOMAIN chain : chain[j] = d)
      <4>1. i + 1 \in DOMAIN chain /\ chain[i + 1] = d /\ i + 1 # 1 /\ 1 \in DOMAIN chain
        BY <2>4, <2>5, <3>1
      <4> QED
        BY <2>4, <2>6, <4>1
    <3>2. ASSUME NEW i \in DOMAIN chain, chain[i] = d, d # c
          PROVE  \E j \in DOMAIN chain' : chain'[j] = d
      <4>1. i - 1 \in DOMAIN chain' /\ chain'[i - 1] = d
        BY <2>4, <2>5, <3>2
      <4> QED
        BY <4>1
    <3> QED
      BY <3>1, <3>2
  <2>9. ASSUME NEW d \in Calls
        PROVE  /\ OnlyLists(call'[d])
               /\ (\E i \in DOMAIN chain' : chain'[i] = d) <=> InLine(call'[d])
               /\ AtWork(call'[d]) => Head(chain') = d
               /\ call'[d].at = "spacing" => call'[d].due = MinInterval - since'
    <3>1. CASE d = c
      BY <1>5, <2>1, <2>8, <3>1
    <3>2. CASE d # c
      <4>1. call'[d] = call[d] /\ ~AtWork(call[d])
        BY <2>1, <2>3, <3>2 DEF NetInv, QueueInv
      <4> QED
        BY <2>8, <3>2, <4>1 DEF NetInv, QueueInv
    <3> QED
      BY <3>1, <3>2
  <2>10. since' \in 0 .. MinInterval
    BY DEF NetInv, QueueInv
  <2>11. QueueInv'
    BY <2>5, <2>7, <2>9, <2>10 DEF QueueInv
  <2>12. \A d \in Calls : CallIsCareful(call'[d])
    BY <1>5, <2>1 DEF NetInv
  <2> QED
    BY <2>1, <2>11, <2>12 DEF NetInv
<1> QED
  BY <1>6, <1>7

LEMMA AskListStep == ASSUME NetInv, NEW c \in Calls, Net!AskList(c) PROVE NetInv'
<1> PICK k : k = [Net!NoCall EXCEPT !.at = "queued"]
  OBVIOUS
<1>1. /\ k.kind = "list" /\ k.at = "queued" /\ CallIsCareful(k)
      /\ InLine(k) /\ OnlyLists(k) /\ ~AtWork(k)
  BY NoCallIsCareful DEF Net!NoCall, CallIsCareful, Net!CallStates, InLine, OnlyLists, AtWork
<1>2. /\ call' = [call EXCEPT ![c] = k] /\ call[c].at = "idle"
      /\ chain' = Append(chain, c) /\ since' = since
  BY DEF Net!AskList
<1>3. /\ call'[c] = k /\ \A d \in Calls \ {c} : call'[d] = call[d]
      /\ DOMAIN call' = Calls /\ call' = [d \in Calls |-> call'[d]]
  BY <1>2 DEF NetInv
<1>4. ~InLine(call[c]) /\ chain \in Seq(Calls) /\ Len(chain) \in Nat
  BY <1>2 DEF InLine, NetInv, QueueInv
<1>5. \A i \in DOMAIN chain : chain[i] # c
  BY <1>4 DEF NetInv, QueueInv
<1>6. /\ chain' \in Seq(Calls) /\ DOMAIN chain' = 1 .. Len(chain) + 1
      /\ DOMAIN chain = 1 .. Len(chain)
      /\ chain'[Len(chain) + 1] = c
      /\ \A i \in 1 .. Len(chain) : chain'[i] = chain[i]
  BY <1>2, <1>4
<1>7. \A i, j \in DOMAIN chain' : chain'[i] = chain'[j] => i = j
  <2> SUFFICES ASSUME NEW i \in DOMAIN chain', NEW j \in DOMAIN chain', chain'[i] = chain'[j]
               PROVE  i = j
    OBVIOUS
  <2>1. \A m, n \in DOMAIN chain : chain[m] = chain[n] => m = n
    BY DEF NetInv, QueueInv
  <2>2. i \in DOMAIN chain /\ j \in DOMAIN chain => i = j
    BY <1>6, <2>1
  <2>3. (i \in DOMAIN chain \/ i = Len(chain) + 1) /\ (j \in DOMAIN chain \/ j = Len(chain) + 1)
    BY <1>4, <1>6
  <2> QED
    BY <1>5, <1>6, <2>2, <2>3
<1>8. \A d \in Calls : (\E i \in DOMAIN chain' : chain'[i] = d)
                         <=> d = c \/ (\E i \in DOMAIN chain : chain[i] = d)
  <2>1. \A i \in DOMAIN chain' : i \in DOMAIN chain \/ i = Len(chain) + 1
    BY <1>4, <1>6
  <2>2. Len(chain) + 1 \in DOMAIN chain' /\ DOMAIN chain \subseteq DOMAIN chain'
    BY <1>4, <1>6
  <2> QED
    BY <1>6, <2>1, <2>2
<1>9. ASSUME NEW d \in Calls
      PROVE  /\ OnlyLists(call'[d])
             /\ (\E i \in DOMAIN chain' : chain'[i] = d) <=> InLine(call'[d])
             /\ AtWork(call'[d]) => Head(chain') = d
             /\ call'[d].at = "spacing" => call'[d].due = MinInterval - since'
  <2>1. CASE d = c
    BY <1>1, <1>3, <1>8, <2>1
  <2>2. CASE d # c
    <3>1. call'[d] = call[d]
      BY <1>3, <2>2
    <3>2. AtWork(call[d]) => Head(chain') = d
      <4> SUFFICES ASSUME AtWork(call[d]) PROVE Head(chain') = d
        OBVIOUS
      <4>1. InLine(call[d]) /\ Head(chain) = d
        BY DEF AtWork, InLine, NetInv, QueueInv
      <4>2. \E i \in DOMAIN chain : chain[i] = d
        BY <4>1 DEF NetInv, QueueInv
      <4>3. Len(chain) >= 1 /\ Head(chain) = chain[1] /\ Head(chain') = chain'[1]
        BY <1>4, <1>6, <4>2
      <4> QED
        BY <1>4, <1>6, <4>1, <4>3
    <3> QED
      BY <1>2, <1>8, <2>2, <3>1, <3>2 DEF NetInv, QueueInv
  <2> QED
    BY <2>1, <2>2
<1>10. QueueInv'
  BY <1>2, <1>6, <1>7, <1>9 DEF NetInv, QueueInv
<1>11. \A d \in Calls : CallIsCareful(call'[d])
  BY <1>1, <1>3 DEF NetInv
<1> QED
  BY <1>3, <1>10, <1>11 DEF NetInv

LEMMA TurnStep == ASSUME NetInv, NEW c \in Calls, Net!Turn(c) PROVE NetInv'
<1> PICK k : k = [call[c] EXCEPT !.at = "spacing", !.due = MinInterval - since]
  OBVIOUS
<1>1. /\ call[c].at = "queued" /\ Head(chain) = c /\ call' = [call EXCEPT ![c] = k]
      /\ chain' = chain /\ since' = since
  BY DEF Net!Turn, Net!MayTurn
<1>2. CallIsCareful(call[c]) /\ call[c].kind = "list" /\ InLine(call[c])
  BY <1>1 DEF NetInv, QueueInv, OnlyLists, InLine
<1>3. MinInterval - since \in Nat
  BY NetNumbers DEF NetInv, QueueInv
<1>4. k \in Net!CallStates /\ k.due = MinInterval - since
  BY <1>2, <1>3 DEF CallIsCareful, Net!CallStates
<1>5. CallIsCareful(k) /\ OnlyLists(k) /\ InLine(k)
  BY <1>2, <1>4 DEF CallIsCareful, OnlyLists, InLine, Net!CallStates
<1> QED
  BY <1>1, <1>2, <1>4, <1>5, CallMoves

LEMMA StartStep == ASSUME NetInv, NEW c \in Calls, Net!Start(c) PROVE NetInv'
<1> PICK k : k = [call[c] EXCEPT !.at = "asked", !.due = Timeouts["list"]]
  OBVIOUS
<1>1. /\ call[c].at = "spacing" /\ call' = [call EXCEPT ![c] = k]
      /\ chain' = chain /\ since' = 0
  BY DEF Net!Start
<1>2. CallIsCareful(call[c]) /\ call[c].kind = "list" /\ InLine(call[c]) /\ AtWork(call[c])
  BY <1>1 DEF NetInv, QueueInv, OnlyLists, InLine, AtWork
<1>3. k \in Net!CallStates
  BY <1>2, NetNumbers DEF CallIsCareful, Net!CallStates
<1>4. CallIsCareful(k) /\ OnlyLists(k) /\ InLine(k) /\ k.at = "asked"
  BY <1>2, <1>3 DEF CallIsCareful, OnlyLists, InLine, Net!CallStates
<1>5. Head(chain) = c
  BY <1>2 DEF NetInv, QueueInv
<1> QED
  BY <1>1, <1>2, <1>4, <1>5, CallMoves

(* A call that is put and is no list request. *)
LEMMA PutIsCareful ==
    ASSUME NEW k \in Net!CallStates,
           k.kind # "list", k.tries \in 0 .. 1, k.held = 0, k.reached = Nowhere,
           k.out \in {"none", "refused"}, k.at \in {"idle", "asked", "connecting"},
           k.at = "connecting" => k.kind = "page" /\ Net!CheckWebAddress(k.to) = "none"
    PROVE  CallIsCareful(k)
<1>1. k.tries <= MaxTries /\ k.held <= MaxBytes
  BY NetNumbers
<1> QED
  BY <1>1 DEF CallIsCareful

(* A call that is no list request is put, and waits in no line.            *)
LEMMA OtherCallIsPut ==
    ASSUME NetInv, NEW c \in Calls, call[c].at = "idle", NEW k,
           call' = [call EXCEPT ![c] = k], UNCHANGED <<chain, since>>,
           CallIsCareful(k), k.kind # "list", k.at \notin {"queued", "spacing"}
    PROVE  NetInv'
<1>1. ~InLine(call[c]) /\ ~InLine(k) /\ ~AtWork(k) /\ OnlyLists(k)
  BY DEF InLine, AtWork, OnlyLists
<1> QED
  BY <1>1, CallMoves

LEMMA AskOtherStep ==
    ASSUME NetInv, NEW c \in Calls,
           \/ Net!AskPrompt(c)
           \/ \E kind \in Net!Lookups : Net!AskLookup(c, kind)
           \/ \E a \in Addresses : Net!AskPage(c, a)
    PROVE  NetInv'
<1>1. CASE Net!AskPrompt(c)
  <2> PICK k : k = [Net!NoCall EXCEPT !.kind = "prompt", !.at = "asked", !.tries = 1]
    OBVIOUS
  <2>1. /\ k \in Net!CallStates
        /\ k.kind = "prompt" /\ k.tries = 1 /\ k.held = 0 /\ k.reached = Nowhere
        /\ k.out = "none" /\ k.at = "asked"
    BY DEF Net!NoCall, Net!CallStates, Net!Kinds
  <2>2. /\ k.kind # "list" /\ k.tries \in 0 .. 1 /\ k.out \in {"none", "refused"}
        /\ k.at \in {"idle", "asked", "connecting"} /\ k.at \notin {"queued", "spacing"}
        /\ k.at # "connecting"
    BY <2>1
  <2>3. CallIsCareful(k)
    BY <2>1, <2>2, PutIsCareful, Zenon
  <2> QED
    BY <1>1, <2>2, <2>3, OtherCallIsPut DEF Net!AskPrompt
<1>2. ASSUME NEW kind \in Net!Lookups, Net!AskLookup(c, kind) PROVE NetInv'
  <2> PICK due : due = Timeouts[kind] /\ due \in Nat
    BY NetNumbers
  <2>n. kind \in {"search", "profile"}
    BY DEF Net!Lookups
  <2> PICK k : k = [Net!NoCall EXCEPT !.kind = kind, !.at = "asked", !.due = due]
    OBVIOUS
  <2>1. /\ k \in Net!CallStates
        /\ k.kind = kind /\ k.tries = 0 /\ k.held = 0 /\ k.reached = Nowhere
        /\ k.out = "none" /\ k.at = "asked"
    BY <2>n DEF Net!NoCall, Net!CallStates, Net!Kinds
  <2>2. /\ k.kind # "list" /\ k.tries \in 0 .. 1 /\ k.out \in {"none", "refused"}
        /\ k.at \in {"idle", "asked", "connecting"} /\ k.at \notin {"queued", "spacing"}
        /\ k.at # "connecting"
    BY <2>n, <2>1
  <2>3. CallIsCareful(k)
    BY <2>1, <2>2, PutIsCareful, Zenon
  <2> QED
    BY <1>2, <2>2, <2>3, OtherCallIsPut DEF Net!AskLookup
<1>3. ASSUME NEW a \in Addresses, Net!AskPage(c, a) PROVE NetInv'
  <2>1. CASE Net!CheckWebAddress(a) = "none"
    <3> PICK due : due = Timeouts["page"] /\ due \in Nat
      BY NetNumbers
    <3> PICK k : k = [Net!NoCall EXCEPT !.kind = "page", !.at = "connecting", !.to = a,
                                        !.due = due]
      OBVIOUS
    <3>1. /\ k \in Net!CallStates
          /\ k.kind = "page" /\ k.tries = 0 /\ k.held = 0 /\ k.reached = Nowhere
          /\ k.out = "none" /\ k.at = "connecting" /\ k.to = a
      BY DEF Net!NoCall, Net!CallStates, Net!Kinds
    <3>2. /\ k.kind # "list" /\ k.tries \in 0 .. 1 /\ k.out \in {"none", "refused"}
          /\ k.at \in {"idle", "asked", "connecting"} /\ k.at \notin {"queued", "spacing"}
          /\ k.kind = "page" /\ Net!CheckWebAddress(k.to) = "none"
      BY <2>1, <3>1
    <3>3. CallIsCareful(k)
      BY <3>1, <3>2, PutIsCareful, Zenon
    <3>4. call[c].at = "idle" /\ call' = [call EXCEPT ![c] = k] /\ UNCHANGED <<chain, since>>
      BY <1>3, <2>1 DEF Net!AskPage
    <3> QED
      BY <3>2, <3>3, <3>4, OtherCallIsPut
  <2>2. CASE Net!CheckWebAddress(a) # "none"
    <3> PICK k : k = [Net!NoCall EXCEPT !.kind = "page", !.out = "refused"]
      OBVIOUS
    <3>1. /\ k \in Net!CallStates
          /\ k.kind = "page" /\ k.tries = 0 /\ k.held = 0 /\ k.reached = Nowhere
          /\ k.out = "refused" /\ k.at = "idle"
      BY DEF Net!NoCall, Net!CallStates, Net!Kinds
    <3>2. /\ k.kind # "list" /\ k.tries \in 0 .. 1 /\ k.out \in {"none", "refused"}
          /\ k.at \in {"idle", "asked", "connecting"} /\ k.at \notin {"queued", "spacing"}
          /\ k.at # "connecting"
      BY <3>1
    <3>3. CallIsCareful(k)
      BY <3>1, <3>2, PutIsCareful, Zenon
    <3>4. call[c].at = "idle" /\ call' = [call EXCEPT ![c] = k] /\ UNCHANGED <<chain, since>>
      BY <1>3, <2>2 DEF Net!AskPage
    <3> QED
      BY <3>2, <3>3, <3>4, OtherCallIsPut
  <2> QED
    BY <2>1, <2>2
<1> QED
  BY <1>1, <1>2, <1>3

(* A call under way goes on: its kind stays, and so does its place in the  *)
(* line.                                                                   *)
LEMMA CallGoesOnCarefully ==
    ASSUME NetInv, NEW c \in Calls, call[c].at \in {"connecting", "asked", "reading"}, NEW k,
           call' = [call EXCEPT ![c] = k], UNCHANGED <<chain, since>>,
           CallIsCareful(k), k.kind = call[c].kind,
           k.at \in {"connecting", "asked", "reading"}
    PROVE  NetInv'
<1>1. CallIsCareful(call[c])
  BY DEF NetInv
<1>2. /\ InLine(k) <=> InLine(call[c])
      /\ AtWork(k) <=> AtWork(call[c])
      /\ OnlyLists(k)
  BY <1>1 DEF InLine, AtWork, OnlyLists, CallIsCareful
<1>3. AtWork(k) => Head(chain) = c
  BY <1>2 DEF NetInv, QueueInv
<1> QED
  BY <1>2, <1>3, CallMoves

LEMMA ConnectStep ==
    ASSUME NetInv, NEW c \in Calls, NEW ips \in Resolved, Net!Connect(c, ips)
    PROVE  NetInv'
<1>1. call[c].at = "connecting" /\ CallIsCareful(call[c]) /\ since' = since
  BY DEF Net!Connect, NetInv
<1>2. CASE Net!MayConnect(ips)
  <2>1. PICK ip \in ips : /\ call' = [call EXCEPT ![c].at = "asked", ![c].reached = ip]
                          /\ UNCHANGED chain
    BY <1>2 DEF Net!Connect
  <2> PICK k : k = [call[c] EXCEPT !.at = "asked", !.reached = ip]
    OBVIOUS
  <2>2. call' = [call EXCEPT ![c] = k]
    BY <2>1
  <2>3. k \in Net!CallStates
    BY <1>1 DEF CallIsCareful, Net!CallStates
  <2>4. ~Net!IsPrivateAddress(ip)
    BY <1>2 DEF Net!MayConnect
  <2>5. /\ k.kind = call[c].kind /\ k.tries = call[c].tries /\ k.held = call[c].held
        /\ k.to = call[c].to /\ k.status = call[c].status /\ k.body = call[c].body
        /\ k.out = call[c].out /\ k.at = "asked" /\ k.reached = ip
    BY <1>1 DEF CallIsCareful, Net!CallStates
  <2>6. CallIsCareful(k)
    BY <1>1, <2>3, <2>4, <2>5 DEF CallIsCareful
  <2> QED
    BY <1>1, <2>1, <2>2, <2>5, <2>6, CallGoesOnCarefully
<1>3. CASE ~Net!MayConnect(ips)
  BY <1>1, <1>3, CallSettles DEF Net!Connect
<1> QED
  BY <1>2, <1>3

LEMMA RedirectStep ==
    ASSUME NetInv, NEW c \in Calls, NEW a \in Addresses, Net!Redirect(c, a)
    PROVE  NetInv'
<1>1. /\ call[c].at = "asked" /\ call[c].kind = "page" /\ CallIsCareful(call[c])
      /\ since' = since
  BY DEF Net!Redirect, NetInv
<1>2. CASE Net!Follows(c, a)
  <2> PICK tries : tries = call[c].tries + 1 /\ tries \in Nat
    BY <1>1 DEF CallIsCareful, Net!CallStates
  <2> PICK k : k = [call[c] EXCEPT !.at = "connecting", !.to = a, !.reached = Nowhere,
                                   !.tries = tries]
    OBVIOUS
  <2>1. call' = [call EXCEPT ![c] = k] /\ chain' = chain
    BY <1>2 DEF Net!Redirect
  <2>2. k \in Net!CallStates
    BY <1>1 DEF CallIsCareful, Net!CallStates
  <2>3. /\ Net!CheckWebAddress(a) = "none"
        /\ call[c].tries \in Nat /\ call[c].tries < MaxRedirects
    BY <1>1, <1>2 DEF Net!Follows, CallIsCareful, Net!CallStates
  <2>4. /\ k.kind = "page" /\ k.tries = call[c].tries + 1 /\ k.held = call[c].held
        /\ k.to = a /\ k.status = call[c].status /\ k.body = call[c].body
        /\ k.out = call[c].out /\ k.at = "connecting" /\ k.reached = Nowhere
    BY <1>1 DEF CallIsCareful, Net!CallStates
  <2>5. k.tries <= MaxRedirects
    BY <2>3, <2>4, NetNumbers
  <2>6. CallIsCareful(k)
    BY <1>1, <2>2, <2>3, <2>4, <2>5 DEF CallIsCareful
  <2> QED
    BY <1>1, <2>1, <2>4, <2>6, CallGoesOnCarefully
<1>3. CASE ~Net!Follows(c, a)
  BY <1>1, <1>3, CallSettles DEF Net!Redirect
<1> QED
  BY <1>2, <1>3

LEMMA HeadersStep ==
    ASSUME NetInv, NEW c \in Calls, NEW status \in {"fine", "error"}, Net!Headers(c, status)
    PROVE  NetInv'
<1>1. /\ call[c].at = "asked" /\ CallIsCareful(call[c]) /\ since' = since
  BY DEF Net!Headers, NetInv
<1>2. CASE Net!Continues(status)
  <2> PICK due : due = Net!TimerAfterHeaders(call[c].kind, call[c].due)
    OBVIOUS
  <2> PICK k : k = [call[c] EXCEPT !.at = "reading", !.status = status, !.due = due]
    OBVIOUS
  <2>1. call' = [call EXCEPT ![c] = k] /\ chain' = chain
    BY <1>2 DEF Net!Headers
  <2>2. due \in Nat \cup {Off}
    BY <1>1 DEF Net!TimerAfterHeaders, CallIsCareful, Net!CallStates
  <2>3. k \in Net!CallStates
    BY <1>1, <2>2 DEF CallIsCareful, Net!CallStates
  <2>4. /\ k.kind = call[c].kind /\ k.tries = call[c].tries /\ k.held = call[c].held
        /\ k.to = call[c].to /\ k.status = "fine" /\ k.body = call[c].body
        /\ k.out = call[c].out /\ k.at = "reading" /\ k.reached = call[c].reached
    BY <1>1, <1>2 DEF CallIsCareful, Net!CallStates, Net!Continues
  <2>5. CallIsCareful(k)
    BY <1>1, <2>3, <2>4 DEF CallIsCareful
  <2> QED
    BY <1>1, <2>1, <2>4, <2>5, CallGoesOnCarefully
<1>3. CASE ~Net!Continues(status)
  BY <1>1, <1>3, CallSettles DEF Net!Headers
<1> QED
  BY <1>2, <1>3

LEMMA PieceStep == ASSUME NetInv, NEW c \in Calls, Net!Piece(c) PROVE NetInv'
<1>1. call[c].at = "reading" /\ CallIsCareful(call[c]) /\ since' = since
  BY DEF Net!Piece, NetInv
<1>2. CASE Net!WithinBytes(call[c].held)
  <2> PICK k : k = [call[c] EXCEPT !.held = @ + 1]
    OBVIOUS
  <2>1. call' = [call EXCEPT ![c] = k] /\ chain' = chain
    BY <1>2 DEF Net!Piece
  <2>2. k \in Net!CallStates /\ k.held = call[c].held + 1 /\ call[c].held \in Nat
    BY <1>1 DEF CallIsCareful, Net!CallStates
  <2>3. /\ k.kind = call[c].kind /\ k.tries = call[c].tries
        /\ k.to = call[c].to /\ k.status = call[c].status /\ k.body = call[c].body
        /\ k.out = call[c].out /\ k.at = "reading" /\ k.reached = call[c].reached
    BY <1>1 DEF CallIsCareful, Net!CallStates
  <2>4. k.held <= MaxBytes
    BY <1>2, <2>2, NetNumbers DEF Net!WithinBytes
  <2>5. CallIsCareful(k)
    BY <1>1, <2>2, <2>3, <2>4 DEF CallIsCareful
  <2> QED
    BY <1>1, <2>1, <2>3, <2>5, CallGoesOnCarefully
<1>3. CASE ~Net!WithinBytes(call[c].held)
  BY <1>1, <1>3, CallSettles DEF Net!Piece
<1> QED
  BY <1>2, <1>3

(* What a body is taken for. *)
LEMMA OnlyWholeIsRead ==
    \A kind, body :
        /\ Net!Reading(kind, body) \in {"read", "empty", "refused"}
        /\ Net!Reading(kind, body) = "read" => body = "whole"
        /\ Net!Reading(kind, body) = "empty" => kind = "search"
  BY DEF Net!Reading, Net!SearchByName, Net!ReadProfile, Net!FitsSchema, Net!ReadPage,
     Net!ParsesAsJson

LEMMA BodyEndsStep ==
    ASSUME NetInv, NEW c \in Calls, NEW body \in {"whole", "shape", "text", "huge"},
           Net!BodyEnds(c, body)
    PROVE  NetInv'
<1>1. call[c].at = "reading" /\ call[c].status = "fine" /\ since' = since
  BY DEF Net!BodyEnds, NetInv, CallIsCareful
<1>2. Net!Settle(c, Net!Reading(call[c].kind, body), "fine", body)
  BY <1>1 DEF Net!BodyEnds
<1> QED
  BY <1>1, <1>2, OnlyWholeIsRead, CallSettles

LEMMA ReplyStep ==
    ASSUME NetInv, NEW c \in Calls, NEW body \in {"whole", "shape", "text", "none"},
           Net!Reply(c, body)
    PROVE  NetInv'
<1>1. call[c].at = "asked" /\ call[c].kind = "prompt" /\ CallIsCareful(call[c]) /\ since' = since
  BY DEF Net!Reply, NetInv
<1>2. CASE body # "none" /\ ~Net!FitsSchema(body) /\ call[c].tries < MaxTries
  <2> PICK k : k = [call[c] EXCEPT !.tries = @ + 1]
    OBVIOUS
  <2>1. call' = [call EXCEPT ![c] = k] /\ chain' = chain
    BY <1>2 DEF Net!Reply
  <2>2. k \in Net!CallStates /\ k.tries = call[c].tries + 1 /\ call[c].tries \in Nat
    BY <1>1 DEF CallIsCareful, Net!CallStates
  <2>3. /\ k.kind = call[c].kind /\ k.held = call[c].held
        /\ k.to = call[c].to /\ k.status = call[c].status /\ k.body = call[c].body
        /\ k.out = call[c].out /\ k.at = "asked" /\ k.reached = call[c].reached
    BY <1>1 DEF CallIsCareful, Net!CallStates
  <2>4. k.tries <= MaxTries
    BY <1>2, <2>2, NetNumbers
  <2>5. CallIsCareful(k)
    BY <1>1, <2>2, <2>3, <2>4 DEF CallIsCareful
  <2> QED
    BY <1>1, <2>1, <2>3, <2>5, CallGoesOnCarefully
<1>3. CASE ~(body # "none" /\ ~Net!FitsSchema(body) /\ call[c].tries < MaxTries)
  <2> PICK out, status :
        out = Net!Reading("prompt", body) /\ status = IF body = "none" THEN "error" ELSE "fine"
    OBVIOUS
  <2>1. Net!Settle(c, out, status, body)
    BY <1>3 DEF Net!Reply
  <2>2. /\ out \in {"read", "empty", "refused"} /\ status \in {"error", "fine"}
        /\ out = "read" => status = "fine" /\ body = "whole"
        /\ out # "empty"
    BY OnlyWholeIsRead
  <2> QED
    BY <1>1, <2>1, <2>2, CallSettles
<1> QED
  BY <1>2, <1>3

LEMMA GivenUpStep ==
    ASSUME NetInv, NEW c \in Calls, Net!Broken(c) \/ Net!TimeOut(c) PROVE NetInv'
  BY CallSettles DEF Net!Broken, Net!TimeOut

LEMMA TickStep == NetInv /\ Net!Tick => NetInv'
<1> SUFFICES ASSUME NetInv, Net!Tick PROVE NetInv'
  OBVIOUS
<1>1. chain' = chain /\ call' = [c \in Calls |-> [call[c] EXCEPT !.due = Net!Later(@)]]
  BY DEF Net!Tick
<1>2. /\ since \in 0 .. MinInterval /\ since' \in 0 .. MinInterval
      /\ since' = IF since < MinInterval THEN since + 1 ELSE since
  BY NetNumbers DEF Net!Tick, NetInv, QueueInv
<1>3. ASSUME NEW c \in Calls
      PROVE  /\ CallIsCareful(call'[c])
             /\ call'[c].kind = call[c].kind /\ call'[c].at = call[c].at
             /\ call'[c].due = Net!Later(call[c].due)
  <2> PICK k, due : k = call'[c] /\ due = Net!Later(call[c].due)
    OBVIOUS
  <2>1. CallIsCareful(call[c]) /\ call[c].due \in Nat \cup {Off}
    BY DEF NetInv, CallIsCareful, Net!CallStates
  <2>2. due \in Nat \cup {Off}
    BY <2>1 DEF Net!Later
  <2>3. k = [call[c] EXCEPT !.due = due]
    BY <1>1
  <2>4. k \in Net!CallStates
    BY <2>1, <2>2, <2>3 DEF CallIsCareful, Net!CallStates
  <2>5. /\ k.kind = call[c].kind /\ k.held = call[c].held /\ k.tries = call[c].tries
        /\ k.to = call[c].to /\ k.status = call[c].status /\ k.body = call[c].body
        /\ k.out = call[c].out /\ k.at = call[c].at /\ k.reached = call[c].reached
        /\ k.due = due
    BY <2>1, <2>3 DEF CallIsCareful, Net!CallStates
  <2>6. CallIsCareful(k)
    BY <2>1, <2>4, <2>5 DEF CallIsCareful
  <2> QED
    BY <2>5, <2>6
<1>4. ASSUME NEW c \in Calls
      PROVE  /\ OnlyLists(call'[c])
             /\ (\E i \in DOMAIN chain : chain[i] = c) <=> InLine(call'[c])
             /\ AtWork(call'[c]) => Head(chain) = c
  BY <1>3 DEF NetInv, QueueInv, OnlyLists, InLine, AtWork
<1>5. ASSUME NEW c \in Calls, call'[c].at = "spacing"
      PROVE  call'[c].due = MinInterval - since'
  <2>1. call[c].due = MinInterval - since
    BY <1>3, <1>5 DEF NetInv, QueueInv
  <2> QED
    BY <1>2, <1>3, <2>1, NetNumbers DEF Net!Later
<1>6. QueueInv'
  BY <1>1, <1>2, <1>4, <1>5 DEF NetInv, QueueInv
<1> QED
  BY <1>1, <1>3, <1>6 DEF NetInv

LEMMA NetInvStep == NetInv /\ [Net!FetchingNext]_netVars => NetInv'
<1> SUFFICES ASSUME NetInv, [Net!FetchingNext]_netVars PROVE NetInv'
  OBVIOUS
<1>1. CASE UNCHANGED netVars
  BY <1>1 DEF netVars, NetInv, QueueInv
<1>2. CASE Net!FetchingNext
  BY <1>2, TickStep, AskListStep, TurnStep, StartStep, AskOtherStep, ConnectStep, RedirectStep,
     HeadersStep, PieceStep, BodyEndsStep, ReplyStep, GivenUpStep DEF Net!FetchingNext
<1> QED
  BY <1>1, <1>2

LEMMA NetInvIsCareful ==
    NetInv => /\ Net!FetchingTypeOK
              /\ Net!NothingHalfRead /\ Net!GoesWhereItMay /\ Net!OneAtATime
<1> SUFFICES ASSUME NetInv
             PROVE  /\ Net!FetchingTypeOK
                    /\ Net!NothingHalfRead /\ Net!GoesWhereItMay /\ Net!OneAtATime
  OBVIOUS
<1>1. Net!FetchingTypeOK
  BY DEF NetInv, QueueInv, CallIsCareful, Net!FetchingTypeOK, InLine
<1>2. Net!NothingHalfRead
  BY DEF NetInv, CallIsCareful, Net!NothingHalfRead
<1>3. Net!GoesWhereItMay
  BY DEF NetInv, CallIsCareful, Net!GoesWhereItMay
<1>4. Net!OneAtATime
  BY DEF NetInv, QueueInv, AtWork, Net!OneAtATime
<1> QED
  BY <1>1, <1>2, <1>3, <1>4

(* One call moves at a time, and one that waits out the interval only by   *)
(* starting.                                                               *)
Moved(d) ==
    /\ \A e \in Calls \ {d} : call'[e] = call[e]
    /\ call[d].at = "spacing" => Net!Start(d)

LEMMA OneCallMoves ==
    ASSUME NetInv, Net!FetchingNext, ~Net!Tick
    PROVE  \E d \in Calls : Moved(d)
<1>1. ASSUME NEW d \in Calls, Net!AskList(d) \/ Net!AskPrompt(d) \/ Net!Turn(d)
      PROVE  Moved(d)
  BY <1>1 DEF Net!AskList, Net!AskPrompt, Net!Turn, Net!MayTurn, NetInv, Moved
<1>2. ASSUME NEW d \in Calls, \E kind \in Net!Lookups : Net!AskLookup(d, kind) PROVE Moved(d)
  BY <1>2 DEF Net!AskLookup, NetInv, Moved
<1>3. ASSUME NEW d \in Calls, \E a \in Addresses : Net!AskPage(d, a) \/ Net!Redirect(d, a)
      PROVE  Moved(d)
  BY <1>3 DEF Net!AskPage, Net!Redirect, Net!Settle, NetInv, Moved
<1>4. ASSUME NEW d \in Calls, Net!Start(d) PROVE Moved(d)
  BY <1>4 DEF Net!Start, NetInv, Moved
<1>5. ASSUME NEW d \in Calls, Net!Piece(d) \/ Net!Broken(d) \/ Net!TimeOut(d) PROVE Moved(d)
  BY <1>5 DEF Net!Piece, Net!Broken, Net!TimeOut, Net!Settle, NetInv, Moved
<1>6. ASSUME NEW d \in Calls, \E ips \in Resolved : Net!Connect(d, ips) PROVE Moved(d)
  BY <1>6 DEF Net!Connect, Net!Settle, NetInv, Moved
<1>7. ASSUME NEW d \in Calls, \E status \in {"fine", "error"} : Net!Headers(d, status)
      PROVE  Moved(d)
  BY <1>7 DEF Net!Headers, Net!Settle, NetInv, Moved
<1>8. ASSUME NEW d \in Calls,
             \/ \E body \in {"whole", "shape", "text", "huge"} : Net!BodyEnds(d, body)
             \/ \E body \in {"whole", "shape", "text", "none"} : Net!Reply(d, body)
      PROVE  Moved(d)
  BY <1>8 DEF Net!BodyEnds, Net!Reply, Net!Settle, NetInv, Moved
<1> QED
  BY <1>1, <1>2, <1>3, <1>4, <1>5, <1>6, <1>7, <1>8 DEF Net!FetchingNext

(* Only the end of its wait starts a list request, and that is the end of  *)
(* the interval.                                                           *)
LEMMA StartsAreSpaced ==
    NetInv /\ [Net!FetchingNext]_netVars =>
        ((\E c \in Calls : call[c].at = "spacing" /\ call'[c].at = "asked")
            => since = MinInterval)
<1> SUFFICES ASSUME NetInv, [Net!FetchingNext]_netVars,
                    NEW c \in Calls, call[c].at = "spacing", call'[c].at = "asked"
             PROVE  since = MinInterval
  OBVIOUS
<1>1. call[c].due = MinInterval - since /\ since \in 0 .. MinInterval
  BY DEF NetInv, QueueInv
<1>2. ~UNCHANGED netVars
  BY DEF netVars
<1>3. ~Net!Tick
  <2>1. Net!Tick => call'[c].at = call[c].at
    BY DEF Net!Tick, NetInv, CallIsCareful, Net!CallStates
  <2> QED
    BY <2>1
<1>4. PICK d \in Calls : Moved(d)
  BY <1>2, <1>3, OneCallMoves
<1>5. Net!Start(c)
  BY <1>4 DEF Moved
<1> QED
  BY <1>1, <1>5, NetNumbers DEF Net!Start

-----------------------------------------------------------------------------
(***************************************************************************)
(* The funders.  The k-th amount is the least with k at or below it, which *)
(* is enough to see that a quartile lies within what was given; the order  *)
(* of the cards is read key by key, each key a difference of numbers.      *)
(***************************************************************************)

\* Of finitely many numbers one is the least.
LEMMA LeastMember ==
    ASSUME NEW S, IsFiniteSet(S), S # {}, S \subseteq Nat
    PROVE  \E x \in S : \A y \in S : x <= y
<1>1. PICK top \in S : \A y \in S : y <= top
  <2> DEFINE w == [x \in S |-> x]
  <2>1. \A x \in S : w[x] \in Nat /\ w[x] = x
    OBVIOUS
  <2> HIDE DEF w
  <2>2. \E x \in S : \A y \in S : w[y] <= w[x]
    BY <2>1, HeaviestMember
  <2> QED BY <2>1, <2>2
<1> DEFINE v == [x \in S |-> top - x]
<1>2. \A x \in S : v[x] \in Nat /\ v[x] = top - x /\ x \in Nat
  BY <1>1
<1> HIDE DEF v
<1>3. PICK x \in S : \A y \in S : v[y] <= v[x]
  BY <1>2, HeaviestMember
<1>4. \A y \in S : x <= y
  BY <1>2, <1>3, <1>1
<1> QED BY <1>4

(* Finitely many amounts, none negative. *)
Amounts(amounts) ==
    /\ IsFiniteSet(DOMAIN amounts)
    /\ \A i \in DOMAIN amounts : amounts[i] \in Nat

Reach(amounts, k) ==
    {x \in {amounts[i] : i \in DOMAIN amounts} : AtOrBelow(amounts, x) >= k}

LEMMA HowManyIsNat ==
    ASSUME NEW amounts, Amounts(amounts) PROVE HowMany(amounts) \in Nat
  BY FS_CardinalityType DEF Amounts, HowMany

\* The k-th amount is one of those with k at or below it, and the least.
LEMMA NthIs ==
    ASSUME NEW amounts, Amounts(amounts), NEW k \in 1 .. HowMany(amounts)
    PROVE  /\ Nth(amounts, k) \in Reach(amounts, k) /\ Nth(amounts, k) \in Nat
           /\ \A y \in Reach(amounts, k) : Nth(amounts, k) <= y
<1> DEFINE Values == {amounts[i] : i \in DOMAIN amounts}
           Below(x) == {i \in DOMAIN amounts : amounts[i] <= x}
<1>1. IsFiniteSet(Values) /\ Values \subseteq Nat
  <2> DEFINE f == [i \in DOMAIN amounts |-> amounts[i]]
  <2>0. Values = {f[i] : i \in DOMAIN amounts}
    OBVIOUS
  <2>1. IsFiniteSet(Values)
    <3>1. IsFiniteSet({f[i] : i \in DOMAIN amounts})
      BY ImageIsFinite DEF Amounts
    <3> QED BY <2>0, <3>1
  <2> QED BY <2>1 DEF Amounts
<1>2. HowMany(amounts) \in Nat /\ HowMany(amounts) # 0 /\ DOMAIN amounts # {}
  <2>1. HowMany(amounts) \in Nat
    BY HowManyIsNat
  <2>2. HowMany(amounts) # 0
    BY <2>1
  <2>3. DOMAIN amounts # {}
    BY <2>2, FS_EmptySet DEF HowMany
  <2> QED BY <2>1, <2>2, <2>3
<1>3. PICK top \in DOMAIN amounts : \A i \in DOMAIN amounts : amounts[i] <= amounts[top]
  BY <1>2, HeaviestMember DEF Amounts
<1>4. amounts[top] \in Reach(amounts, k)
  <2>1. Below(amounts[top]) = DOMAIN amounts
    BY <1>3
  <2>2. AtOrBelow(amounts, amounts[top]) = HowMany(amounts)
    BY <2>1 DEF AtOrBelow, HowMany
  <2> QED BY <1>2, <2>2 DEF Reach
<1>5. IsFiniteSet(Reach(amounts, k)) /\ Reach(amounts, k) \subseteq Nat
  <2>1. Reach(amounts, k) \subseteq Values
    BY DEF Reach
  <2> QED BY <1>1, <2>1, FS_Subset
<1>6. \E x \in Reach(amounts, k) : \A y \in Reach(amounts, k) : x <= y
  BY <1>4, <1>5, LeastMember
<1>7. Nth(amounts, k) = CHOOSE x \in Reach(amounts, k) : \A y \in Reach(amounts, k) : x <= y
  BY DEF Nth, Reach
<1> QED BY <1>5, <1>6, <1>7

LEMMA CountIsNat ==
    ASSUME NEW amounts, Amounts(amounts), NEW x PROVE AtOrBelow(amounts, x) \in Nat
<1>1. IsFiniteSet({i \in DOMAIN amounts : amounts[i] <= x})
  BY FS_Subset DEF Amounts
<1> QED BY <1>1, FS_CardinalityType DEF AtOrBelow

\* The sorted amounts do not fall.
LEMMA NthRises ==
    ASSUME NEW amounts, Amounts(amounts),
           NEW k \in 1 .. HowMany(amounts), NEW m \in 1 .. HowMany(amounts), k <= m
    PROVE  Nth(amounts, k) <= Nth(amounts, m)
<1>1. Nth(amounts, m) \in Reach(amounts, m)
  BY NthIs
<1>2. AtOrBelow(amounts, Nth(amounts, m)) \in Nat /\ HowMany(amounts) \in Nat
  BY CountIsNat, HowManyIsNat
<1>3. Nth(amounts, m) \in Reach(amounts, k)
  <2>1. AtOrBelow(amounts, Nth(amounts, m)) >= m
    BY <1>1 DEF Reach
  <2>2. AtOrBelow(amounts, Nth(amounts, m)) >= k
    BY <1>2, <2>1
  <2> QED BY <1>1, <2>2 DEF Reach
<1> QED BY <1>3, NthIs

\* A quartile is a number between the smallest and the largest amount.
LEMMA QuartileIsWithin ==
    ASSUME NEW amounts, Amounts(amounts), HowMany(amounts) > 0, NEW q \in 1 .. 3
    PROVE  /\ Quartile(amounts, q) \in Nat
           /\ 4 * Nth(amounts, 1) <= Quartile(amounts, q)
           /\ Quartile(amounts, q) <= 4 * Nth(amounts, HowMany(amounts))
<1> DEFINE n == HowMany(amounts)
           position == (n - 1) * q
           weight == position % 4
           d == position \div 4
           A(k) == Nth(amounts, k)
<1>1. n \in Nat /\ n > 0
  BY HowManyIsNat
<1>2. \A k \in 1 .. n : A(k) \in Nat /\ A(1) <= A(k) /\ A(k) <= A(n)
  BY <1>1, NthIs, NthRises
<1>3. Quartile(amounts, q) = IF weight = 0 THEN 4 * A(d + 1)
                             ELSE (4 - weight) * A(d + 1) + weight * A(d + 2)
  BY DEF Quartile
<1> HIDE DEF n, A
<1>4. /\ weight \in 0 .. 3 /\ d \in Nat /\ d + 1 \in 1 .. n
      /\ weight # 0 => d + 2 \in 1 .. n
  <2>1. CASE q = 1
    BY <1>1, <2>1
  <2>2. CASE q = 2
    BY <1>1, <2>2
  <2>3. CASE q = 3
    BY <1>1, <2>3
  <2> QED BY <2>1, <2>2, <2>3
<1>5. PICK wt \in 0 .. 3 : wt = weight
  BY <1>4
<1>6. PICK e \in Nat : e = d
  BY <1>4
<1> HIDE DEF weight, d
<1>7. CASE wt = 0
  BY <1>1, <1>2, <1>3, <1>4, <1>5, <1>6, <1>7 DEF n, A
<1>8. CASE wt # 0
  <2>1. e + 1 \in 1 .. n /\ e + 2 \in 1 .. n /\ 1 \in 1 .. n
    BY <1>1, <1>4, <1>5, <1>6, <1>8
  <2>2. PICK x \in Nat, y \in Nat, lo \in Nat, hi \in Nat :
            /\ x = A(e + 1) /\ y = A(e + 2) /\ lo = A(1) /\ hi = A(n)
            /\ lo <= x /\ lo <= y /\ x <= hi /\ y <= hi
    BY <1>1, <1>2, <2>1
  <2>3. Quartile(amounts, q) = (4 - wt) * x + wt * y
    BY <1>3, <1>5, <1>6, <1>8, <2>2
  <2>4. (4 - wt) * x + wt * y \in Nat /\ 4 * lo <= (4 - wt) * x + wt * y
        /\ (4 - wt) * x + wt * y <= 4 * hi
    <3>1. CASE wt = 1
      BY <2>2, <3>1
    <3>2. CASE wt = 2
      BY <2>2, <3>2
    <3>3. CASE wt = 3
      BY <2>2, <3>3
    <3> QED BY <1>8, <3>1, <3>2, <3>3
  <2> QED BY <2>2, <2>3, <2>4 DEF n, A
<1> QED BY <1>7, <1>8

\* The place of each tier.
LEMMA PlaceIs ==
    /\ Place("area_and_cause") = 1 /\ Place("cause") = 2 /\ Place("area") = 3
    /\ Place("no_overlap") = 4 /\ Place("not_characterised") = 5
<1>1. DOMAIN Tiers = 1 .. 5
  BY DEF Tiers
<1>2. /\ Tiers[1] = "area_and_cause" /\ Tiers[2] = "cause" /\ Tiers[3] = "area"
      /\ Tiers[4] = "no_overlap" /\ Tiers[5] = "not_characterised"
  BY DEF Tiers
<1>3. \A i \in 1 .. 5 : i = 1 \/ i = 2 \/ i = 3 \/ i = 4 \/ i = 5
  OBVIOUS
<1>4. Place("area_and_cause") = 1
  BY <1>1, <1>2, <1>3 DEF Place
<1>5. Place("cause") = 2
  BY <1>1, <1>2, <1>3 DEF Place
<1>6. Place("area") = 3
  BY <1>1, <1>2, <1>3 DEF Place
<1>7. Place("no_overlap") = 4
  BY <1>1, <1>2, <1>3 DEF Place
<1>8. Place("not_characterised") = 5
  BY <1>1, <1>2, <1>3 DEF Place
<1> QED BY <1>4, <1>5, <1>6, <1>7, <1>8

\* A funder is in one of the five tiers.
LEMMA TierPlace ==
    ASSUME NEW awards, NEW cause, NEW area PROVE Place(TierOf(awards, cause, area)) \in 1 .. 5
  BY PlaceIs DEF TierOf

(* What a card tells, as far as the order reads it.                        *)
IsCard(c) ==
    /\ Place(c.tier) \in Int /\ c.dormant \in BOOLEAN
    /\ c.work \in Nat /\ c.matching \in Nat /\ c.funder \in Int
    /\ c.since # Nothing => c.since \in Int /\ c.since < Forever

(* Six differences read one after the other.                               *)
FirstTells(k1, k2, k3, k4, k5, k6) ==
    \/ k1 < 0
    \/ k1 = 0 /\ k2 < 0
    \/ k1 = 0 /\ k2 = 0 /\ k3 < 0
    \/ k1 = 0 /\ k2 = 0 /\ k3 = 0 /\ k4 < 0
    \/ k1 = 0 /\ k2 = 0 /\ k3 = 0 /\ k4 = 0 /\ k5 < 0
    \/ k1 = 0 /\ k2 = 0 /\ k3 = 0 /\ k4 = 0 /\ k5 = 0 /\ k6 < 0

LEMMA FirstDifference ==
    ASSUME NEW k1 \in Int, NEW k2 \in Int, NEW k3 \in Int,
           NEW k4 \in Int, NEW k5 \in Int, NEW k6 \in Int,
           NEW keys, keys = <<k1, k2, k3, k4, k5, k6>>,
           NEW told, told = {i \in DOMAIN keys : keys[i] # 0}
    PROVE  (IF told = {} THEN 0 ELSE keys[CHOOSE i \in told : \A j \in told : i <= j]) < 0
             <=> FirstTells(k1, k2, k3, k4, k5, k6)
<1> DEFINE first == CHOOSE i \in told : \A j \in told : i <= j
<1>1. /\ DOMAIN keys = 1 .. 6
      /\ keys[1] = k1 /\ keys[2] = k2 /\ keys[3] = k3
      /\ keys[4] = k4 /\ keys[5] = k5 /\ keys[6] = k6
  OBVIOUS
<1>2. \A i : i \in told <=> \/ i = 1 /\ k1 # 0
                            \/ i = 2 /\ k2 # 0
                            \/ i = 3 /\ k3 # 0
                            \/ i = 4 /\ k4 # 0
                            \/ i = 5 /\ k5 # 0
                            \/ i = 6 /\ k6 # 0
  <2>1. \A i : i \in 1 .. 6 <=> i = 1 \/ i = 2 \/ i = 3 \/ i = 4 \/ i = 5 \/ i = 6
    OBVIOUS
  <2> QED BY <1>1, <2>1
<1>3. ASSUME NEW i \in told, i \in Int, \A j \in told : j \in Int /\ i <= j
      PROVE  first = i
  BY <1>3
<1> HIDE DEF first
<1>4. \A i \in told : i \in Int
  BY <1>2
<1>5. CASE k1 # 0
  <2>1. 1 \in told /\ \A j \in told : j \in Int /\ 1 <= j
    BY <1>2, <1>5
  <2>2. first = 1 /\ told # {}
    BY <1>3, <2>1
  <2> QED BY <1>1, <1>5, <2>2 DEF first, FirstTells
<1>6. CASE k1 = 0 /\ k2 # 0
  <2>1. 2 \in told /\ \A j \in told : j \in Int /\ 2 <= j
    BY <1>2, <1>6
  <2>2. first = 2 /\ told # {}
    BY <1>3, <2>1
  <2> QED BY <1>1, <1>6, <2>2 DEF first, FirstTells
<1>7. CASE k1 = 0 /\ k2 = 0 /\ k3 # 0
  <2>1. 3 \in told /\ \A j \in told : j \in Int /\ 3 <= j
    BY <1>2, <1>7
  <2>2. first = 3 /\ told # {}
    BY <1>3, <2>1
  <2> QED BY <1>1, <1>7, <2>2 DEF first, FirstTells
<1>8. CASE k1 = 0 /\ k2 = 0 /\ k3 = 0 /\ k4 # 0
  <2>1. 4 \in told /\ \A j \in told : j \in Int /\ 4 <= j
    BY <1>2, <1>8
  <2>2. first = 4 /\ told # {}
    BY <1>3, <2>1
  <2> QED BY <1>1, <1>8, <2>2 DEF first, FirstTells
<1>9. CASE k1 = 0 /\ k2 = 0 /\ k3 = 0 /\ k4 = 0 /\ k5 # 0
  <2>1. 5 \in told /\ \A j \in told : j \in Int /\ 5 <= j
    BY <1>2, <1>9
  <2>2. first = 5 /\ told # {}
    BY <1>3, <2>1
  <2> QED BY <1>1, <1>9, <2>2 DEF first, FirstTells
<1>10. CASE k1 = 0 /\ k2 = 0 /\ k3 = 0 /\ k4 = 0 /\ k5 = 0 /\ k6 # 0
  <2>1. 6 \in told /\ \A j \in told : j \in Int /\ 6 <= j
    BY <1>2, <1>10
  <2>2. first = 6 /\ told # {}
    BY <1>3, <2>1
  <2> QED BY <1>1, <1>10, <2>2 DEF first, FirstTells
<1>11. CASE k1 = 0 /\ k2 = 0 /\ k3 = 0 /\ k4 = 0 /\ k5 = 0 /\ k6 = 0
  <2>1. told = {}
    BY <1>2, <1>11
  <2> QED BY <1>11, <2>1 DEF FirstTells
<1> QED BY <1>5, <1>6, <1>7, <1>8, <1>9, <1>10, <1>11

(* Card a reads before card b, key by key.                                 *)
LastKey(a, b) == IF a.since = Nothing /\ b.since = Nothing THEN 0 ELSE a.funder - b.funder
Ahead(a, b) ==
    FirstTells(Place(a.tier) - Place(b.tier), DormancyOrder(a, b), b.work - a.work,
               b.matching - a.matching, Since(a) - Since(b), LastKey(a, b))

LEMMA KeysAreNumbers ==
    ASSUME NEW a, NEW b, IsCard(a), IsCard(b)
    PROVE  /\ Since(a) \in Int /\ Since(b) \in Int
           /\ DormancyOrder(a, b) \in Int /\ LastKey(a, b) \in Int
<1>1. Since(a) \in Int /\ Since(b) \in Int
  BY DEF Since, IsCard, Forever
<1>2. DormancyOrder(a, b) \in Int /\ LastKey(a, b) \in Int
  BY DEF DormancyOrder, LastKey, IsCard
<1> QED BY <1>1, <1>2

LEMMA ByRelevanceIs ==
    ASSUME NEW a, NEW b, IsCard(a), IsCard(b)
    PROVE  ByRelevance(a, b) < 0 <=> Ahead(a, b)
<1> DEFINE k1 == Place(a.tier) - Place(b.tier)
           k2 == DormancyOrder(a, b)
           k3 == b.work - a.work
           k4 == b.matching - a.matching
           k5 == Since(a) - Since(b)
           k6 == LastKey(a, b)
           keys == <<k1, k2, k3, k4, k5, k6>>
           told == {i \in DOMAIN keys : keys[i] # 0}
<1>1. /\ k1 \in Int /\ k2 \in Int /\ k3 \in Int /\ k4 \in Int /\ k5 \in Int /\ k6 \in Int
  <2>1. k2 \in Int /\ k6 \in Int /\ Since(a) \in Int /\ Since(b) \in Int
    BY KeysAreNumbers
  <2>2. k1 \in Int /\ k3 \in Int /\ k4 \in Int
    BY DEF IsCard
  <2> QED BY <2>1, <2>2
<1>2. ByRelevance(a, b)
        = IF told = {} THEN 0 ELSE keys[CHOOSE i \in told : \A j \in told : i <= j]
  BY DEF ByRelevance, LastKey
<1>3. Ahead(a, b) <=> FirstTells(k1, k2, k3, k4, k5, k6)
  BY DEF Ahead
<1> HIDE DEF k1, k2, k3, k4, k5, k6
<1>4. ASSUME NEW ks, ks = keys, NEW s, s = told
      PROVE  (IF s = {} THEN 0 ELSE ks[CHOOSE i \in s : \A j \in s : i <= j]) < 0
               <=> FirstTells(k1, k2, k3, k4, k5, k6)
  BY <1>1, <1>4, FirstDifference
<1> QED BY <1>2, <1>3, <1>4

LEMMA TellsOnward ==
    ASSUME NEW x1 \in Int, NEW x2 \in Int, NEW x3 \in Int,
           NEW x4 \in Int, NEW x5 \in Int, NEW x6 \in Int,
           NEW y1 \in Int, NEW y2 \in Int, NEW y3 \in Int,
           NEW y4 \in Int, NEW y5 \in Int, NEW y6 \in Int,
           FirstTells(x1, x2, x3, x4, x5, x6), FirstTells(y1, y2, y3, y4, y5, y6),
           NEW z1 \in Int, NEW z2 \in Int, NEW z3 \in Int,
           NEW z4 \in Int, NEW z5 \in Int, NEW z6 \in Int,
           z1 = x1 + y1, z2 = x2 + y2, z3 = x3 + y3, z4 = x4 + y4, z5 = x5 + y5,
           x5 = 0 /\ y5 = 0 /\ x6 < 0 /\ y6 < 0 => z6 < 0
    PROVE  FirstTells(z1, z2, z3, z4, z5, z6)
  BY DEF FirstTells

LEMMA AheadIsAnOrder ==
    ASSUME NEW a, NEW b, IsCard(a), IsCard(b), a.funder # b.funder, a.since # Nothing
    PROVE  Ahead(a, b) <=> ~Ahead(b, a)
<1> DEFINE x1 == Place(a.tier) - Place(b.tier)
           x2 == DormancyOrder(a, b)
           x3 == b.work - a.work
           x4 == b.matching - a.matching
           x5 == Since(a) - Since(b)
           x6 == LastKey(a, b)
           y1 == Place(b.tier) - Place(a.tier)
           y2 == DormancyOrder(b, a)
           y3 == a.work - b.work
           y4 == a.matching - b.matching
           y5 == Since(b) - Since(a)
           y6 == LastKey(b, a)
<1>1. x2 \in Int /\ x6 \in Int /\ y2 \in Int /\ y6 \in Int /\ Since(a) \in Int /\ Since(b) \in Int
  BY KeysAreNumbers
<1>2. /\ x1 \in Int /\ x3 \in Int /\ x4 \in Int /\ y1 \in Int /\ y3 \in Int /\ y4 \in Int
      /\ y1 = 0 - x1 /\ y3 = 0 - x3 /\ y4 = 0 - x4
  BY DEF IsCard
<1>3. x5 \in Int /\ y5 \in Int /\ y5 = 0 - x5
  BY <1>1
<1>4. y2 = 0 - x2
  BY DEF DormancyOrder, IsCard
<1>5. y6 = 0 - x6 /\ x6 # 0
  BY DEF LastKey, IsCard
<1>6. Ahead(a, b) <=> FirstTells(x1, x2, x3, x4, x5, x6)
  BY DEF Ahead
<1>7. Ahead(b, a) <=> FirstTells(y1, y2, y3, y4, y5, y6)
  BY DEF Ahead
<1> HIDE DEF x1, x2, x3, x4, x5, x6, y1, y2, y3, y4, y5, y6
<1>8. FirstTells(x1, x2, x3, x4, x5, x6) <=> ~FirstTells(y1, y2, y3, y4, y5, y6)
  BY <1>1, <1>2, <1>3, <1>4, <1>5 DEF FirstTells
<1> QED BY <1>6, <1>7, <1>8

LEMMA AheadIsTransitive ==
    ASSUME NEW a, NEW b, NEW c, IsCard(a), IsCard(b), IsCard(c), Ahead(a, b), Ahead(b, c)
    PROVE  Ahead(a, c)
<1> DEFINE x1 == Place(a.tier) - Place(b.tier)
           x2 == DormancyOrder(a, b)
           x3 == b.work - a.work
           x4 == b.matching - a.matching
           x5 == Since(a) - Since(b)
           x6 == LastKey(a, b)
           y1 == Place(b.tier) - Place(c.tier)
           y2 == DormancyOrder(b, c)
           y3 == c.work - b.work
           y4 == c.matching - b.matching
           y5 == Since(b) - Since(c)
           y6 == LastKey(b, c)
           z1 == Place(a.tier) - Place(c.tier)
           z2 == DormancyOrder(a, c)
           z3 == c.work - a.work
           z4 == c.matching - a.matching
           z5 == Since(a) - Since(c)
           z6 == LastKey(a, c)
<1>1. /\ x2 \in Int /\ x6 \in Int /\ y2 \in Int /\ y6 \in Int /\ z2 \in Int /\ z6 \in Int
      /\ Since(a) \in Int /\ Since(b) \in Int /\ Since(c) \in Int
  BY KeysAreNumbers
<1>2. /\ x1 \in Int /\ x3 \in Int /\ x4 \in Int /\ y1 \in Int /\ y3 \in Int /\ y4 \in Int
      /\ z1 \in Int /\ z3 \in Int /\ z4 \in Int
      /\ z1 = x1 + y1 /\ z3 = x3 + y3 /\ z4 = x4 + y4
  BY DEF IsCard
<1>3. x5 \in Int /\ y5 \in Int /\ z5 \in Int /\ z5 = x5 + y5
  BY <1>1
<1>4. z2 = x2 + y2
  BY DEF DormancyOrder, IsCard
<1>5. x5 = 0 /\ y5 = 0 /\ x6 < 0 /\ y6 < 0 => z6 < 0
  <2> SUFFICES ASSUME x5 = 0, y5 = 0, x6 < 0, y6 < 0 PROVE z6 < 0
    OBVIOUS
  <2>1. Since(a) = Since(b) /\ Since(b) = Since(c)
    BY <1>1
  <2>2. ~(a.since = Nothing /\ b.since = Nothing) /\ x6 = a.funder - b.funder
    BY DEF LastKey
  <2>3. ~(b.since = Nothing /\ c.since = Nothing) /\ y6 = b.funder - c.funder
    BY DEF LastKey
  <2>4. ~(a.since = Nothing /\ c.since = Nothing)
    BY <2>1, <2>2 DEF Since, IsCard, Forever
  <2>5. z6 = a.funder - c.funder
    BY <2>4 DEF LastKey
  <2>6. a.funder - b.funder < 0 /\ b.funder - c.funder < 0
    BY <2>2, <2>3
  <2> HIDE DEF z6
  <2> QED BY <2>5, <2>6 DEF IsCard
<1>6. FirstTells(x1, x2, x3, x4, x5, x6)
  BY DEF Ahead
<1>7. FirstTells(y1, y2, y3, y4, y5, y6)
  BY DEF Ahead
<1>8. Ahead(a, c) <=> FirstTells(z1, z2, z3, z4, z5, z6)
  BY DEF Ahead
<1> HIDE DEF x1, x2, x3, x4, x5, x6, y1, y2, y3, y4, y5, y6, z1, z2, z3, z4, z5, z6
<1>9. FirstTells(z1, z2, z3, z4, z5, z6)
  BY <1>1, <1>2, <1>3, <1>4, <1>5, <1>6, <1>7, TellsOnward
<1> QED BY <1>8, <1>9

(***************************************************************************)
(* The lists a funder may publish, and the cards made of them.             *)
(***************************************************************************)

LEMMA ListShape ==
    ASSUME NEW l \in AwardLists
    PROVE  /\ Len(l) \in Nat /\ DOMAIN l = 1 .. Len(l) /\ IsFiniteSet(DOMAIN l)
           /\ HowMany(l) = Len(l)
           /\ DOMAIN l = {} <=> l = <<>>
           /\ \A i \in DOMAIN l : l[i].amount \in Nat /\ l[i].on \in Nat
<1>1. l \in Seq({l[i] : i \in DOMAIN l}) /\ \A i \in DOMAIN l : l[i].amount \in Nat /\ l[i].on \in Nat
  BY ProspectsAssumption
<1>2. Len(l) \in Nat /\ DOMAIN l = 1 .. Len(l) /\ (DOMAIN l = {} <=> l = <<>>)
  BY <1>1
<1>3. IsFiniteSet(1 .. Len(l)) /\ Cardinality(1 .. Len(l)) = Len(l)
  <2>1. \A n \in Int : IsFiniteSet(1 .. n)
                     /\ Cardinality(1 .. n) = IF 1 > n THEN 0 ELSE n - 1 + 1
    BY FS_Interval
  <2>2. Len(l) \in Nat /\ Len(l) \in Int
    BY <1>2
  <2> QED BY <2>1, <2>2
<1> QED BY <1>1, <1>2, <1>3 DEF HowMany

\* Of dated awards one is the latest.
LEMMA LatestIs ==
    ASSUME NEW awards, IsFiniteSet(DOMAIN awards), DOMAIN awards # {},
           \A i \in DOMAIN awards : awards[i].on \in Nat
    PROVE  LatestOf(awards) \in Nat
<1> DEFINE w == [i \in DOMAIN awards |-> awards[i].on]
<1>1. \A i \in DOMAIN awards : w[i] \in Nat /\ w[i] = awards[i].on
  OBVIOUS
<1> HIDE DEF w
<1>2. PICK top \in DOMAIN awards : \A i \in DOMAIN awards : w[i] <= w[top]
  BY <1>1, HeaviestMember
<1>3. \E d \in {awards[i].on : i \in DOMAIN awards} : \A i \in DOMAIN awards : awards[i].on <= d
  BY <1>1, <1>2
<1>4. LatestOf(awards) \in {awards[i].on : i \in DOMAIN awards}
  BY <1>3 DEF LatestOf
<1> QED BY <1>4

LEMMA CardShape ==
    ASSUME ProspectsTypeOK, NEW f \in Funders, NEW words
    PROVE  /\ IsCard(AssessProspect(f, words)) /\ AssessProspect(f, words).funder = f
           /\ AssessProspect(f, words).since = Nothing => published[f] = <<>>
<1> DEFINE awards == published[f]
           cause == {i \in DOMAIN awards : MatchesCause(awards[i], words)}
           area == {i \in DOMAIN awards : MatchesArea(awards[i])}
           tier == TierOf(awards, cause, area)
           matching == CASE tier = "area_and_cause" -> cause \cap area
                         [] tier = "cause" -> cause
                         [] tier = "area" -> area
                         [] OTHER -> {}
           last == LatestOf(awards)
           ago == IF last = Nothing THEN Nothing ELSE Months(last, today)
           works == {i \in matching : MatchesWork(awards[i], words)}
           card == AssessProspect(f, words)
<1>1. /\ card.funder = f /\ card.tier = tier /\ card.since = ago
      /\ card.dormant = Dormant(ago)
      /\ card.matching = Cardinality(matching) /\ card.work = Cardinality(works)
  BY DEF AssessProspect
<1>2. awards \in AwardLists /\ today \in 0 .. Forever /\ f \in Int
  BY ProspectsAssumption DEF ProspectsTypeOK
<1>3. IsFiniteSet(DOMAIN awards) /\ (DOMAIN awards = {} <=> awards = <<>>)
      /\ \A i \in DOMAIN awards : awards[i].on \in Nat
  BY <1>2, ListShape
<1>4. matching \subseteq DOMAIN awards /\ works \subseteq DOMAIN awards
  BY <1>1
<1>5. Place(tier) \in Int
  BY TierPlace
<1>6. Dormant(ago) \in BOOLEAN
  BY DEF Dormant
<1>7. awards # <<>> => last \in Nat
  BY <1>3, LatestIs
<1>8. last = Nothing <=> awards = <<>>
  <2>1. awards = <<>> => last = Nothing
    BY <1>3 DEF LatestOf
  <2>2. Nothing \notin Nat
    BY ProspectsAssumption
  <2> QED BY <1>7, <2>1, <2>2
<1> HIDE DEF matching, works, tier, last, awards
<1>9. Cardinality(matching) \in Nat /\ Cardinality(works) \in Nat
  BY <1>3, <1>4, FS_Subset, FS_CardinalityType
<1>10. awards # <<>> => ago = (today - last) \div 2 /\ ago \in Int /\ ago < Forever
  <2> SUFFICES ASSUME awards # <<>>
               PROVE  ago = (today - last) \div 2 /\ ago \in Int /\ ago < Forever
    OBVIOUS
  <2>1. ago = (today - last) \div 2
    BY <1>8 DEF Months
  <2>2. last \in Nat /\ today \in Int /\ today <= 100000
    BY <1>2, <1>7 DEF Forever
  <2>3. (today - last) \div 2 \in Int /\ (today - last) \div 2 < 100000
    BY <2>2
  <2> QED BY <2>1, <2>3 DEF Forever
<1>11. ago # Nothing <=> awards # <<>>
  BY <1>8, <1>10, ProspectsAssumption
<1>12. IsCard(card)
  BY <1>1, <1>2, <1>5, <1>6, <1>9, <1>10, <1>11 DEF IsCard
<1> QED BY <1>1, <1>11, <1>12 DEF awards

(* The order of the cards is one that a sort may be handed                 *)
(* (src/domain/prospect/match.ts).                                         *)
LEMMA OrderIsSound == ProspectsTypeOK => ReadingOrderIsSound
<1> SUFFICES ASSUME ProspectsTypeOK PROVE ReadingOrderIsSound
  OBVIOUS
<1> DEFINE cards == Cards
           Before(f, g) == ByRelevance(cards[f], cards[g]) < 0
<1>1. ASSUME NEW f \in Funders
      PROVE  /\ IsCard(cards[f]) /\ cards[f].funder = f
             /\ cards[f].since = Nothing => published[f] = <<>>
  <2>1. cards[f] = AssessProspect(f, Words)
    BY DEF Cards
  <2>2. \A words : /\ IsCard(AssessProspect(f, words)) /\ AssessProspect(f, words).funder = f
                   /\ AssessProspect(f, words).since = Nothing => published[f] = <<>>
    BY CardShape
  <2> QED BY <2>1, <2>2
<1> HIDE DEF cards
<1>2. ASSUME NEW f \in Funders, NEW g \in Funders
      PROVE  Before(f, g) <=> Ahead(cards[f], cards[g])
  BY <1>1, ByRelevanceIs
<1> HIDE DEF Before
<1>3. ASSUME NEW f \in Funders, NEW g \in Funders, f # g, published[f] # <<>>
      PROVE  Before(f, g) <=> ~Before(g, f)
  <2>1. Ahead(cards[f], cards[g]) <=> ~Ahead(cards[g], cards[f])
    BY <1>1, <1>3, AheadIsAnOrder
  <2> QED BY <1>2, <2>1
<1>4. ASSUME NEW f \in Funders, NEW g \in Funders, NEW h \in Funders, Before(f, g), Before(g, h)
      PROVE  Before(f, h)
  <2>1. Ahead(cards[f], cards[g]) /\ Ahead(cards[g], cards[h])
    BY <1>2, <1>4
  <2>2. Ahead(cards[f], cards[h])
    BY <1>1, <2>1, AheadIsTransitive
  <2> QED BY <1>2, <2>2
<1> QED BY <1>3, <1>4 DEF ReadingOrderIsSound, Before, cards

-----------------------------------------------------------------------------
(* What a grant more may change.                                           *)

LEMMA TierRises ==
    ASSUME NEW old, NEW new, Len(old) \in Nat, Len(new) \in Nat, Len(old) <= Len(new),
           NEW C, NEW A, NEW C1, NEW A1, C \subseteq C1, A \subseteq A1
    PROVE  Place(TierOf(new, C1, A1)) <= Place(TierOf(old, C, A))
<1>1. CASE Len(old) < MinAwards
  <2>1. TierOf(old, C, A) = "not_characterised"
    BY <1>1 DEF TierOf
  <2>2. Place(TierOf(new, C1, A1)) \in 1 .. 5
    BY TierPlace
  <2> QED BY <2>1, <2>2, PlaceIs
<1>2. CASE ~(Len(old) < MinAwards)
  <2>1. ~(Len(new) < MinAwards)
    BY <1>2 DEF MinAwards
  <2> QED BY <1>2, <2>1, PlaceIs DEF TierOf
<1> QED BY <1>1, <1>2

LEMMA EvidenceStep ==
    ProspectsTypeOK /\ ProspectsTypeOK' /\ [ProspectsNext]_prospectVars =>
        [\A f \in Funders :
            published'[f] # published[f] /\ Grows(published[f], published'[f]) =>
              \A words \in {Words} : Words' = words =>
                  Place(AssessProspect(f, words)'.tier) <= Place(AssessProspect(f, words).tier)
        ]_prospectVars
<1> SUFFICES ASSUME ProspectsTypeOK, ProspectsTypeOK', ProspectsNext,
                    NEW f \in Funders, published'[f] # published[f],
                    Grows(published[f], published'[f]), NEW words
             PROVE  Place(AssessProspect(f, words)'.tier) <= Place(AssessProspect(f, words).tier)
  OBVIOUS
<1>1. where' = where /\ project' = project
  <2>1. published' # published
    OBVIOUS
  <2> QED BY <2>1 DEF ProspectsNext, Publish, SayWhere, Describe, OpenLater
<1>2. published[f] \in AwardLists /\ published'[f] \in AwardLists
  BY DEF ProspectsTypeOK
<1>3. PICK old \in AwardLists : old = published[f]
  BY <1>2
<1>4. PICK new \in AwardLists : new = published'[f]
  BY <1>2
<1> DEFINE C(l) == {i \in DOMAIN l : MatchesCause(l[i], words)}
           A(l) == {i \in DOMAIN l : MatchesArea(l[i])}
<1>5. AssessProspect(f, words).tier = TierOf(old, C(old), A(old))
  BY <1>3 DEF AssessProspect
<1>6. AssessProspect(f, words)'.tier = TierOf(new, C(new), A(new))
  <2>1. \A a : MatchesCause(a, words)' <=> MatchesCause(a, words)
    BY <1>1 DEF MatchesCause, MatchesLabel, MatchesWork
  <2>2. \A a : MatchesArea(a)' <=> MatchesArea(a)
    BY <1>1 DEF MatchesArea, MatchesRegion, MatchesNation
  <2>3. AssessProspect(f, words)'.tier
          = TierOf(new, {i \in DOMAIN new : MatchesCause(new[i], words)'},
                        {i \in DOMAIN new : MatchesArea(new[i])'})
    BY <1>4 DEF AssessProspect, TierOf, MinAwards
  <2> QED BY <2>1, <2>2, <2>3
<1>7. /\ Len(old) \in Nat /\ Len(new) \in Nat /\ Len(old) <= Len(new)
      /\ \A i \in DOMAIN old : i \in DOMAIN new /\ new[i] = old[i]
  <2>1. /\ Len(old) \in Nat /\ Len(new) \in Nat
        /\ DOMAIN old = 1 .. Len(old) /\ DOMAIN new = 1 .. Len(new)
    BY ListShape
  <2>2. Len(old) <= Len(new) /\ SubSeq(new, 1, Len(old)) = old
    BY <1>3, <1>4 DEF Grows
  <2>3. \A i \in 1 .. Len(old) : SubSeq(new, 1, Len(old))[i] = new[i]
    BY <2>1, <2>2
  <2> QED BY <2>1, <2>2, <2>3
<1>8. C(old) \subseteq C(new) /\ A(old) \subseteq A(new)
  BY <1>7
<1> HIDE DEF C, A
<1>9. Place(TierOf(new, C(new), A(new))) <= Place(TierOf(old, C(old), A(old)))
  BY <1>7, <1>8, TierRises
<1> QED BY <1>5, <1>6, <1>9

-----------------------------------------------------------------------------
(* What the pages say of a size.                                           *)

\* The quartiles lie within what was given.
LEMMA SpreadIs ==
    ASSUME NEW amounts, Amounts(amounts), HowMany(amounts) > 0
    PROVE  /\ Spread(amounts).min \in Nat /\ Spread(amounts).max \in Nat
           /\ Spread(amounts).lower \in Nat /\ Spread(amounts).upper \in Nat
           /\ Spread(amounts).min <= Spread(amounts).lower
           /\ Spread(amounts).upper <= Spread(amounts).max
<1>1. HowMany(amounts) \in Nat /\ 1 \in 1 .. HowMany(amounts) /\ HowMany(amounts) \in 1 .. HowMany(amounts)
  BY HowManyIsNat
<1>2. Nth(amounts, 1) \in Nat /\ Nth(amounts, HowMany(amounts)) \in Nat
  BY <1>1, NthIs
<1>3. /\ Quartile(amounts, 1) \in Nat /\ 4 * Nth(amounts, 1) <= Quartile(amounts, 1)
      /\ Quartile(amounts, 3) \in Nat
      /\ Quartile(amounts, 3) <= 4 * Nth(amounts, HowMany(amounts))
  BY QuartileIsWithin
<1>4. /\ Spread(amounts).min = 4 * Nth(amounts, 1)
      /\ Spread(amounts).max = 4 * Nth(amounts, HowMany(amounts))
      /\ Spread(amounts).lower = Quartile(amounts, 1)
      /\ Spread(amounts).upper = Quartile(amounts, 3)
  BY DEF Spread
<1> QED BY <1>2, <1>3, <1>4

LEMMA PagesAgree ==
    ASSUME ProspectsTypeOK, NEW f \in Funders,
           CanCharacterise(published[f]), project.ask # Nothing
    PROVE  LET awards == published[f]
               spread == Spread(AmountsOf(awards))
               here == AmountFit(project.ask, spread)
               there == AskAgainst(project.ask, spread)
           IN  /\ here = "within_typical" <=> there = "within_typical"
               /\ here = "below_typical" <=> 4 * project.ask < spread.lower
               /\ there \in {"below_typical", "above_typical"} => here = there
               /\ AsksForASum =>
                     /\ AskWorth(awards) = 6 <=> here = "within_typical"
                     /\ AskWorth(awards) = 0 <=> there = "outside_range_entirely"
<1> DEFINE awards == published[f]
           spread == Spread(AmountsOf(awards))
<1>1. awards \in AwardLists /\ project.ask \in Nat
  BY ProspectsAssumption DEF ProspectsTypeOK
<1>2. Amounts(AmountsOf(awards)) /\ HowMany(AmountsOf(awards)) > 0
  <2>1. IsFiniteSet(DOMAIN awards) /\ \A i \in DOMAIN awards : awards[i].amount \in Nat
    BY <1>1, ListShape
  <2>2. DOMAIN AmountsOf(awards) = DOMAIN awards
        /\ \A i \in DOMAIN awards : AmountsOf(awards)[i] = awards[i].amount
    BY DEF AmountsOf
  <2>3. HowMany(AmountsOf(awards)) = HowMany(awards)
    BY <2>2 DEF HowMany
  <2>4. HowMany(awards) \in Nat /\ HowMany(awards) >= 5
    <3>1. HowMany(awards) \in Nat
      BY <2>1, FS_CardinalityType DEF HowMany
    <3> QED BY <3>1 DEF CanCharacterise, MinAwards
  <2> QED BY <2>1, <2>2, <2>3, <2>4 DEF Amounts
<1>3. /\ spread.min \in Nat /\ spread.max \in Nat /\ spread.lower \in Nat /\ spread.upper \in Nat
      /\ spread.min <= spread.lower /\ spread.upper <= spread.max
  BY <1>2, SpreadIs
<1>4. AsksForASum =>
        AskWorth(awards) = IF spread.lower <= 4 * project.ask /\ 4 * project.ask <= spread.upper THEN 6
                           ELSE IF spread.min <= 4 * project.ask /\ 4 * project.ask <= spread.max THEN 3
                           ELSE 0
  BY DEF AskWorth
<1>5. PICK s : s = spread
  OBVIOUS
<1>6. PICK a \in Nat : a = project.ask
  BY <1>1
<1> HIDE DEF spread
<1>7. /\ s.min \in Nat /\ s.max \in Nat /\ s.lower \in Nat /\ s.upper \in Nat
      /\ s.min <= s.lower /\ s.upper <= s.max /\ a # Nothing
  BY <1>3, <1>5, <1>6
<1>8. /\ AmountFit(a, s) = "within_typical" <=> AskAgainst(a, s) = "within_typical"
      /\ AmountFit(a, s) = "below_typical" <=> 4 * a < s.lower
      /\ AskAgainst(a, s) \in {"below_typical", "above_typical"} => AmountFit(a, s) = AskAgainst(a, s)
      /\ AmountFit(a, s) = "within_typical" <=> s.lower <= 4 * a /\ 4 * a <= s.upper
      /\ AskAgainst(a, s) = "outside_range_entirely"
           <=> ~(s.min <= 4 * a /\ 4 * a <= s.max)
      /\ s.lower <= 4 * a /\ 4 * a <= s.upper => s.min <= 4 * a /\ 4 * a <= s.max
  BY <1>7 DEF AmountFit, AskAgainst
<1> QED BY <1>4, <1>5, <1>6, <1>8 DEF spread

\* What a described funder is told in words fixes its score.
LEMMA WordsFixTheScore ==
    ASSUME NEW h1, NEW h2, Age(h1) \in Int, Age(h2) \in Int,
           CanCharacterise(AmountsOf(h1)), CanCharacterise(AmountsOf(h2)),
           WhyThisFunder(h1) = WhyThisFunder(h2)
    PROVE  FunderScore(h1) = FunderScore(h2)
<1> DEFINE recent(h) == IF Age(h) <= 48 THEN 6 ELSE IF Age(h) <= 72 THEN 2 ELSE 0
<1>1. HowMany(h1) = HowMany(h2) /\ InRegion(h1) = InRegion(h2)
  BY DEF WhyThisFunder
<1>2. ASSUME NEW h, Age(h) \in Int
      PROVE  recent(h) = IF WhyThisFunder(h).years \in {"this year", "2 years"} THEN 6
                         ELSE IF WhyThisFunder(h).years = "3 years" THEN 2 ELSE 0
  <2>1. WhyThisFunder(h).years = IF Age(h) < 24 THEN "this year"
                                 ELSE IF Age(h) <= 48 THEN "2 years"
                                 ELSE IF Age(h) <= 72 THEN "3 years" ELSE "stale"
    BY DEF WhyThisFunder
  <2>2. PICK n \in Int : n = Age(h)
    BY <1>2
  <2>0. PICK t : t = WhyThisFunder(h).years
    OBVIOUS
  <2>3. recent(h) = IF n <= 48 THEN 6 ELSE IF n <= 72 THEN 2 ELSE 0
    BY <2>2
  <2>4. t = IF n < 24 THEN "this year" ELSE IF n <= 48 THEN "2 years"
            ELSE IF n <= 72 THEN "3 years" ELSE "stale"
    BY <2>0, <2>1, <2>2
  <2> HIDE DEF recent
  <2>5. (IF n <= 48 THEN 6 ELSE IF n <= 72 THEN 2 ELSE 0)
          = IF t \in {"this year", "2 years"} THEN 6 ELSE IF t = "3 years" THEN 2 ELSE 0
    <3>1. CASE n < 24
      <4>1. n <= 48
        BY <3>1
      <4> QED BY <2>4, <3>1, <4>1
    <3>2. CASE ~(n < 24) /\ n <= 48
      BY <2>4, <3>2
    <3>3. CASE ~(n <= 48)
      <4>1. ~(n < 24)
        BY <3>3
      <4> QED BY <2>4, <3>3, <4>1
    <3> QED BY <3>1, <3>2, <3>3
  <2> QED BY <2>0, <2>3, <2>5
<1>3. ASSUME NEW h, CanCharacterise(AmountsOf(h)), NEW t, t = WhyThisFunder(h).ask
      PROVE  AskWorth(h) = IF t = "typical" THEN 6 ELSE IF t = "possible" THEN 3 ELSE 0
  BY <1>3 DEF WhyThisFunder, AskWorth
<1> HIDE DEF recent
<1>4. recent(h1) = recent(h2)
  BY <1>2
<1>5. AskWorth(h1) = AskWorth(h2)
  BY <1>3
<1> QED BY <1>1, <1>4, <1>5 DEF FunderScore, recent

LEMMA ListsExplain ==
    ASSUME ProspectsTypeOK, NEW asked PROVE ScoredAsTold(Described(asked), asked)
<1>1. ASSUME NEW f \in Described(asked)
      PROVE  CanCharacterise(AmountsOf(Hits(f, asked))) /\ Age(Hits(f, asked)) \in Int
  <2> DEFINE hits == Hits(f, asked)
  <2>0. f \in Funders /\ HowMany(hits) >= 5
    BY DEF Described, MinAwards
  <2>1. published[f] \in AwardLists /\ HowMany(hits) >= 5 /\ today \in Int
    <3>1. published[f] \in AwardLists /\ today \in Days
      BY <2>0 DEF ProspectsTypeOK
    <3>2. \A d \in 0 .. Forever : d \in Int
      OBVIOUS
    <3> QED BY <2>0, <3>1, <3>2, ProspectsAssumption
  <2>2. DOMAIN hits \subseteq DOMAIN published[f]
        /\ \A i \in DOMAIN hits : hits[i] = published[f][i]
    BY DEF Hits
  <2>3. IsFiniteSet(DOMAIN hits) /\ \A i \in DOMAIN hits : hits[i].on \in Nat
    BY <2>1, <2>2, ListShape, FS_Subset
  <2> HIDE DEF hits
  <2>4. DOMAIN hits # {}
    BY <2>1, FS_EmptySet DEF HowMany
  <2>5. Age(hits) \in Int
    BY <2>1, <2>3, <2>4, LatestIs DEF Age
  <2>6. CanCharacterise(AmountsOf(hits))
    BY <2>1 DEF CanCharacterise, AmountsOf, HowMany, MinAwards
  <2> QED BY <2>5, <2>6 DEF hits
<1>2. ASSUME NEW f \in Described(asked), NEW g \in Described(asked),
             WhyThisFunder(Hits(f, asked)) = WhyThisFunder(Hits(g, asked))
      PROVE  FunderScore(Hits(f, asked)) = FunderScore(Hits(g, asked))
  BY <1>1, <1>2, WordsFixTheScore
<1> QED BY <1>2 DEF ScoredAsTold

LEMMA SizesDoAgree == ProspectsTypeOK => SizesAgree
<1> SUFFICES ASSUME ProspectsTypeOK PROVE SizesAgree
  OBVIOUS
<1>1. ScoredAsTold(Described(DefaultSearch), DefaultSearch)
  BY ListsExplain
<1> QED BY <1>1, PagesAgree DEF SizesAgree

(* For every organisation, every set of funders and all their lists of     *)
(* awards, the order of the cards is an order, what the pages say of a     *)
(* size agrees, and an award more never costs (src/domain/prospect/match.ts,*)
(* src/domain/grants/funders.ts, src/domain/funder/behaviour.ts).          *)
THEOREM SpecCardsAreFair ==
    ProspectsSpec => [](ProspectsTypeOK /\ ReadingOrderIsSound /\ SizesAgree) /\ EvidenceNeverCosts
<1>1. ProspectsInit => ProspectsTypeOK
  BY DEF ProspectsInit, ProspectsTypeOK
<1>2. ProspectsTypeOK /\ [ProspectsNext]_prospectVars => ProspectsTypeOK'
  BY DEF ProspectsTypeOK, ProspectsNext, prospectVars, Publish, SayWhere, Describe, OpenLater
<1> QED
  BY <1>1, <1>2, OrderIsSound, SizesDoAgree, EvidenceStep, PTL DEF ProspectsSpec, EvidenceNeverCosts

-----------------------------------------------------------------------------
(***************************************************************************)
(* The whole: six machines side by side.  What fairness the whole states   *)
(* is not used, so a part is taken without its own.                        *)
(***************************************************************************)

(* A row, a load, a bucket, a deployment, the funders and the calls to the *)
(* world outside, side by side, each behave as they do alone.              *)
THEOREM RowsHaveParts ==
    RowsSpec => /\ Spec /\ ClockSpec /\ ProspectsSpec
                /\ Limit!Init /\ [][Limit!Next]_limitVars
                /\ ServingInit /\ [][ServingNext]_servingVars
                /\ Net!FetchingInit /\ [][Net!FetchingNext]_netVars
<1>1. RowsInit => /\ Init /\ ClockInit /\ ProspectsInit /\ Limit!Init /\ ServingInit
                  /\ Net!FetchingInit
  BY DEF RowsInit
<1> USE DEF RowsNext, ShelfStep, ClockStep, LimitStep, ServeStep, ProspectStep, CallStep, allVars
<1>2. [RowsNext]_allVars => [Next]_vars
  OBVIOUS
<1>3. [RowsNext]_allVars => [ClockNext]_clockVars
  OBVIOUS
<1>4. [RowsNext]_allVars => [Limit!Next]_limitVars
  OBVIOUS
<1>5. [RowsNext]_allVars => [ServingNext]_servingVars
  OBVIOUS
<1>6. [RowsNext]_allVars => [ProspectsNext]_prospectVars
  OBVIOUS
<1>7. [RowsNext]_allVars => [Net!FetchingNext]_netVars
  OBVIOUS
<1> QED
  BY <1>1, <1>2, <1>3, <1>4, <1>5, <1>6, <1>7, PTL DEF RowsSpec, Spec, ClockSpec, ProspectsSpec

(* Nobody is told to wait before MaxAttempts failures were counted in the   *)
(* window they wait for, for every policy and however many attempts overlap *)
(* (bump in src/app/(auth)/limit.ts, src/domain/auth/throttle.ts).          *)
THEOREM RowsBlocksAreJust == RowsSpec => []BlocksAreJust
  BY RowsHaveParts, LimitStarts, LimitInvStep, CountedIsJust, PTL

(* Calls to the world outside go out one at a time and spaced where they    *)
(* must, connect only where they may and pass nothing on that was not sent  *)
(* whole, however many there are, whatever is answered and in what order    *)
(* (src/ingestion/threesixtygiving/http.ts, src/ingestion/web/fetch.ts,     *)
(* src/ingestion/companieshouse/client.ts, src/ai/run.ts).                  *)
THEOREM RowsCallsAreCareful == RowsSpec => CallsAreCareful
<1>1. NetInv => Net!NothingHalfRead /\ Net!GoesWhereItMay /\ Net!OneAtATime
  BY NetInvIsCareful
<1> QED
  BY <1>1, RowsHaveParts, NetStarts, NetInvStep, StartsAreSpaced, PTL
  DEF CallsAreCareful, Net!Spaced, Net!fetchVars, netVars

(* Whatever is looked at, the cards of the funders page are fair           *)
(* (src/domain/prospect/match.ts, src/domain/grants/funders.ts).           *)
THEOREM RowsCardsAreFair == RowsSpec => CardsAreFair
  BY RowsHaveParts, SpecCardsAreFair, PTL DEF CardsAreFair

(* The six machines keep their types side by side, for every value of the   *)
(* constants.                                                               *)
THEOREM RowsTypesOK == RowsSpec => []TypesOK
<1>3. ProspectsSpec => []ProspectsTypeOK
  BY SpecCardsAreFair, PTL
<1>4. ClockSpec => []ClockTypeOK
  <2>1. ClockInv => ClockTypeOK
    BY DEF ClockInv
  <2> QED
    BY <2>1, ClockStarts, ClockInvStep, PTL DEF ClockSpec
<1>5. ServingInit /\ [][ServingNext]_servingVars => []ServingTypeOK
  <2>1. ServingInv => ServingTypeOK
    BY DEF ServingInv, BuildsInv
  <2> QED
    BY <2>1, ServingStarts, ServingInvStep, PTL
<1>6. Limit!Init /\ [][Limit!Next]_limitVars => []Limit!TypeOK
  <2>1. LimitInv => Limit!TypeOK
    BY DEF LimitInv
  <2> QED
    BY <2>1, LimitStarts, LimitInvStep, PTL
<1>7. Net!FetchingInit /\ [][Net!FetchingNext]_netVars => []Net!FetchingTypeOK
  <2>1. NetInv => Net!FetchingTypeOK
    BY NetInvIsCareful
  <2> QED
    BY <2>1, NetStarts, NetInvStep, PTL
<1>8. TypeOK /\ ClockTypeOK /\ Limit!TypeOK /\ ServingTypeOK /\ ProspectsTypeOK
        /\ Net!FetchingTypeOK => TypesOK
  BY DEF TypesOK
<1> QED
  BY <1>3, <1>4, <1>5, <1>6, <1>7, <1>8, RowsHaveParts, SpecTypeOK, PTL

(* What is promised of each machine holds of the whole. *)
THEOREM RowsKeepTheirPromises ==
    RowsSpec => /\ [](FillingIsHonest /\ ServingIsSafe /\ BlocksAreJust)
                /\ CallsAreCareful /\ CardsAreFair
<1>1. ServingInv => ServingIsSafe
  BY DEF ServingInv, BuildsInv, PoolInv, ServingIsSafe
<1> QED
  BY <1>1, RowsHaveParts, RowsBlocksAreJust, RowsCallsAreCareful, RowsCardsAreFair,
     SpecFillingIsHonest, ServingStarts, ServingInvStep, PTL
=============================================================================
