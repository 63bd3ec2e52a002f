--------------------------- MODULE WorkbenchProofs ---------------------------
(***************************************************************************)
(* What holds of the workbench for every number of requests, funds,        *)
(* organisations, questions and awards.                                    *)
(***************************************************************************)
EXTENDS Workbench, TotalFacts

-----------------------------------------------------------------------------
(* Starting an application, drafting it and having it reviewed (Drafting).  *)

(* Two presses of Start in progress at one moment are known to the history. *)
StartsAreCounted ==
    \A r, o \in Requests :
        r # o /\ request[r].at = "starting" /\ request[o].at = "starting" => split

(* A press of Start that found nothing, although there is something now,    *)
(* overlapped the one that put it there.                                    *)
FoundNothing ==
    \A r \in Requests :
        request[r].at = "starting" /\ request[r].found = {} /\ apps # {} => split

OneOrSplit == split \/ \A a, b \in apps : a = b

(* What a review in progress has read is still written, unless an answer    *)
(* was saved since it read.                                                 *)
ReadIsWritten ==
    \A r \in Requests :
        request[r].at = "reading" /\ request[r].saved = {}
            => request[r].answers \subseteq WrittenTexts

DraftInv ==
    DraftTypeOK /\ StartsAreCounted /\ FoundNothing /\ OneOrSplit /\ ReadIsWritten /\ QuotesAreLive

\* The state a request is put in is one of its states, and the others keep theirs.
LEMMA PutType ==
    ASSUME request \in [Requests -> RequestStates], NEW r \in Requests,
           NEW s \in RequestStates, Put(r, s)
    PROVE  /\ request' \in [Requests -> RequestStates]
           /\ request'[r] = s
           /\ \A o \in Requests \ {r} : request'[o] = request[o]
  BY DEF Put

\* What each stage of a request carries.
LEMMA StageCarries ==
    ASSUME NEW s \in RequestStates
    PROVE  /\ s.at = "starting" => s.found \in SUBSET Apps
           /\ s.at = "pasting" => s.next \in 1 .. MaxQuestions + 1
           /\ s.at = "reading" => s.answers \in SUBSET Texts /\ s.saved \in SUBSET Ids
           /\ s.at = "reading" => s = [at |-> "reading", answers |-> s.answers, saved |-> s.saved]
           /\ s = Idle => s.at = "idle"
  BY DEF RequestStates, Idle

\* A request at rest.
LEMMA IdleIsAState == Idle \in RequestStates /\ Idle.at = "idle"
  BY DEF RequestStates, Idle

\* Nobody has begun anything.
LEMMA InitDraft == ASSUME DraftInit PROVE DraftInv
<1>1. \A r \in Requests : request[r] = Idle
  BY DEF DraftInit
<1>2. request \in [Requests -> RequestStates]
  BY IdleIsAState DEF DraftInit
<1>3. MaxQuestions \in Nat /\ MaxStarts \in Nat /\ MaxWrites \in Nat
  BY DraftAssumption
<1>4. answers \in [Ids -> Contents \cup {NoText}]
  BY DEF DraftInit
<1>5. DraftTypeOK
  <2>1. split \in BOOLEAN
    BY DEF DraftInit
  <2>2. apps \subseteq Apps /\ slipped \subseteq Ids /\ review \in Reviews \cup {NoReview}
    BY DEF DraftInit
  <2>3. started \in 0 .. MaxStarts /\ questions \in 0 .. MaxQuestions /\ written \in 0 .. MaxWrites
    BY <1>3 DEF DraftInit
  <2> QED BY <1>2, <1>4, <2>1, <2>2, <2>3 DEF DraftTypeOK
<1> QED
  BY <1>1, <1>5, IdleIsAState
  DEF DraftInit, DraftInv, StartsAreCounted, FoundNothing, OneOrSplit, ReadIsWritten,
      QuotesAreLive, ReadsAsCurrent

(* One lemma for each action of Drafting: it keeps the invariant.            *)
LEMMA StartKeeps ==
    ASSUME DraftInv, NEW r \in Requests, Start(r) PROVE DraftInv'
<1> DEFINE s == [at |-> "starting", found |-> apps]
<1>1. s \in RequestStates /\ s.at = "starting" /\ s.found = apps
  BY DEF RequestStates, DraftInv, DraftTypeOK
<1>2. Put(r, s) /\ split' = (split \/ Others(r, "starting"))
  BY DEF Start, FindApplication
<1>3. UNCHANGED <<apps, started, questions, answers, written, review, slipped>>
  BY DEF Start
<1> HIDE DEF s
<1>4. /\ request' \in [Requests -> RequestStates] /\ request'[r] = s
      /\ \A o \in Requests \ {r} : request'[o] = request[o]
  BY <1>1, <1>2, PutType DEF DraftInv, DraftTypeOK
<1>5. DraftTypeOK'
  BY <1>2, <1>3, <1>4 DEF DraftInv, DraftTypeOK, Others
<1>6. StartsAreCounted'
  BY <1>1, <1>2, <1>4 DEF DraftInv, StartsAreCounted, Others
<1>7. FoundNothing'
  BY <1>1, <1>2, <1>3, <1>4 DEF DraftInv, FoundNothing
<1>8. OneOrSplit'
  BY <1>2, <1>3 DEF DraftInv, OneOrSplit
<1>9. ReadIsWritten'
  BY <1>1, <1>3, <1>4 DEF DraftInv, ReadIsWritten, WrittenTexts
<1>10. QuotesAreLive'
  BY <1>3 DEF DraftInv, QuotesAreLive, ReadsAsCurrent, Live, WrittenTexts
<1> QED BY <1>5, <1>6, <1>7, <1>8, <1>9, <1>10 DEF DraftInv

LEMMA StartApplicationKeeps ==
    ASSUME DraftInv, NEW r \in Requests, NEW a \in Apps, StartApplication(r, a) PROVE DraftInv'
<1>1. Put(r, Idle) /\ request[r].at = "starting" /\ started' = started + 1 /\ started < MaxStarts
  BY DEF StartApplication
<1>2. UNCHANGED <<questions, answers, written, review, split, slipped>>
  BY DEF StartApplication
<1>3. \/ request[r].found = {} /\ apps' = apps \cup {a}
      \/ apps' = apps
  BY DEF StartApplication
<1>4. /\ request' \in [Requests -> RequestStates] /\ request'[r] = Idle /\ Idle.at = "idle"
      /\ \A o \in Requests \ {r} : request'[o] = request[o]
  BY <1>1, IdleIsAState, PutType DEF DraftInv, DraftTypeOK
<1>5. DraftTypeOK'
  BY <1>1, <1>2, <1>3, <1>4, DraftAssumption DEF DraftInv, DraftTypeOK
<1>6. StartsAreCounted'
  BY <1>2, <1>4 DEF DraftInv, StartsAreCounted
<1>7. FoundNothing'
  BY <1>1, <1>2, <1>3, <1>4 DEF DraftInv, FoundNothing, StartsAreCounted
<1>8. OneOrSplit'
  BY <1>1, <1>2, <1>3 DEF DraftInv, OneOrSplit, FoundNothing
<1>9. ReadIsWritten'
  BY <1>2, <1>4 DEF DraftInv, ReadIsWritten, WrittenTexts
<1>10. QuotesAreLive'
  BY <1>2 DEF DraftInv, QuotesAreLive, ReadsAsCurrent, Live, WrittenTexts
<1> QED BY <1>5, <1>6, <1>7, <1>8, <1>9, <1>10 DEF DraftInv

\* A request that changes nothing but its own state keeps the invariant, when
\* it neither starts an application nor reads one.
LEMMA AloneKeeps ==
    ASSUME DraftInv, NEW r \in Requests, NEW s \in RequestStates, Put(r, s),
           s.at # "starting",
           s.at = "reading" /\ s.saved = {} => s.answers \subseteq WrittenTexts,
           UNCHANGED <<apps, started, questions, answers, written, review, split, slipped>>
    PROVE  DraftInv'
<1>4. /\ request' \in [Requests -> RequestStates] /\ request'[r] = s
      /\ \A o \in Requests \ {r} : request'[o] = request[o]
  BY PutType DEF DraftInv, DraftTypeOK
<1>5. DraftTypeOK'
  BY <1>4 DEF DraftInv, DraftTypeOK
<1>6. StartsAreCounted'
  BY <1>4 DEF DraftInv, StartsAreCounted
<1>7. FoundNothing'
  BY <1>4 DEF DraftInv, FoundNothing
<1>8. OneOrSplit'
  BY DEF DraftInv, OneOrSplit
<1>9. ReadIsWritten'
  BY <1>4 DEF DraftInv, ReadIsWritten, WrittenTexts
<1>10. QuotesAreLive'
  BY DEF DraftInv, QuotesAreLive, ReadsAsCurrent, Live, WrittenTexts
<1> QED BY <1>5, <1>6, <1>7, <1>8, <1>9, <1>10 DEF DraftInv

LEMMA ReadPositionsKeeps ==
    ASSUME DraftInv, NEW r \in Requests, ReadPositions(r) PROVE DraftInv'
<1> DEFINE s == [at |-> "pasting", next |-> NextPosition]
<1>1. s \in RequestStates /\ s.at = "pasting"
  BY DraftAssumption DEF RequestStates, DraftInv, DraftTypeOK, NextPosition
<1>2. Put(r, s)
  BY DEF ReadPositions
<1> HIDE DEF s
<1> QED BY <1>1, <1>2, AloneKeeps DEF ReadPositions

LEMMA ReadForReviewKeeps ==
    ASSUME DraftInv, NEW r \in Requests, ReadForReview(r) PROVE DraftInv'
<1> DEFINE s == [at |-> "reading", answers |-> WrittenTexts, saved |-> {}]
<1>1. s \in RequestStates /\ s.at = "reading" /\ s.answers = WrittenTexts
  BY DEF RequestStates, WrittenTexts
<1>2. Put(r, s)
  BY DEF ReadForReview
<1> HIDE DEF s
<1> QED BY <1>1, <1>2, AloneKeeps DEF ReadForReview

LEMMA StopKeeps ==
    ASSUME DraftInv, NEW r \in Requests, Stop(r) PROVE DraftInv'
  BY IdleIsAState, AloneKeeps DEF Stop

LEMMA AddQuestionsKeeps ==
    ASSUME DraftInv, NEW r \in Requests, NEW n \in 1 .. 2, AddQuestions(r, n) PROVE DraftInv'
<1>1. Put(r, Idle) /\ questions' = questions + n /\ questions + n <= MaxQuestions
  BY DEF AddQuestions
<1>2. UNCHANGED <<apps, started, answers, written, review, split, slipped>>
  BY DEF AddQuestions
<1>4. /\ request' \in [Requests -> RequestStates] /\ request'[r] = Idle /\ Idle.at = "idle"
      /\ \A o \in Requests \ {r} : request'[o] = request[o]
  BY <1>1, IdleIsAState, PutType DEF DraftInv, DraftTypeOK
<1>3. WrittenTexts \subseteq WrittenTexts'
  BY <1>1, <1>2 DEF WrittenTexts, DraftInv, DraftTypeOK
<1>5. DraftTypeOK'
  BY <1>1, <1>2, <1>4, DraftAssumption DEF DraftInv, DraftTypeOK
<1>6. StartsAreCounted'
  BY <1>2, <1>4 DEF DraftInv, StartsAreCounted
<1>7. FoundNothing'
  BY <1>2, <1>4 DEF DraftInv, FoundNothing
<1>8. OneOrSplit'
  BY <1>2 DEF DraftInv, OneOrSplit
<1>9. ReadIsWritten'
  BY <1>2, <1>3, <1>4 DEF DraftInv, ReadIsWritten
<1>10. QuotesAreLive'
  BY <1>2, <1>3 DEF DraftInv, QuotesAreLive, ReadsAsCurrent, Live
<1> QED BY <1>5, <1>6, <1>7, <1>8, <1>9, <1>10 DEF DraftInv

LEMMA SaveReviewKeeps ==
    ASSUME DraftInv, NEW r \in Requests, NEW quotes \in SUBSET Texts, SaveReview(r, quotes)
    PROVE DraftInv'
<1> DEFINE v == [quotes |-> quotes \cap request[r].answers, edited |-> {}]
<1>0. v \in Reviews /\ v.quotes = quotes \cap request[r].answers /\ v.edited = {}
  BY DEF Reviews
<1>1. Put(r, Idle) /\ request[r].at = "reading" /\ review' = v /\ slipped' = request[r].saved
  BY DEF SaveReview, Checkable
<1>2. UNCHANGED <<apps, started, questions, answers, written, split>>
  BY DEF SaveReview
<1> HIDE DEF v
<1>4. /\ request' \in [Requests -> RequestStates] /\ request'[r] = Idle /\ Idle.at = "idle"
      /\ \A o \in Requests \ {r} : request'[o] = request[o]
  BY <1>1, IdleIsAState, PutType DEF DraftInv, DraftTypeOK
<1>3. request[r] \in RequestStates /\ request[r].saved \in SUBSET Ids
  BY <1>1, StageCarries DEF DraftInv, DraftTypeOK
<1>5. DraftTypeOK'
  BY <1>0, <1>1, <1>2, <1>3, <1>4 DEF DraftInv, DraftTypeOK
<1>6. StartsAreCounted'
  BY <1>2, <1>4 DEF DraftInv, StartsAreCounted
<1>7. FoundNothing'
  BY <1>2, <1>4 DEF DraftInv, FoundNothing
<1>8. OneOrSplit'
  BY <1>2 DEF DraftInv, OneOrSplit
<1>9. ReadIsWritten'
  BY <1>2, <1>4 DEF DraftInv, ReadIsWritten, WrittenTexts
<1>10. QuotesAreLive'
  BY <1>0, <1>1, <1>2 DEF DraftInv, ReadIsWritten, QuotesAreLive, ReadsAsCurrent, Live, WrittenTexts
<1> QED BY <1>5, <1>6, <1>7, <1>8, <1>9, <1>10 DEF DraftInv

LEMMA SaveAnswerKeeps ==
    ASSUME DraftInv, NEW q \in Ids, NEW text \in Contents, SaveAnswer(q, text) PROVE DraftInv'
<1>1. /\ q \in 1 .. questions /\ written < MaxWrites /\ answers' = [answers EXCEPT ![q] = text]
      /\ written' = written + 1 /\ review' = Touched(q)
      /\ UNCHANGED <<apps, started, questions, split, slipped>>
  BY DEF SaveAnswer, Saved
<1>2. ASSUME NEW r \in Requests
      PROVE  /\ request'[r] \in RequestStates /\ request'[r].at = request[r].at
             /\ request[r].at = "reading" => request'[r].saved # {}
             /\ request[r].at # "reading" => request'[r] = request[r]
  <2>1. request[r] \in RequestStates
    BY DEF DraftInv, DraftTypeOK
  <2>2. request'[r] = IF request[r].at = "reading"
                      THEN [request[r] EXCEPT !.saved = @ \cup {q}] ELSE request[r]
    BY DEF SaveAnswer
  <2>3. CASE request[r].at = "reading"
    <3> DEFINE t == [at |-> "reading", answers |-> request[r].answers,
                     saved |-> request[r].saved \cup {q}]
    <3>1. request[r] = [at |-> "reading", answers |-> request[r].answers, saved |-> request[r].saved]
      BY <2>1, <2>3, StageCarries
    <3>2. request'[r] = t
      BY <2>2, <2>3, <3>1
    <3>3. t \in RequestStates /\ t.at = "reading" /\ t.saved # {}
      BY <2>1, <2>3, StageCarries DEF RequestStates
    <3> QED BY <2>3, <3>2, <3>3
  <2> QED BY <2>1, <2>2, <2>3
<1>3. request' \in [Requests -> RequestStates]
  BY <1>2 DEF SaveAnswer
<1>4. /\ review = NoReview => review' = NoReview
      /\ review # NoReview => review' \in Reviews /\ review'.edited # {}
  <2>1. CASE review = NoReview
    BY <1>1, <2>1 DEF Touched
  <2>2. CASE review # NoReview
    <3>1. review \in Reviews
      BY <2>2 DEF DraftInv, DraftTypeOK
    <3>2. review' = [review EXCEPT !.edited = @ \cup {q}]
      BY <1>1, <2>2 DEF Touched
    <3> QED BY <2>2, <3>1, <3>2 DEF Reviews
  <2> QED BY <2>1, <2>2
<1>5. DraftTypeOK'
  BY <1>1, <1>3, <1>4, DraftAssumption DEF DraftInv, DraftTypeOK
<1>6. StartsAreCounted'
  BY <1>1, <1>2 DEF DraftInv, StartsAreCounted
<1>7. FoundNothing'
  BY <1>1, <1>2 DEF DraftInv, FoundNothing
<1>8. OneOrSplit'
  BY <1>1 DEF DraftInv, OneOrSplit
<1>9. ReadIsWritten'
  BY <1>2 DEF DraftInv, ReadIsWritten
<1>10. QuotesAreLive'
  BY <1>4, DraftAssumption DEF DraftInv, QuotesAreLive, ReadsAsCurrent
<1> QED BY <1>5, <1>6, <1>7, <1>8, <1>9, <1>10 DEF DraftInv

\* And so does every step.
LEMMA NextDraft == ASSUME DraftInv, [DraftNext]_draftVars PROVE DraftInv'
<1>1. CASE UNCHANGED draftVars
  BY <1>1 DEF draftVars, DraftInv, DraftTypeOK, StartsAreCounted, FoundNothing, OneOrSplit,
              ReadIsWritten, QuotesAreLive, ReadsAsCurrent, Live, WrittenTexts
<1>2. CASE DraftNext
  BY <1>2, StartKeeps, StartApplicationKeeps, ReadPositionsKeeps, ReadForReviewKeeps, StopKeeps,
     AddQuestionsKeeps, SaveReviewKeeps, SaveAnswerKeeps DEF DraftNext
<1> QED BY <1>1, <1>2

(* Applications that are all equal are one, or the race that made two of    *)
(* them is on record.                                                       *)
LEMMA DraftInvGives == ASSUME DraftInv PROVE OneWorkUnderReview
<1>1. OnlyRacesSplit
  <2> SUFFICES ASSUME ~split PROVE ~(Cardinality(apps) > 1)
    BY DEF OnlyRacesSplit
  <2>1. CASE apps = {}
    BY <2>1, FS_EmptySet
  <2>2. CASE apps # {}
    <3> PICK a \in apps : TRUE
      BY <2>2
    <3>1. apps = {a}
      BY DEF DraftInv, OneOrSplit
    <3> QED BY <3>1, FS_Singleton
  <2> QED BY <2>1, <2>2
<1> QED BY <1>1 DEF DraftInv, OneWorkUnderReview

(* One fund gets two applications only by two presses of Start that overlap, *)
(* and a review that reads as current quotes what is written unless an       *)
(* answer was saved while the Critic read: for any number of requests,       *)
(* questions and texts.                                                      *)
THEOREM SpecOneWorkUnderReview == DraftSpec => []OneWorkUnderReview
<1>1. DraftSpec => []DraftInv
  BY InitDraft, NextDraft, PTL DEF DraftSpec
<1> QED BY <1>1, DraftInvGives, PTL

-----------------------------------------------------------------------------
(* The list of funds and what hangs on it (Catalogue).                      *)

(* What a request carries from one transaction to the next: the funder it   *)
(* found is shared or its own organisation's, or is gone.                   *)
Harmless(f, who) == funders[f] = NoRow \/ funders[f].owner \in {Platform, who}
DeskIsSound(d) ==
    /\ d.at \in {"naming", "renaming", "sharing"} => d.name \in Names
    /\ d.at \in {"storing", "updating"} => d.funder \in FunderIds /\ Harmless(d.funder, d.who)
    /\ d.at \in {"renaming", "updating", "removing"} => d.fund \in FundIds
DesksAreSound == \A r \in Desks : DeskIsSound(desk[r])

FundsHang ==
    \A o \in FundIds : funds[o] # NoRow =>
        LET f == funders[funds[o].funder] IN
        Exists(funds[o].owner) /\ f # NoRow /\ f.owner \in {Platform, funds[o].owner}
FundersHang == \A f \in FunderIds : funders[f] # NoRow => Exists(funders[f].owner)
WorkHangs ==
    \A a \in applied : a[1] \in orgs /\ funds[a[2]] # NoRow

CatalogueInv == CatalogueTypeOK /\ DesksAreSound /\ FundsHang /\ FundersHang /\ WorkHangs

\* The three ways in which rows hang on rows are the whole of NothingCrosses.
LEMMA CatalogueInvGives == ASSUME CatalogueInv PROVE NothingCrosses
  BY DEF CatalogueInv, FundsHang, FundersHang, WorkHangs, NothingCrosses

\* A row is known by its fields.
LEMMA FunderRow ==
    ASSUME NEW row, row \in FunderRows
    PROVE  row # NoRow /\ row.name \in Names /\ row.owner \in Owners
  BY CatalogueAssumption DEF FunderRows
\* A funder's row made of a name and an owner.
LEMMA MadeFunder ==
    ASSUME NEW n \in Names, NEW w \in Owners
    PROVE  /\ [name |-> n, owner |-> w] \in FunderRows
           /\ [name |-> n, owner |-> w].owner = w
  BY DEF FunderRows
\* A fund's row is known by its fields, too.
LEMMA FundRow ==
    ASSUME NEW row, row \in FundRows
    PROVE  row # NoRow /\ row.funder \in FunderIds /\ row.owner \in Owners
  BY CatalogueAssumption DEF FundRows
\* A fund's row made of a funder and an owner.
LEMMA MadeFund ==
    ASSUME NEW f \in FunderIds, NEW w \in Owners
    PROVE  /\ [funder |-> f, owner |-> w] \in FundRows
           /\ [funder |-> f, owner |-> w].owner = w
           /\ [funder |-> f, owner |-> w].funder = f
  BY DEF FundRows

\* What a request may be at.
Stages == {"idle", "naming", "storing", "renaming", "updating", "removing", "sharing"}

\* A request is made of the five things it holds.
LEMMA DeskHolds ==
    ASSUME NEW d \in DeskRows
    PROVE  /\ d = Held(d.at, d.who, d.fund, d.funder, d.name)
           /\ d.at \in Stages /\ d.who \in Owners /\ d.fund \in FundIds \cup {NoRow}
           /\ d.funder \in FunderIds \cup {NoRow} /\ d.name \in Names \cup {NoRow}
  BY DEF Held, DeskRows, Stages
\* A request at rest.
LEMMA RestIs == AtRest \in DeskRows /\ AtRest.at = "idle"
  BY DEF AtRest, Held, DeskRows, Owners

\* What is found of a funder, and a name to make one of, make a sound request.
LEMMA FoundIsSound ==
    ASSUME NEW at \in {"storing", "updating"}, NEW who \in Owners, NEW o \in FundIds \cup {NoRow},
           NEW f \in FunderIds, Harmless(f, who), at = "updating" => o \in FundIds
    PROVE  Held(at, who, o, f, NoRow) \in DeskRows /\ DeskIsSound(Held(at, who, o, f, NoRow))
<1> DEFINE d == Held(at, who, o, f, NoRow)
<1>1. d \in DeskRows /\ d.at = at /\ d.who = who /\ d.fund = o /\ d.funder = f
  BY DEF Held, DeskRows
<1> HIDE DEF d
<1>2. DeskIsSound(d)
  BY <1>1 DEF DeskIsSound
<1> QED BY <1>1, <1>2 DEF d
\* And so does a name to make a funder of.
LEMMA NamedIsSound ==
    ASSUME NEW at \in {"naming", "renaming", "sharing"}, NEW who \in Owners,
           NEW o \in FundIds \cup {NoRow}, NEW name \in Names, at = "renaming" => o \in FundIds
    PROVE  Held(at, who, o, NoRow, name) \in DeskRows /\ DeskIsSound(Held(at, who, o, NoRow, name))
<1> DEFINE d == Held(at, who, o, NoRow, name)
<1>1. d \in DeskRows /\ d.at = at /\ d.fund = o /\ d.name = name
  BY DEF Held, DeskRows
<1> HIDE DEF d
<1>2. DeskIsSound(d)
  BY <1>1 DEF DeskIsSound
<1> QED BY <1>1, <1>2 DEF d

\* One request moves: what it now holds is sound, and what the others hold was.
LEMMA DeskMoves ==
    ASSUME CatalogueInv, UNCHANGED funders, NEW r \in Desks, NEW d \in DeskRows,
           desk' = [desk EXCEPT ![r] = d], DeskIsSound(d)
    PROVE  desk' \in [Desks -> DeskRows] /\ DesksAreSound'
<1>1. desk' \in [Desks -> DeskRows] /\ \A s \in Desks : desk'[s] = IF s = r THEN d ELSE desk[s]
  BY DEF CatalogueInv, CatalogueTypeOK
<1>2. \A s \in Desks : DeskIsSound(desk'[s])
  BY <1>1 DEF CatalogueInv, DesksAreSound
<1> QED
  BY <1>1, <1>2 DEF DesksAreSound, DeskIsSound, Harmless

\* A request that ends leaves the rest sound.
LEMMA RestKeeps ==
    ASSUME CatalogueInv, NEW r \in Desks, desk' = [desk EXCEPT ![r] = AtRest], UNCHANGED funders
    PROVE  desk' \in [Desks -> DeskRows] /\ DesksAreSound'
<1>1. DeskIsSound(AtRest)
  BY RestIs DEF DeskIsSound
<1> QED BY <1>1, RestIs, DeskMoves

\* Only a desk moves.
LEMMA OnlyDeskKeeps ==
    ASSUME CatalogueInv, desk' \in [Desks -> DeskRows], DesksAreSound',
           UNCHANGED <<orgs, funders, funds, applied>>
    PROVE  CatalogueInv'
  BY DEF CatalogueInv, CatalogueTypeOK, FundsHang, FundersHang, WorkHangs, Exists

\* A funder that is found is shared or the finder's own.
LEMMA FindsSound ==
    ASSUME NEW picked \in FunderIds \cup {NoRow}, NEW name, NEW who \in Owners,
           NEW f \in FunderIds \cup {NoRow}, Finds(picked, name, who, f), f # NoRow
    PROVE  f \in FunderIds /\ Harmless(f, who)
  BY DEF Finds, Namesakes, InReach, Harmless

\* Nothing is stored yet, and nobody asks for anything.
LEMMA InitCatalogue == ASSUME CatalogueInit PROVE CatalogueInv
<1>1. \A r \in Desks : desk[r] = AtRest
  BY DEF CatalogueInit
<1>2. desk \in [Desks -> DeskRows] /\ DesksAreSound
  BY <1>1, RestIs DEF CatalogueInit, DesksAreSound, DeskIsSound
<1> QED
  BY <1>2 DEF CatalogueInit, CatalogueInv, CatalogueTypeOK, FundsHang, FundersHang, WorkHangs

(* One lemma for each action of Catalogue: it keeps the invariant.           *)
LEMMA AddOwnFundKeeps ==
    ASSUME CatalogueInv, NEW r \in Desks, NEW who \in Orgs, NEW name \in Names,
           NEW picked \in FunderIds \cup {NoRow}, AddOwnFund(r, who, name, picked)
    PROVE  CatalogueInv'
<1>1. PICK f \in FunderIds \cup {NoRow} :
        /\ Finds(picked, name, who, f)
        /\ desk' = [desk EXCEPT ![r] = IF f = NoRow THEN Held("naming", who, NoRow, NoRow, name)
                                       ELSE Held("storing", who, NoRow, f, NoRow)]
  BY DEF AddOwnFund
<1>2. who \in Owners /\ UNCHANGED <<orgs, funders, funds, applied>>
  BY DEF Owners, AddOwnFund
<1>3. CASE f = NoRow
  <2>1. /\ Held("naming", who, NoRow, NoRow, name) \in DeskRows
        /\ DeskIsSound(Held("naming", who, NoRow, NoRow, name))
    BY <1>2, NamedIsSound
  <2> QED BY <1>1, <1>2, <1>3, <2>1, DeskMoves, OnlyDeskKeeps
<1>4. CASE f # NoRow
  <2>1. f \in FunderIds /\ Harmless(f, who)
    BY <1>1, <1>2, <1>4, FindsSound
  <2>2. /\ Held("storing", who, NoRow, f, NoRow) \in DeskRows
        /\ DeskIsSound(Held("storing", who, NoRow, f, NoRow))
    BY <1>2, <2>1, FoundIsSound
  <2> QED BY <1>1, <1>2, <1>4, <2>2, DeskMoves, OnlyDeskKeeps
<1> QED BY <1>3, <1>4

LEMMA LoadOwnFundKeeps ==
    ASSUME CatalogueInv, NEW r \in Desks, NEW who \in Orgs, NEW o \in FundIds, NEW name \in Names,
           LoadOwnFund(r, who, o, name)
    PROVE  CatalogueInv'
<1> DEFINE f == funds[o].funder
<1>1. /\ funds[o] # NoRow /\ funds[o].owner = who
      /\ desk' = [desk EXCEPT ![r] = IF funders[f].name = name THEN Held("updating", who, o, f, NoRow)
                                     ELSE Held("renaming", who, o, NoRow, name)]
  BY DEF LoadOwnFund
<1>2. who \in Owners /\ UNCHANGED <<orgs, funders, funds, applied>>
  BY DEF Owners, LoadOwnFund
<1>3. f \in FunderIds /\ Harmless(f, who)
  BY <1>1, FundRow DEF CatalogueInv, CatalogueTypeOK, FundsHang, Harmless
<1> HIDE DEF f
<1>4. /\ Held("updating", who, o, f, NoRow) \in DeskRows
      /\ DeskIsSound(Held("updating", who, o, f, NoRow))
  BY <1>2, <1>3, FoundIsSound
<1>5. /\ Held("renaming", who, o, NoRow, name) \in DeskRows
      /\ DeskIsSound(Held("renaming", who, o, NoRow, name))
  BY <1>2, NamedIsSound
<1> QED BY <1>1, <1>2, <1>4, <1>5, DeskMoves, OnlyDeskKeeps

LEMMA FindRenamedKeeps ==
    ASSUME CatalogueInv, NEW r \in Desks, FindRenamed(r) PROVE CatalogueInv'
<1> DEFINE who == desk[r].who
           o == desk[r].fund
           name == desk[r].name
<1>1. PICK f \in FunderIds \cup {NoRow} :
        /\ Finds(NoRow, name, who, f)
        /\ desk' = [desk EXCEPT ![r] = IF f = NoRow THEN Held("naming", who, o, NoRow, name)
                                       ELSE Held("updating", who, o, f, NoRow)]
  BY DEF FindRenamed, CatalogueInv, CatalogueTypeOK
<1>2. who \in Owners /\ o \in FundIds /\ name \in Names
  BY DeskHolds DEF FindRenamed, Doing, CatalogueInv, CatalogueTypeOK, DesksAreSound, DeskIsSound
<1>3. UNCHANGED <<orgs, funders, funds, applied>>
  BY DEF FindRenamed
<1> HIDE DEF who, o, name
<1>4. CASE f = NoRow
  <2>1. /\ Held("naming", who, o, NoRow, name) \in DeskRows
        /\ DeskIsSound(Held("naming", who, o, NoRow, name))
    BY <1>2, NamedIsSound
  <2> QED BY <1>1, <1>3, <1>4, <2>1, DeskMoves, OnlyDeskKeeps
<1>5. CASE f # NoRow
  <2>1. f \in FunderIds /\ Harmless(f, who)
    BY <1>1, <1>2, <1>5, FindsSound
  <2>2. /\ Held("updating", who, o, f, NoRow) \in DeskRows
        /\ DeskIsSound(Held("updating", who, o, f, NoRow))
    BY <1>2, <2>1, FoundIsSound
  <2> QED BY <1>1, <1>3, <1>5, <2>2, DeskMoves, OnlyDeskKeeps
<1> QED BY <1>4, <1>5

LEMMA DeleteOpportunityKeeps ==
    ASSUME CatalogueInv, NEW r \in Desks, NEW who \in Orgs, NEW o \in FundIds, NEW t \in BOOLEAN,
           DeleteOpportunity(r, who, o, t)
    PROVE  CatalogueInv'
<1> DEFINE d == Held("removing", who, o, NoRow, NoRow)
<1>1. d \in DeskRows /\ d.at = "removing" /\ d.fund = o
  BY DEF Held, DeskRows, Owners
<1>2. desk' = [desk EXCEPT ![r] = d] /\ UNCHANGED <<orgs, funders, funds, applied>>
  BY DEF DeleteOpportunity
<1> HIDE DEF d
<1>3. DeskIsSound(d)
  BY <1>1 DEF DeskIsSound
<1> QED BY <1>1, <1>2, <1>3, DeskMoves, OnlyDeskKeeps

LEMMA AddSharedFundKeeps ==
    ASSUME CatalogueInv, NEW r \in Desks, NEW name \in Names, AddSharedFund(r, name)
    PROVE  CatalogueInv'
<1>1. PICK f \in FunderIds \cup {NoRow} :
        /\ Finds(NoRow, name, Platform, f)
        /\ desk' = [desk EXCEPT ![r] = IF f = NoRow THEN Held("sharing", Platform, NoRow, NoRow, name)
                                       ELSE Held("storing", Platform, NoRow, f, NoRow)]
  BY DEF AddSharedFund
<1>2. Platform \in Owners /\ UNCHANGED <<orgs, funders, funds, applied>>
  BY DEF Owners, AddSharedFund
<1>3. CASE f = NoRow
  <2>1. /\ Held("sharing", Platform, NoRow, NoRow, name) \in DeskRows
        /\ DeskIsSound(Held("sharing", Platform, NoRow, NoRow, name))
    BY <1>2, NamedIsSound
  <2> QED BY <1>1, <1>2, <1>3, <2>1, DeskMoves, OnlyDeskKeeps
<1>4. CASE f # NoRow
  <2>1. f \in FunderIds /\ Harmless(f, Platform)
    BY <1>1, <1>2, <1>4, FindsSound
  <2>2. /\ Held("storing", Platform, NoRow, f, NoRow) \in DeskRows
        /\ DeskIsSound(Held("storing", Platform, NoRow, f, NoRow))
    BY <1>2, <2>1, FoundIsSound
  <2> QED BY <1>1, <1>2, <1>4, <2>2, DeskMoves, OnlyDeskKeeps
<1> QED BY <1>3, <1>4

\* A request that dies.
LEMMA DiesKeeps ==
    ASSUME CatalogueInv, NEW r \in Desks, Dies(r) PROVE CatalogueInv'
  BY RestKeeps, OnlyDeskKeeps DEF Dies

-----------------------------------------------------------------------------
\* MakeFunder: nobody holds the id that is drawn.
LEMMA MakeFunderKeeps ==
    ASSUME CatalogueInv, NEW r \in Desks, MakeFunder(r) PROVE CatalogueInv'
<1> DEFINE who == desk[r].who
           o == desk[r].fund
           name == desk[r].name
           at == IF o = NoRow THEN "storing" ELSE "updating"
<1>1. who \in Owners /\ o \in FundIds \cup {NoRow} /\ name \in Names
  BY DeskHolds DEF MakeFunder, Doing, CatalogueInv, CatalogueTypeOK, DesksAreSound, DeskIsSound
<1>2. UNCHANGED <<orgs, funds, applied>>
  BY DEF MakeFunder
<1>3. CASE who \notin orgs
  BY <1>2, <1>3, RestKeeps, OnlyDeskKeeps DEF MakeFunder
<1>4. CASE who \in orgs
  <2> DEFINE row == [name |-> name, owner |-> who]
  <2>1. PICK f \in Typed :
          /\ funders[f] = NoRow /\ \A s \in Desks : desk[s].funder # f
          /\ funders' = [funders EXCEPT ![f] = row]
          /\ desk' = [desk EXCEPT ![r] = Held(at, who, o, f, NoRow)]
    BY <1>4 DEF MakeFunder, NewFunder, CatalogueInv, CatalogueTypeOK
  <2>2. row \in FunderRows /\ row.owner = who
    BY <1>1, MadeFunder
  <2>3. f \in FunderIds
    BY DEF FunderIds
  <2> HIDE DEF row, who, o, name
  <2>4. /\ funders' \in [FunderIds -> FunderRows \cup {NoRow}] /\ funders'[f] = row /\ row # NoRow
        /\ \A g \in FunderIds \ {f} : funders'[g] = funders[g]
    BY <2>1, <2>2, <2>3, FunderRow DEF CatalogueInv, CatalogueTypeOK
  <2> DEFINE d == Held(at, who, o, f, NoRow)
  <2>5. d \in DeskRows /\ d.at = at /\ d.who = who /\ d.fund = o /\ d.funder = f
    BY <1>1, <2>3 DEF Held, DeskRows
  <2>6. at \in {"storing", "updating"} /\ (at = "updating" => o \in FundIds)
    BY <1>1
  <2> HIDE DEF d, at
  <2>7. \A s \in Desks : desk[s] \in DeskRows /\ desk[s].funder # f
    BY <2>1 DEF CatalogueInv, CatalogueTypeOK
  <2>8. desk' \in [Desks -> DeskRows] /\ \A s \in Desks : desk'[s] = IF s = r THEN d ELSE desk[s]
    BY <2>1, <2>5 DEF CatalogueInv, CatalogueTypeOK, d
  <2>9. DesksAreSound'
    <3> SUFFICES ASSUME NEW s \in Desks PROVE DeskIsSound(desk[s])'
      BY DEF DesksAreSound
    <3>1. CASE s = r
      <4>1. desk'[s] = d
        BY <2>8, <3>1
      <4> QED BY <2>2, <2>3, <2>4, <2>5, <2>6, <4>1 DEF DeskIsSound, Harmless
    <3>2. CASE s # r
      <4>1. desk'[s] = desk[s] /\ DeskIsSound(desk[s]) /\ desk[s].funder # f
        BY <2>7, <2>8, <3>2 DEF CatalogueInv, DesksAreSound
      <4> QED BY <2>4, <4>1 DEF DeskIsSound, Harmless
    <3> QED BY <3>1, <3>2
  <2>10. FundsHang'
    BY <1>2, <2>1, <2>4, FundRow DEF CatalogueInv, CatalogueTypeOK, FundsHang, Exists
  <2>11. FundersHang'
    BY <1>2, <1>4, <2>2, <2>4 DEF CatalogueInv, FundersHang, Exists
  <2>12. WorkHangs'
    BY <1>2 DEF CatalogueInv, WorkHangs
  <2>13. CatalogueTypeOK'
    BY <1>2, <2>4, <2>8 DEF CatalogueInv, CatalogueTypeOK
  <2> QED BY <2>9, <2>10, <2>11, <2>12, <2>13 DEF CatalogueInv
<1> QED BY <1>3, <1>4

LEMMA StoreFundKeeps ==
    ASSUME CatalogueInv, NEW r \in Desks, StoreFund(r) PROVE CatalogueInv'
<1> DEFINE who == desk[r].who
           f == desk[r].funder
<1>1. who \in Owners /\ f \in FunderIds /\ Harmless(f, who)
  BY DeskHolds DEF StoreFund, Doing, CatalogueInv, CatalogueTypeOK, DesksAreSound, DeskIsSound
<1>2. UNCHANGED <<orgs, funders, applied>> /\ desk' \in [Desks -> DeskRows] /\ DesksAreSound'
  BY RestKeeps DEF StoreFund
<1>3. CASE UNCHANGED funds
  BY <1>2, <1>3, OnlyDeskKeeps
<1>4. CASE ~UNCHANGED funds
  <2> DEFINE row == [funder |-> f, owner |-> who]
  <2>1. PICK o \in FundIds : funds[o] = NoRow /\ funds' = [funds EXCEPT ![o] = row]
    BY <1>4 DEF StoreFund, NewFund
  <2>2. Exists(who) /\ funders[f] # NoRow
    BY <1>4 DEF StoreFund
  <2>3. row \in FundRows /\ row.owner = who /\ row.funder = f
    BY <1>1, MadeFund
  <2> HIDE DEF row, who, f
  <2>4. /\ funds' \in [FundIds -> FundRows \cup {NoRow}] /\ funds'[o] = row
        /\ \A p \in FundIds \ {o} : funds'[p] = funds[p]
    BY <2>1, <2>3 DEF CatalogueInv, CatalogueTypeOK
  <2>5. CatalogueTypeOK'
    BY <1>2, <2>4 DEF CatalogueInv, CatalogueTypeOK
  <2>6. FundsHang'
    BY <1>1, <1>2, <2>2, <2>3, <2>4 DEF CatalogueInv, FundsHang, Exists, Harmless
  <2>7. FundersHang'
    BY <1>2 DEF CatalogueInv, FundersHang, Exists
  <2>8. WorkHangs'
    BY <1>2, <2>1, <2>4 DEF CatalogueInv, CatalogueTypeOK, WorkHangs
  <2> QED BY <1>2, <2>5, <2>6, <2>7, <2>8 DEF CatalogueInv
<1> QED BY <1>3, <1>4

LEMMA UpdateOwnFundKeeps ==
    ASSUME CatalogueInv, NEW r \in Desks, UpdateOwnFund(r) PROVE CatalogueInv'
<1> DEFINE who == desk[r].who
           f == desk[r].funder
           o == desk[r].fund
<1>1. who \in Owners /\ f \in FunderIds /\ Harmless(f, who) /\ o \in FundIds
  BY DeskHolds DEF UpdateOwnFund, Doing, CatalogueInv, CatalogueTypeOK, DesksAreSound, DeskIsSound
<1>2. UNCHANGED <<orgs, funders, applied>> /\ desk' \in [Desks -> DeskRows] /\ DesksAreSound'
  BY RestKeeps DEF UpdateOwnFund
<1>3. CASE UNCHANGED funds
  BY <1>2, <1>3, OnlyDeskKeeps
<1>4. CASE ~UNCHANGED funds
  <2> DEFINE row == [funder |-> f, owner |-> who]
  <2>1. /\ funds[o] # NoRow /\ funds[o].owner = who /\ funders[f] # NoRow
        /\ funds' = [funds EXCEPT ![o].funder = f]
    BY <1>4 DEF UpdateOwnFund
  <2>2. funds[o] \in FundRows
    BY <1>1, <2>1 DEF CatalogueInv, CatalogueTypeOK
  <2>3. row \in FundRows /\ row.owner = who /\ row.funder = f
    BY <1>1, MadeFund
  <2>4. [funds[o] EXCEPT !.funder = f] = row
    BY <2>1, <2>2 DEF FundRows
  <2>5. funds' = [funds EXCEPT ![o] = row]
    BY <2>1, <2>4
  <2> HIDE DEF row, who, f, o
  <2>6. /\ funds' \in [FundIds -> FundRows \cup {NoRow}] /\ funds'[o] = row /\ row # NoRow
        /\ \A p \in FundIds \ {o} : funds'[p] = funds[p]
    BY <1>1, <2>3, <2>5, FundRow DEF CatalogueInv, CatalogueTypeOK
  <2>7. CatalogueTypeOK'
    BY <1>2, <2>6 DEF CatalogueInv, CatalogueTypeOK
  <2>8. FundsHang'
    BY <1>1, <1>2, <2>1, <2>3, <2>6 DEF CatalogueInv, FundsHang, Exists, Harmless
  <2>9. FundersHang'
    BY <1>2 DEF CatalogueInv, FundersHang, Exists
  <2>10. WorkHangs'
    <3> SUFFICES ASSUME NEW a \in applied
                 PROVE  a[1] \in orgs /\ funds'[a[2]] # NoRow
      BY <1>2 DEF WorkHangs
    <3>1. a[2] \in FundIds /\ a[1] \in orgs /\ funds[a[2]] # NoRow
      BY DEF CatalogueInv, CatalogueTypeOK, WorkHangs
    <3> QED BY <2>1, <2>3, <2>6, <3>1
  <2> QED BY <1>2, <2>7, <2>8, <2>9, <2>10 DEF CatalogueInv
<1> QED BY <1>3, <1>4

\* A shared funder and its fund, in one.
LEMMA StoreBothKeeps ==
    ASSUME CatalogueInv, NEW r \in Desks, StoreBoth(r) PROVE CatalogueInv'
<1> DEFINE name == desk[r].name
           made == [name |-> name, owner |-> Platform]
<1>1. name \in Names /\ Platform \in Owners
  BY DEF StoreBoth, Doing, CatalogueInv, DesksAreSound, DeskIsSound, Owners
<1>2. UNCHANGED <<orgs, applied>> /\ desk' = [desk EXCEPT ![r] = AtRest]
  BY DEF StoreBoth
<1>3. PICK f \in Typed, o \in FundIds :
        /\ funders[f] = NoRow /\ \A s \in Desks : desk[s].funder # f
        /\ funds[o] = NoRow
        /\ funders' = [funders EXCEPT ![f] = made]
        /\ funds' = [funds EXCEPT ![o] = [funder |-> f, owner |-> Platform]]
  BY DEF StoreBoth, NewFunder, NewFund
<1>4. f \in FunderIds /\ made \in FunderRows /\ made.owner = Platform /\ made # NoRow
  BY <1>1, MadeFunder, FunderRow DEF FunderIds
<1> DEFINE row == [funder |-> f, owner |-> Platform]
<1>5. row \in FundRows /\ row.owner = Platform /\ row.funder = f
  BY <1>1, <1>4, MadeFund
<1> HIDE DEF name, made, row
<1>6. /\ funders' \in [FunderIds -> FunderRows \cup {NoRow}] /\ funders'[f] = made
      /\ \A g \in FunderIds \ {f} : funders'[g] = funders[g]
  BY <1>3, <1>4 DEF CatalogueInv, CatalogueTypeOK
<1>7. /\ funds' \in [FundIds -> FundRows \cup {NoRow}] /\ funds'[o] = row
      /\ \A p \in FundIds \ {o} : funds'[p] = funds[p]
  BY <1>3, <1>5 DEF CatalogueInv, CatalogueTypeOK, row
<1>8. /\ desk' \in [Desks -> DeskRows]
      /\ \A s \in Desks : desk'[s] = IF s = r THEN AtRest ELSE desk[s]
  BY <1>2, RestIs DEF CatalogueInv, CatalogueTypeOK
<1>9. DesksAreSound'
  <2> SUFFICES ASSUME NEW s \in Desks PROVE DeskIsSound(desk[s])'
    BY DEF DesksAreSound
  <2>1. CASE s = r
    BY <1>8, <2>1, RestIs DEF DeskIsSound
  <2>2. CASE s # r
    <3>1. desk'[s] = desk[s] /\ DeskIsSound(desk[s]) /\ desk[s].funder # f
      BY <1>3, <1>8, <2>2 DEF CatalogueInv, DesksAreSound
    <3> QED BY <1>6, <3>1 DEF DeskIsSound, Harmless
  <2> QED BY <2>1, <2>2
<1>10. FundsHang'
  <2> SUFFICES ASSUME NEW p \in FundIds, funds'[p] # NoRow
               PROVE  /\ Exists(funds[p].owner)' /\ funders'[funds'[p].funder] # NoRow
                      /\ funders'[funds'[p].funder].owner \in {Platform, funds'[p].owner}
    BY DEF FundsHang
  <2>1. CASE p = o
    BY <1>4, <1>5, <1>6, <1>7, <2>1 DEF Exists
  <2>2. CASE p # o
    <3>1. funds'[p] = funds[p] /\ funds[p] \in FundRows
      BY <1>7, <2>2 DEF CatalogueInv, CatalogueTypeOK
    <3>2. funds[p].funder \in FunderIds \ {f}
      BY <1>3, <2>2, <3>1, FundRow DEF CatalogueInv, FundsHang
    <3> QED BY <1>2, <1>6, <3>1, <3>2 DEF CatalogueInv, FundsHang, Exists
  <2> QED BY <2>1, <2>2
<1>11. FundersHang'
  BY <1>2, <1>4, <1>6 DEF CatalogueInv, FundersHang, Exists
<1>12. WorkHangs'
  BY <1>2, <1>3, <1>7 DEF CatalogueInv, CatalogueTypeOK, WorkHangs
<1>13. CatalogueTypeOK'
  BY <1>2, <1>6, <1>7, <1>8 DEF CatalogueInv, CatalogueTypeOK
<1> QED BY <1>9, <1>10, <1>11, <1>12, <1>13 DEF CatalogueInv

-----------------------------------------------------------------------------
\* What goes takes no application with it, and what stays is as it was.
LEMMA GoneIsUnused ==
    ASSUME CatalogueInv, NEW taken \in SUBSET FundIds, MayGo(taken),
           funds' = FundsLess(taken), applied' = applied \ AppsOn(taken), UNCHANGED orgs
    PROVE  /\ applied' = applied
           /\ funds' \in [FundIds -> FundRows \cup {NoRow}]
           /\ \A o \in FundIds : funds'[o] = IF o \in taken THEN NoRow ELSE funds[o]
           /\ WorkHangs'
<1>1. applied' = applied /\ \A a \in applied : a[2] \notin taken
  BY DEF MayGo, AppsOn
<1>2. /\ \A o \in FundIds : funds'[o] = IF o \in taken THEN NoRow ELSE funds[o]
      /\ funds' \in [FundIds -> FundRows \cup {NoRow}]
  BY DEF FundsLess, CatalogueInv, CatalogueTypeOK
<1>3. WorkHangs'
  BY <1>1, <1>2 DEF CatalogueInv, CatalogueTypeOK, WorkHangs
<1> QED BY <1>1, <1>2, <1>3

\* Funds that go alone.
LEMMA FundsGoKeeps ==
    ASSUME CatalogueInv, NEW taken \in SUBSET FundIds, MayGo(taken),
           funds' = FundsLess(taken), applied' = applied \ AppsOn(taken), UNCHANGED <<orgs, funders>>,
           desk' \in [Desks -> DeskRows], DesksAreSound'
    PROVE  CatalogueInv'
<1>1. /\ applied' = applied /\ funds' \in [FundIds -> FundRows \cup {NoRow}] /\ WorkHangs'
      /\ \A o \in FundIds : funds'[o] = IF o \in taken THEN NoRow ELSE funds[o]
  BY GoneIsUnused
<1>2. FundsHang' /\ FundersHang' /\ CatalogueTypeOK'
  BY <1>1 DEF CatalogueInv, CatalogueTypeOK, FundsHang, FundersHang, Exists
<1> QED BY <1>1, <1>2 DEF CatalogueInv

\* Requests are as sound as they were while the funders stay.
LEMMA SameDesks ==
    ASSUME CatalogueInv, UNCHANGED <<funders, desk>>
    PROVE  desk' \in [Desks -> DeskRows] /\ DesksAreSound'
  BY DEF CatalogueInv, CatalogueTypeOK, DesksAreSound, DeskIsSound, Harmless

LEMMA DeletePastedOpportunityKeeps ==
    ASSUME CatalogueInv, NEW r \in Desks, DeletePastedOpportunity(r) PROVE CatalogueInv'
<1> DEFINE o == desk[r].fund
<1>1. o \in FundIds
  BY DEF DeletePastedOpportunity, Doing, CatalogueInv, DesksAreSound, DeskIsSound
<1>2. desk' \in [Desks -> DeskRows] /\ DesksAreSound' /\ UNCHANGED <<orgs, funders>>
  BY RestKeeps DEF DeletePastedOpportunity
<1>3. \/ MayGo({o}) /\ funds' = FundsLess({o}) /\ applied' = applied \ AppsOn({o})
      \/ UNCHANGED <<funds, applied>>
  BY DEF DeletePastedOpportunity
<1> HIDE DEF o
<1> QED BY <1>1, <1>2, <1>3, FundsGoKeeps, OnlyDeskKeeps

LEMMA DeleteSharedFundKeeps ==
    ASSUME CatalogueInv, NEW o \in FundIds, DeleteSharedFund(o) PROVE CatalogueInv'
  BY FundsGoKeeps, SameDesks DEF DeleteSharedFund

LEMMA ApplyForKeeps ==
    ASSUME CatalogueInv, NEW who \in Orgs, NEW o \in FundIds, ApplyFor(who, o) PROVE CatalogueInv'
<1>1. /\ who \in orgs /\ funds[o] # NoRow
      /\ applied' = applied \cup {<<who, o>>} /\ UNCHANGED <<orgs, funders, funds, desk>>
  BY DEF ApplyFor
<1>2. desk' \in [Desks -> DeskRows] /\ DesksAreSound'
  BY <1>1, SameDesks
<1>3. CatalogueTypeOK' /\ FundsHang' /\ FundersHang' /\ WorkHangs'
  BY <1>1, <1>2 DEF CatalogueInv, CatalogueTypeOK, FundsHang, FundersHang, WorkHangs, Exists
<1> QED BY <1>2, <1>3 DEF CatalogueInv

\* A funder that is gone is harmless to whoever holds its id.
LEMMA FundersChange ==
    ASSUME CatalogueInv, UNCHANGED desk,
           \A f \in FunderIds : \/ funders'[f] = NoRow \/ funders'[f] = funders[f]
                                \/ funders'[f].owner = Platform
    PROVE  desk' \in [Desks -> DeskRows] /\ DesksAreSound'
  BY DEF CatalogueInv, CatalogueTypeOK, DesksAreSound, DeskIsSound, Harmless

LEMMA DeleteFunderKeeps ==
    ASSUME CatalogueInv, NEW f \in FunderIds, DeleteFunder(f) PROVE CatalogueInv'
<1> DEFINE taken == FundsOf(f)
<1>1. taken \in SUBSET FundIds /\ \A o \in FundIds : o \in taken <=> funds[o] # NoRow /\ funds[o].funder = f
  BY DEF FundsOf
<1>2. /\ MayGo(taken) /\ funders' = [funders EXCEPT ![f] = NoRow] /\ funds' = FundsLess(taken)
      /\ applied' = applied \ AppsOn(taken) /\ UNCHANGED <<orgs, desk>>
  BY DEF DeleteFunder
<1> HIDE DEF taken
<1>3. /\ applied' = applied /\ funds' \in [FundIds -> FundRows \cup {NoRow}] /\ WorkHangs'
      /\ \A o \in FundIds : funds'[o] = IF o \in taken THEN NoRow ELSE funds[o]
  BY <1>1, <1>2, GoneIsUnused
<1>4. /\ funders' \in [FunderIds -> FunderRows \cup {NoRow}]
      /\ \A g \in FunderIds : funders'[g] = IF g = f THEN NoRow ELSE funders[g]
  BY <1>2 DEF CatalogueInv, CatalogueTypeOK
<1>5. desk' \in [Desks -> DeskRows] /\ DesksAreSound'
  BY <1>2, <1>4, FundersChange
<1>6. FundsHang'
  <2> SUFFICES ASSUME NEW o \in FundIds, funds'[o] # NoRow
               PROVE  /\ Exists(funds[o].owner)' /\ funders'[funds'[o].funder] # NoRow
                      /\ funders'[funds'[o].funder].owner \in {Platform, funds'[o].owner}
    BY DEF FundsHang
  <2>1. funds'[o] = funds[o] /\ funds[o] \in FundRows /\ funds[o].funder # f
    BY <1>1, <1>3 DEF CatalogueInv, CatalogueTypeOK
  <2>2. funds[o].funder \in FunderIds /\ funders'[funds[o].funder] = funders[funds[o].funder]
    BY <1>4, <2>1, FundRow
  <2> QED BY <1>2, <2>1, <2>2 DEF CatalogueInv, FundsHang, Exists
<1>7. FundersHang'
  BY <1>2, <1>4 DEF CatalogueInv, FundersHang, Exists
<1>8. CatalogueTypeOK'
  BY <1>2, <1>3, <1>4, <1>5 DEF CatalogueInv, CatalogueTypeOK
<1> QED BY <1>3, <1>5, <1>6, <1>7, <1>8 DEF CatalogueInv

LEMMA UpsertFunderKeeps ==
    ASSUME CatalogueInv, NEW f \in FunderIds, NEW name \in Names, UpsertFunder(f, name)
    PROVE  CatalogueInv'
<1> DEFINE row == [name |-> name, owner |-> Platform]
<1>1. row \in FunderRows /\ row.owner = Platform /\ row # NoRow
  BY MadeFunder, FunderRow DEF Owners
<1>2. funders' = [funders EXCEPT ![f] = row] /\ UNCHANGED <<orgs, funds, applied, desk>>
  BY DEF UpsertFunder
<1> HIDE DEF row
<1>3. /\ funders' \in [FunderIds -> FunderRows \cup {NoRow}]
      /\ \A g \in FunderIds : funders'[g] = IF g = f THEN row ELSE funders[g]
  BY <1>1, <1>2 DEF CatalogueInv, CatalogueTypeOK
<1>4. desk' \in [Desks -> DeskRows] /\ DesksAreSound'
  BY <1>1, <1>2, <1>3, FundersChange
<1>5. FundsHang'
  <2> SUFFICES ASSUME NEW o \in FundIds, funds[o] # NoRow
               PROVE  /\ Exists(funds[o].owner)' /\ funders'[funds[o].funder] # NoRow
                      /\ funders'[funds[o].funder].owner \in {Platform, funds[o].owner}
    BY <1>2 DEF FundsHang
  <2>1. funds[o].funder \in FunderIds
    BY FundRow DEF CatalogueInv, CatalogueTypeOK
  <2> QED BY <1>1, <1>2, <1>3, <2>1 DEF CatalogueInv, FundsHang, Exists
<1>6. FundersHang' /\ WorkHangs' /\ CatalogueTypeOK'
  BY <1>1, <1>2, <1>3, <1>4 DEF CatalogueInv, CatalogueTypeOK, FundersHang, WorkHangs, Exists
<1> QED BY <1>4, <1>5, <1>6 DEF CatalogueInv

\* What stays, when an organisation is erased, hangs on what stays.
LEMMA EraseKeeps ==
    ASSUME CatalogueInv, NEW who \in Orgs, Erase(who) PROVE CatalogueInv'
<1> DEFINE made == {f \in FunderIds : funders[f] # NoRow /\ funders[f].owner = who}
           gone == {o \in FundIds : funds[o] # NoRow /\ (funds[o].owner = who \/ funds[o].funder \in made)}
           left == {a \in applied : a[1] # who}
<1>1. /\ ~\E a \in left : a[2] \in gone
      /\ orgs' = orgs \ {who}
      /\ funders' = [f \in FunderIds |-> IF f \in made THEN NoRow ELSE funders[f]]
      /\ funds' = FundsLess(gone) /\ applied' = left /\ UNCHANGED desk
  BY DEF Erase
<1>2. /\ \A f \in FunderIds : f \in made <=> funders[f] # NoRow /\ funders[f].owner = who
      /\ \A o \in FundIds : o \in gone <=> /\ funds[o] # NoRow
                                           /\ (funds[o].owner = who \/ funds[o].funder \in made)
      /\ \A a : a \in left <=> a \in applied /\ a[1] # who
  OBVIOUS
<1>3. who # Platform
  BY CatalogueAssumption
<1> HIDE DEF made, gone, left
<1>4. /\ funders' \in [FunderIds -> FunderRows \cup {NoRow}]
      /\ \A f \in FunderIds : funders'[f] = IF f \in made THEN NoRow ELSE funders[f]
  BY <1>1 DEF CatalogueInv, CatalogueTypeOK
<1>5. /\ funds' \in [FundIds -> FundRows \cup {NoRow}]
      /\ \A o \in FundIds : funds'[o] = IF o \in gone THEN NoRow ELSE funds[o]
  BY <1>1 DEF CatalogueInv, CatalogueTypeOK, FundsLess
<1>6. desk' \in [Desks -> DeskRows] /\ DesksAreSound'
  BY <1>1, <1>4, FundersChange
<1>7. FundsHang'
  <2> SUFFICES ASSUME NEW o \in FundIds, funds'[o] # NoRow
               PROVE  /\ Exists(funds[o].owner)' /\ funders'[funds'[o].funder] # NoRow
                      /\ funders'[funds'[o].funder].owner \in {Platform, funds'[o].owner}
    BY DEF FundsHang
  <2>1. /\ funds'[o] = funds[o] /\ funds[o] \in FundRows
        /\ funds[o].owner # who /\ funds[o].funder \notin made
    BY <1>2, <1>5 DEF CatalogueInv, CatalogueTypeOK
  <2>2. funds[o].funder \in FunderIds /\ funders'[funds[o].funder] = funders[funds[o].funder]
    BY <1>4, <2>1, FundRow
  <2> QED BY <1>1, <2>1, <2>2, FundRow DEF CatalogueInv, FundsHang, Exists
<1>8. FundersHang'
  BY <1>1, <1>2, <1>4 DEF CatalogueInv, FundersHang, Exists
<1>9. WorkHangs'
  <2> SUFFICES ASSUME NEW a \in left
               PROVE  a[1] \in orgs' /\ funds'[a[2]] # NoRow
    BY <1>1 DEF WorkHangs
  <2>1. a[2] \in FundIds /\ a[1] \in orgs /\ a[1] # who /\ funds[a[2]] # NoRow
    BY <1>2 DEF CatalogueInv, CatalogueTypeOK, WorkHangs
  <2> QED BY <1>1, <1>5, <2>1
<1>10. CatalogueTypeOK'
  BY <1>1, <1>2, <1>4, <1>5, <1>6 DEF CatalogueInv, CatalogueTypeOK
<1> QED BY <1>6, <1>7, <1>8, <1>9, <1>10 DEF CatalogueInv

\* Every step keeps the invariant...
LEMMA NextCatalogue == ASSUME CatalogueInv, [CatalogueNext]_catalogueVars PROVE CatalogueInv'
<1>1. CASE UNCHANGED catalogueVars
  BY <1>1, SameDesks, OnlyDeskKeeps DEF catalogueVars
<1>2. CASE CatalogueNext
  BY <1>2, AddOwnFundKeeps, LoadOwnFundKeeps, DeleteOpportunityKeeps, AddSharedFundKeeps,
     MakeFunderKeeps, StoreFundKeeps, FindRenamedKeeps, UpdateOwnFundKeeps,
     DeletePastedOpportunityKeeps, StoreBothKeeps, DiesKeeps, ApplyForKeeps, DeleteSharedFundKeeps,
     DeleteFunderKeeps, UpsertFunderKeeps, EraseKeeps DEF CatalogueNext
<1> QED BY <1>1, <1>2

\* ...so that it always holds.
LEMMA SpecCatalogueInv == CatalogueSpec => []CatalogueInv
  BY InitCatalogue, NextCatalogue, PTL DEF CatalogueSpec

\* Nothing but the erasure of its organisation takes an application away.
LEMMA StepKeepsWork ==
    ASSUME CatalogueInv, CatalogueNext PROVE \A a \in applied \ applied' : a[1] \notin orgs'
<1>1. CASE \E who \in Orgs : Erase(who)
  BY <1>1 DEF Erase
<1>2. ASSUME applied' = applied \/ applied \subseteq applied' PROVE applied \ applied' = {}
  BY <1>2
<1>3. CASE \E r \in Desks : DeletePastedOpportunity(r)
  BY <1>3, <1>2 DEF DeletePastedOpportunity, MayGo
<1>4. CASE \E o \in FundIds : DeleteSharedFund(o)
  BY <1>4, <1>2 DEF DeleteSharedFund, MayGo
<1>5. CASE \E f \in FunderIds : DeleteFunder(f)
  BY <1>5, <1>2 DEF DeleteFunder, MayGo
<1>6. CASE \E who \in Orgs, o \in FundIds : ApplyFor(who, o)
  BY <1>6, <1>2 DEF ApplyFor
<1>7. CASE UNCHANGED applied
  BY <1>7, <1>2
<1> QED
  BY <1>1, <1>3, <1>4, <1>5, <1>6, <1>7
  DEF CatalogueNext, AddOwnFund, LoadOwnFund, DeleteOpportunity, AddSharedFund, MakeFunder, StoreFund,
      FindRenamed, UpdateOwnFund, StoreBoth, Dies, UpsertFunder

\* A fund an organisation added leaves its list in three ways.
LEMMA StepKeepsFunds ==
    ASSUME CatalogueInv, CatalogueNext,
           NEW o \in FundIds, funds[o] # NoRow, funds'[o] = NoRow, funds[o].owner # Platform
    PROVE  \/ funds[o].owner \notin orgs'
           \/ funders'[funds[o].funder] = NoRow
           \/ \E r \in Desks : /\ Doing(r, "removing") /\ desk'[r] = AtRest
                               /\ desk[r].fund = o /\ desk[r].who = funds[o].owner
<1>0. /\ funds \in [FundIds -> FundRows \cup {NoRow}] /\ funds[o] \in FundRows
      /\ funds[o].funder \in FunderIds
      /\ funders \in [FunderIds -> FunderRows \cup {NoRow}] /\ desk \in [Desks -> DeskRows]
  BY FundRow DEF CatalogueInv, CatalogueTypeOK
<1>1. CASE \E who \in Orgs : Erase(who)
  <2> PICK who \in Orgs : Erase(who)
    BY <1>1
  <2> DEFINE made == {f \in FunderIds : funders[f] # NoRow /\ funders[f].owner = who}
             gone == {p \in FundIds : funds[p] # NoRow /\ (funds[p].owner = who \/ funds[p].funder \in made)}
  <2>1. /\ orgs' = orgs \ {who} /\ funds' = FundsLess(gone)
        /\ funders' = [f \in FunderIds |-> IF f \in made THEN NoRow ELSE funders[f]]
    BY DEF Erase
  <2>2. o \in gone
    BY <2>1 DEF FundsLess
  <2> QED BY <1>0, <2>1, <2>2
<1>2. CASE \E r \in Desks : DeletePastedOpportunity(r)
  <2> PICK r \in Desks : DeletePastedOpportunity(r)
    BY <1>2
  <2>1. Doing(r, "removing") /\ desk'[r] = AtRest
    BY <1>0 DEF DeletePastedOpportunity
  <2>2. funds' = FundsLess({desk[r].fund}) /\ funds[desk[r].fund].owner = desk[r].who
    BY DEF DeletePastedOpportunity
  <2>3. o = desk[r].fund
    BY <2>2 DEF FundsLess
  <2> QED BY <2>1, <2>2, <2>3
<1>3. CASE \E p \in FundIds : DeleteSharedFund(p)
  BY <1>3 DEF DeleteSharedFund, FundsLess
<1>4. CASE \E f \in FunderIds : DeleteFunder(f)
  <2> PICK f \in FunderIds : DeleteFunder(f)
    BY <1>4
  <2>1. o \in FundsOf(f)
    BY DEF DeleteFunder, FundsLess
  <2> QED BY <1>0, <2>1 DEF DeleteFunder, FundsOf
<1>5. CASE \E r \in Desks : StoreFund(r) \/ StoreBoth(r)
  <2>1. PICK p \in FundIds, row \in FundRows : UNCHANGED funds \/ funds' = [funds EXCEPT ![p] = row]
    <3> PICK r \in Desks : StoreFund(r) \/ StoreBoth(r)
      BY <1>5
    <3>1. StoreFund(r) => desk[r].funder \in FunderIds /\ desk[r].who \in Owners
      BY DeskHolds DEF StoreFund, Doing, CatalogueInv, CatalogueTypeOK, DesksAreSound, DeskIsSound
    <3>2. CASE UNCHANGED funds
      BY <1>0, <3>2
    <3>3. CASE StoreFund(r) /\ ~UNCHANGED funds
      BY <3>1, <3>3, MadeFund DEF StoreFund
    <3>4. CASE StoreBoth(r)
      BY <3>4, MadeFund DEF StoreBoth, FunderIds, Owners
    <3> QED BY <3>2, <3>3, <3>4
  <2> QED BY <1>0, <2>1, FundRow
<1>6. CASE \E r \in Desks : UpdateOwnFund(r)
  <2> PICK r \in Desks : UpdateOwnFund(r)
    BY <1>6
  <2>1. desk[r].fund \in FundIds /\ desk[r].funder \in FunderIds
    BY DEF UpdateOwnFund, Doing, CatalogueInv, CatalogueTypeOK, DesksAreSound, DeskIsSound
  <2>2. /\ funds[desk[r].fund] # NoRow
        /\ funds' = [funds EXCEPT ![desk[r].fund] = [funds[desk[r].fund] EXCEPT !.funder = desk[r].funder]]
    BY DEF UpdateOwnFund
  <2>3. [funds[desk[r].fund] EXCEPT !.funder = desk[r].funder] \in FundRows
    BY <1>0, <2>1, <2>2 DEF FundRows
  <2> QED BY <1>0, <2>2, <2>3, FundRow
<1>7. CASE UNCHANGED funds
  BY <1>7
<1> QED
  BY <1>1, <1>2, <1>3, <1>4, <1>5, <1>6, <1>7
  DEF CatalogueNext, AddOwnFund, LoadOwnFund, DeleteOpportunity, AddSharedFund, MakeFunder,
      FindRenamed, ApplyFor, Dies, UpsertFunder

(* Nothing an organisation added is another's, and no work goes but with    *)
(* its organisation, for any number of organisations, funds and requests.   *)
THEOREM SpecFundsAreKept == CatalogueSpec => FundsAreKept
<1>1. CatalogueInv /\ [CatalogueNext]_catalogueVars
        => [\A a \in applied \ applied' : a[1] \notin orgs']_catalogueVars
  BY StepKeepsWork
<1>2. CatalogueInv /\ [CatalogueNext]_catalogueVars
        => [\A o \in FundIds : funds[o] # NoRow /\ funds'[o] = NoRow /\ funds[o].owner # Platform =>
              \/ funds[o].owner \notin orgs'
              \/ funders'[funds[o].funder] = NoRow
              \/ \E r \in Desks : /\ Doing(r, "removing") /\ desk'[r] = AtRest
                                  /\ desk[r].fund = o /\ desk[r].who = funds[o].owner]_catalogueVars
  BY StepKeepsFunds
<1>3. CatalogueSpec => WorkIsKept
  BY <1>1, SpecCatalogueInv, PTL DEF CatalogueSpec, WorkIsKept
<1>4. CatalogueSpec => OnlyTheirs
  BY <1>2, SpecCatalogueInv, PTL DEF CatalogueSpec, OnlyTheirs
<1>5. CatalogueSpec => []NothingCrosses
  BY SpecCatalogueInv, CatalogueInvGives, PTL
<1> QED BY <1>3, <1>4, <1>5 DEF FundsAreKept

-----------------------------------------------------------------------------
(* The row of a fund on the tracker (Tracker).                              *)

\* What the form's questions are, and which of them are left.
LEMMA FormIs ==
    ASSUME TrackTypeOK
    PROVE  /\ Len(form) \in Nat /\ DOMAIN form = 1 .. Len(form)
           /\ \A q \in DOMAIN form : form[q] \in FormRows
           /\ Outstanding \subseteq DOMAIN form /\ IsFiniteSet(Outstanding)
           /\ form = << >> <=> DOMAIN form = {}
<1>1. form \in Seq(FormRows)
  BY DEF TrackTypeOK
<1>2. Len(form) \in Nat /\ DOMAIN form = 1 .. Len(form) /\ \A q \in DOMAIN form : form[q] \in FormRows
  BY <1>1
<1>3. Outstanding \subseteq DOMAIN form
  BY DEF Outstanding
<1>4. IsFiniteSet(1 .. Len(form))
  BY <1>2, FS_Interval
<1>5. IsFiniteSet(Outstanding)
  BY <1>2, <1>3, <1>4, FS_Subset
<1>6. form = << >> <=> DOMAIN form = {}
  BY <1>1
<1> QED BY <1>2, <1>3, <1>5, <1>6

\* The rates in whole parts of an hour.
LEMMA RatesAre ==
    /\ Hour \div 700 = 2 /\ Hour \div 200 = 7 /\ Hour \div 2 = 700 /\ Hour \div 4 = 350
    /\ QuestionWork = 350 /\ ClaimWork = 350 /\ BaseWork = 1400 /\ HoursPerWeek = 4 /\ BufferDays = 2
  BY DEF Hour, QuestionWork, ClaimWork, BaseWork, HoursPerWeek, BufferDays

\* A question takes some work, and the questions left take at least as much as one.
LEMMA WritingTakes ==
    ASSUME TrackTypeOK
    PROVE  /\ \A q \in DOMAIN form : WritingWork(q) \in Nat
           /\ LeftToWrite \in Nat
           /\ Outstanding # {} => LeftToWrite >= 350
<1> DEFINE work == [q \in Outstanding |-> WritingWork(q) + QuestionWork]
<1>1. ASSUME NEW q \in DOMAIN form PROVE WritingWork(q) \in Nat
  <2>1. form[q].limit \in Limits \cup {NoLimit}
    BY FormIs DEF FormRows
  <2>2. Words(form[q].limit) \in Nat
    BY <2>1, TrackerAssumption DEF Words, AssumedWords
  <2>3. (IF Assisted THEN 2 ELSE 7) \in Nat
    OBVIOUS
  <2>4. WritingWork(q) = Words(form[q].limit) * (IF Assisted THEN 2 ELSE 7)
    BY RatesAre DEF WritingWork
  <2>5. \A a, b \in Nat : a * b \in Nat
    OBVIOUS
  <2> QED BY <2>2, <2>3, <2>4, <2>5
<1>2. \A q \in Outstanding : work[q] \in Nat /\ work[q] >= 350
  BY <1>1, FormIs, RatesAre
<1>3. LeftToWrite = SumOver(work, Outstanding) /\ IsFiniteSet(Outstanding)
  BY FormIs DEF LeftToWrite
<1> HIDE DEF work
<1>4. LeftToWrite \in Nat
  BY <1>2, <1>3, SumType
<1>5. ASSUME Outstanding # {} PROVE LeftToWrite >= 350
  <2> PICK q \in Outstanding : TRUE
    BY <1>5
  <2>1. work[q] <= LeftToWrite
    BY <1>2, <1>3, SumOfMember
  <2> QED BY <1>2, <1>4, <2>1
<1> QED BY <1>1, <1>4, <1>5

(* The hours are known once there is a form, and are none only when nothing *)
(* is left.                                                                 *)
HoursFacts ==
    /\ Hours \in Nat \cup {Unknown} /\ (Hours = Unknown <=> form = << >>)
    /\ Hours = 0 => Outstanding = {} /\ claims = 0

LEMMA HoursAre == TrackTypeOK => HoursFacts
<1> SUFFICES ASSUME TrackTypeOK PROVE HoursFacts
  OBVIOUS
<1> USE DEF HoursFacts
<1>1. claims \in Nat /\ Unknown \notin Nat
  BY TrackerAssumption DEF TrackTypeOK
<1>2. ReadingWork \in Nat
  BY RatesAre DEF ReadingWork
<1>3. ASSUME NEW work \in Nat
      PROVE  HalfHours(work) \in Nat /\ (work >= 350 => HalfHours(work) # 0)
  BY RatesAre DEF HalfHours
<1>4. CASE form = << >>
  BY <1>1, <1>4 DEF Hours
<1>5. CASE form # << >> /\ Outstanding = {}
  <2>1. Hours = HalfHours(claims * 350)
    BY <1>5, RatesAre DEF Hours
  <2>2. claims * 350 \in Nat /\ (claims # 0 => claims * 350 >= 350)
    BY <1>1
  <2> QED BY <1>1, <1>3, <1>5, <2>1, <2>2
<1>6. CASE form # << >> /\ Outstanding # {}
  <2> DEFINE work == ReadingWork + claims * 350 + LeftToWrite
  <2>1. Hours = HalfHours(work)
    BY <1>6, RatesAre DEF Hours
  <2>2. claims * 350 \in Nat /\ LeftToWrite \in Nat /\ LeftToWrite >= 350
    BY <1>1, <1>6, WritingTakes
  <2>3. work \in Nat /\ work >= 350
    BY <1>2, <2>2
  <2> HIDE DEF work
  <2> QED BY <1>1, <1>3, <1>6, <2>1, <2>3
<1> QED BY <1>4, <1>5, <1>6

(* What a row with a clock is called, by the days there are and the days    *)
(* the work needs.                                                          *)
StateFacts ==
    /\ DaysRemaining \in Int
    /\ Sized => DaysNeeded \in Nat /\ Slack = DaysRemaining - (DaysNeeded + 2)
    /\ WorkLeft <=> Sized /\ Hours # 0
    /\ Sized /\ ~WorkLeft => DaysNeeded = 0
    /\ State \notin {"submitted", "no_clock"}
    /\ State = "overdue" <=> DaysRemaining < 0
    /\ State \in {"start_now", "behind"} <=>
           DaysRemaining >= 0 /\ WorkLeft /\ (Slack < 0 \/ (Slack = 0 /\ Settled = {}))

LEMMA StateIs == TrackTypeOK /\ HasClock /\ ~sent => StateFacts
<1> SUFFICES ASSUME TrackTypeOK, HasClock, ~sent PROVE StateFacts
  OBVIOUS
<1> USE HoursAre DEF HoursFacts, StateFacts
<1>1. today \in Nat /\ deadline \in Nat
  BY TrackerAssumption DEF TrackTypeOK, HasClock, Dates
<1>2. DaysRemaining \in Int
  BY <1>1 DEF DaysRemaining
<1>3. WorkLeft <=> Sized /\ Hours # 0
  BY HoursAre DEF WorkLeft, Sized
<1>4. ASSUME Sized PROVE /\ DaysNeeded \in Nat /\ Slack = DaysRemaining - (DaysNeeded + 2)
                         /\ Hours = 0 => DaysNeeded = 0
  <2>1. Hours \in Nat
    BY <1>4, HoursAre DEF Sized
  <2>2. DaysNeeded = (7 * Hours + 7) \div 8
    BY <2>1 DEF DaysNeeded, HoursPerWeek
  <2> QED BY <2>1, <2>2 DEF Slack, BufferDays
<1>5. CASE DaysRemaining < 0
  BY <1>2, <1>3, <1>4, <1>5 DEF State
<1>6. CASE DaysRemaining >= 0 /\ ~WorkLeft
  BY <1>2, <1>3, <1>4, <1>6 DEF State
<1>7. CASE DaysRemaining >= 0 /\ WorkLeft
  <2>1. Sized /\ ~(DaysRemaining < 0) /\ Slack \in Int
    BY <1>2, <1>3, <1>4, <1>7
  <2>2. State = IF Slack < 0 /\ Settled # {} THEN "behind"
                ELSE IF Slack < 0 \/ (Slack = 0 /\ Settled = {}) THEN "start_now" ELSE "on_track"
    BY <1>7, <2>1 DEF State
  <2> QED BY <1>2, <1>3, <1>4, <1>7, <2>1, <2>2
<1> QED BY <1>2, <1>5, <1>6, <1>7

\* A row without a clock, or sent, is never urgent.
LEMMA UrgentHasClock ==
    ASSUME NeedsAttention PROVE HasClock /\ ~sent
  BY DEF NeedsAttention, State

\* The three surfaces agree in every state of the right types.
LEMMA StatesAgree == ASSUME TrackTypeOK PROVE SurfacesAgree
<1> USE HoursAre, StateIs DEF HoursFacts, StateFacts
<1>1. ASSUME Overruns PROVE NeedsAttention
  <2>1. HasClock /\ ~sent
    BY <1>1 DEF Overruns, Plottable, State
  <2>2. CASE DaysRemaining < 0
    BY <2>1, <2>2, StateIs DEF NeedsAttention
  <2>3. CASE DaysRemaining >= 0
    <3>1. Sized /\ DaysNeeded > DaysRemaining
      BY <1>1, <2>1, <2>3, StateIs DEF Overruns
    <3>2. WorkLeft /\ Slack < 0
      BY <2>1, <2>3, <3>1, StateIs
    <3> QED BY <2>1, <2>3, <3>2, StateIs DEF NeedsAttention
  <2> QED BY <2>1, <2>2, <2>3, StateIs
<1>2. ASSUME Group = "attention" PROVE ~TrackerRuleExcludes /\ NeedsAttention /\ HasClock /\ ~sent
  <2>1. ~TrackerRuleExcludes /\ NeedsAttention
    BY <1>2 DEF Group
  <2> QED BY <2>1, UrgentHasClock
<1>3. ASSUME Group = "attention" PROVE Event("deadline", deadline) \in Events
  BY <1>2, <1>3 DEF Events, InCalendar, HasClock
<1>4. ASSUME Group = "ruled_out" PROVE Events = {}
  BY <1>4 DEF Group, Events, InCalendar
<1>5. ASSUME State \in {"start_now", "behind"}, Group = "attention"
      PROVE  Event("start", LatestStart) \in Events
  BY <1>2, <1>5, StateIs DEF Events, InCalendar
<1>6. ASSUME Sized, ~WorkLeft PROVE Outstanding = {} /\ claims = 0
  BY <1>6, HoursAre DEF Sized, WorkLeft
<1> QED BY <1>1, <1>3, <1>4, <1>5, <1>6 DEF SurfacesAgree

\* A fund nobody knows yet.
LEMMA InitTrack == ASSUME TrackInit PROVE TrackTypeOK
<1>1. form = << >> /\ form \in Seq(FormRows) /\ Len(form) = 0
  BY DEF TrackInit
<1>2. MaxDay \in Nat /\ MaxForm \in Nat /\ MaxClaims \in Nat
  BY TrackerAssumption
<1>3. deadline \in Dates /\ kind \in Kinds /\ Storable(deadline, kind)
  BY DEF TrackInit, Dates, Kinds, Storable
<1>4. rule \in RuleRows
  BY DEF TrackInit, RuleRows, NoFund, RuleStates
<1>5. today \in 0 .. MaxDay /\ claims \in 0 .. MaxClaims /\ Len(form) <= MaxForm
  BY <1>1, <1>2 DEF TrackInit
<1> QED
  BY <1>1, <1>3, <1>4, <1>5 DEF TrackInit, TrackTypeOK

\* An answer changes no limit, no number of questions and no other answer.
LEMMA AnswerChanges ==
    ASSUME TrackTypeOK, NEW q \in DOMAIN form, NEW answered \in BOOLEAN, NEW n,
           AnswerOne(q, answered, n)
    PROVE  /\ form' \in Seq(FormRows) /\ DOMAIN form' = DOMAIN form /\ Len(form') = Len(form)
           /\ \A x \in DOMAIN form : form'[x].limit = form[x].limit
<1> DEFINE row == [form[q] EXCEPT !.answered = answered]
<1>1. form[q] \in FormRows /\ form \in Seq(FormRows)
  BY FormIs DEF TrackTypeOK
<1>2. row \in FormRows /\ row.limit = form[q].limit
  BY <1>1 DEF FormRows
<1>3. form' = [form EXCEPT ![q] = row]
  BY DEF AnswerOne
<1> HIDE DEF row
<1> QED BY <1>1, <1>2, <1>3

\* Every step keeps the types.
LEMMA NextTrack == ASSUME TrackTypeOK, [TrackNext]_trackVars PROVE TrackTypeOK'
<1> USE DEF fundVars, workVars
<1>0. MaxDay \in Nat /\ MaxForm \in Nat /\ MaxClaims \in Nat
  BY TrackerAssumption
<1>1. CASE UNCHANGED trackVars
  BY <1>1 DEF trackVars, TrackTypeOK, Storable
<1>2. CASE TimePasses
  BY <1>0, <1>2 DEF TimePasses, TrackTypeOK, Storable
<1>3. ASSUME NEW date \in Dates, NEW sort \in Kinds, TypeFund(date, sort) PROVE TrackTypeOK'
  BY <1>3 DEF TypeFund, Typeable, TrackTypeOK, Storable, NoRule, NoFund, RuleRows, RuleStates
<1>4. ASSUME NEW date \in Dates, NEW sort \in Kinds, EditFund(date, sort) PROVE TrackTypeOK'
  BY <1>4 DEF EditFund, Typeable, TrackTypeOK, Storable
<1>5. ASSUME NEW date \in Dates, NEW sort \in Kinds, NEW excludes \in BOOLEAN,
             PasteFund(date, sort, excludes)
      PROVE  TrackTypeOK'
  BY <1>5 DEF PasteFund, TrackTypeOK, Storable, RuleRows, RuleStates
<1>6. ASSUME NEW from \in RuleStates, NEW to \in RuleStates, DecideRule(from, to) PROVE TrackTypeOK'
  BY <1>6 DEF DecideRule, TrackTypeOK, Storable, RuleRows
<1>16. ASSUME NEW excludes \in BOOLEAN, AddHandRule(excludes) PROVE TrackTypeOK'
  BY <1>16 DEF AddHandRule, TrackTypeOK, Storable, RuleRows, RuleStates
<1>17. CASE RemoveHandRule
  <2>1. NoRule \in RuleRows
    BY DEF NoRule, NoFund, RuleRows, RuleStates
  <2>2. rule' = NoRule
    BY <1>17 DEF RemoveHandRule
  <2> HIDE DEF RuleRows
  <2> QED BY <1>17, <2>1, <2>2 DEF RemoveHandRule, TrackTypeOK, Storable
<1>7. CASE Begin
  BY <1>7 DEF Begin, TrackTypeOK, Storable
<1>8. ASSUME NEW limit \in Limits \cup {NoLimit}, AppendQuestion(limit) PROVE TrackTypeOK'
  <2> DEFINE row == [limit |-> limit, answered |-> FALSE]
  <2>1. row \in FormRows /\ form \in Seq(FormRows)
    BY DEF FormRows, TrackTypeOK
  <2>2. form' = Append(form, row) /\ Cardinality(DOMAIN form) < MaxForm
    BY <1>8 DEF AppendQuestion
  <2>3. Cardinality(DOMAIN form) = Len(form)
    BY FormIs, FS_Interval
  <2> HIDE DEF row
  <2>4. form' \in Seq(FormRows) /\ Len(form') = Len(form) + 1 /\ Len(form) \in Nat
    BY <2>1, <2>2
  <2> QED BY <1>0, <1>8, <2>2, <2>3, <2>4 DEF AppendQuestion, TrackTypeOK, Storable
<1>9. ASSUME NEW q \in DOMAIN form, NEW answered \in BOOLEAN, NEW n \in 0 .. MaxClaims,
             AnswerOne(q, answered, n)
      PROVE  TrackTypeOK'
  <2>1. form' \in Seq(FormRows) /\ Len(form') = Len(form)
    BY <1>9, AnswerChanges
  <2> QED BY <1>9, <2>1 DEF AnswerOne, TrackTypeOK, Storable
<1>10. ASSUME NEW brings \in Means, Equip(brings) PROVE TrackTypeOK'
  BY <1>10 DEF Equip, TrackTypeOK, Storable
<1>11. CASE MarkSubmitted
  BY <1>11 DEF MarkSubmitted, TrackTypeOK, Storable
<1>12. CASE UnmarkSubmitted
  BY <1>12 DEF UnmarkSubmitted, TrackTypeOK, Storable
<1>13. ASSUME NEW there \in BOOLEAN, SetDecision(there) PROVE TrackTypeOK'
  BY <1>13 DEF SetDecision, TrackTypeOK, Storable
<1> QED
  BY <1>1, <1>2, <1>3, <1>4, <1>5, <1>6, <1>7, <1>8, <1>9, <1>10, <1>11, <1>12, <1>13,
     <1>16, <1>17 DEF TrackNext

(* The row, the timeline and the calendar file never contradict each other,  *)
(* whatever the form, the fund's dates and the day.                          *)
THEOREM SpecSurfacesAgree == TrackSpec => []SurfacesAgree
  BY InitTrack, NextTrack, StatesAgree, PTL DEF TrackSpec

\* Only the calendar on the wall moves the day.
LEMMA DaysPass ==
    ASSUME TrackTypeOK, TrackNext
    PROVE  /\ today' > today /\ HasClock /\ ~sent /\ WorkLeft /\ ~NeedsAttention
           => DaysNeeded <= deadline - today'
<1>1. today \in Nat
  BY DEF TrackTypeOK
<1>2. CASE TimePasses
  <2> SUFFICES ASSUME HasClock, ~sent, WorkLeft, ~NeedsAttention PROVE DaysNeeded <= deadline - today'
    OBVIOUS
  <2>1. DaysRemaining >= 0 /\ Slack >= 0 /\ Slack = DaysRemaining - (DaysNeeded + 2) /\ DaysNeeded \in Nat
    BY StateIs DEF StateFacts, NeedsAttention
  <2>2. deadline \in Nat
    BY TrackerAssumption DEF TrackTypeOK, HasClock, Dates
  <2> QED BY <1>1, <1>2, <2>1, <2>2 DEF TimePasses, DaysRemaining
<1>3. CASE UNCHANGED today
  BY <1>1, <1>3
<1> QED
  BY <1>2, <1>3
  DEF TrackNext, TypeFund, EditFund, PasteFund, DecideRule, AddHandRule, RemoveHandRule,
      Begin, AppendQuestion, AnswerOne, Equip,
      MarkSubmitted, UnmarkSubmitted, SetDecision

\* A form that comes nearer to its end takes no more hours.
LEMMA LessIsLeft ==
    ASSUME TrackTypeOK, TrackTypeOK', UNCHANGED means, claims' <= claims,
           DOMAIN form' = DOMAIN form, Finishes(form, form'),
           \A x \in DOMAIN form : form'[x].limit = form[x].limit
    PROVE  /\ Sized' <=> Sized
           /\ Sized => Hours' <= Hours
           /\ Settled \subseteq Settled'
<1>0. UNCHANGED Assisted /\ claims \in Nat /\ claims' \in Nat
  BY TrackerAssumption DEF Assisted, TrackTypeOK
<1>1. Outstanding' \subseteq Outstanding
  BY DEF Outstanding, Finishes
<1>2. Settled \subseteq Settled'
  BY <1>1 DEF Settled
<1>3. (form' = << >>) <=> (form = << >>)
  BY FormIs
<1> HoursFacts /\ HoursFacts'
  <2>1. TrackTypeOK' => HoursFacts'
    BY HoursAre, PTL
  <2> QED BY <2>1, HoursAre
<1>4. Sized' <=> Sized
  BY <1>3 DEF HoursFacts, Sized
<1>5. \A x \in DOMAIN form : WritingWork(x)' = WritingWork(x)
  BY <1>0 DEF WritingWork
<1>6. LeftToWrite' <= LeftToWrite /\ LeftToWrite \in Nat /\ LeftToWrite' \in Nat
  <2> DEFINE work == [q \in Outstanding |-> WritingWork(q) + QuestionWork]
             work1 == [q \in Outstanding' |-> (WritingWork(q) + QuestionWork)']
  <2>1. \A q \in Outstanding : work[q] \in Nat
    BY FormIs, WritingTakes, RatesAre
  <2>2. \A q \in Outstanding' : work1[q] = work[q]
    BY <1>1, <1>5, FormIs, RatesAre DEF QuestionWork
  <2>3. LeftToWrite = SumOver(work, Outstanding) /\ LeftToWrite' = SumOver(work1, Outstanding')
    BY DEF LeftToWrite
  <2>4. IsFiniteSet(Outstanding) /\ IsFiniteSet(Outstanding')
    BY <1>1, FormIs, FS_Subset
  <2> HIDE DEF work, work1
  <2>5. SumOver(work1, Outstanding') = SumOver(work, Outstanding')
    BY <2>2, <2>4, SumOfEquals
  <2>6. SumOver(work, Outstanding') <= SumOver(work, Outstanding)
    BY <1>1, <2>1, <2>4, SumOfPart
  <2>7. SumOver(work, Outstanding') \in Nat /\ SumOver(work, Outstanding) \in Nat
    BY <1>1, <2>1, <2>4, SumType
  <2> QED BY <2>3, <2>5, <2>6, <2>7
<1>7. ReadingWork \in Nat /\ ReadingWork' \in Nat /\ ReadingWork' <= ReadingWork
  BY <1>2, RatesAre DEF ReadingWork, BaseWork, Hour
<1>8. \A a, b \in Nat : a <= b => HalfHours(a) <= HalfHours(b)
  BY RatesAre DEF HalfHours
<1>9. ASSUME Sized PROVE Hours' <= Hours
  <2> DEFINE c == claims * ClaimWork
             d == claims' * ClaimWork
  <2>1. c \in Nat /\ d \in Nat /\ d <= c
    <3>1. c = claims * 350 /\ d = claims' * 350
      BY RatesAre
    <3> QED BY <1>0, <3>1
  <2>2. /\ Outstanding = {} => Hours = HalfHours(c)
        /\ Outstanding # {} => Hours = HalfHours(ReadingWork + c + LeftToWrite)
    BY <1>9 DEF HoursFacts, Hours, Sized
  <2>3. /\ Outstanding' = {} => Hours' = HalfHours(d)
        /\ Outstanding' # {} => Hours' = HalfHours(ReadingWork' + d + LeftToWrite')
    BY <1>4, <1>9 DEF HoursFacts, Hours, Sized
  <2> HIDE DEF c, d
  <2> DEFINE before == ReadingWork + c + LeftToWrite
             after == ReadingWork' + d + LeftToWrite'
  <2>4. before \in Nat /\ after \in Nat /\ after <= before /\ d <= before
    <3>1. \A r, s, l, m, x, y \in Nat : s <= r /\ y <= x /\ m <= l =>
             /\ r + x + l \in Nat /\ s + y + m \in Nat
             /\ s + y + m <= r + x + l /\ y <= r + x + l
      OBVIOUS
    <3> QED BY <1>6, <1>7, <2>1, <3>1
  <2>5. Outstanding # {} => Hours = HalfHours(before)
    BY <2>2
  <2>6. Outstanding' # {} => Hours' = HalfHours(after)
    BY <2>3
  <2> HIDE DEF before, after
  <2>7. HalfHours(d) <= HalfHours(c) /\ HalfHours(after) <= HalfHours(before) /\ HalfHours(d) <= HalfHours(before)
    BY <1>8, <2>1, <2>4
  <2> QED BY <1>1, <2>2, <2>3, <2>5, <2>6, <2>7
<1> QED BY <1>2, <1>4, <1>9

\* The row of a form that comes nearer to its end is urgent only if it was.
LEMMA LessIsNoWorse ==
    ASSUME TrackTypeOK, TrackTypeOK', NeedsAttention', UNCHANGED <<today, fundVars, sent>>,
           Sized' <=> Sized, Sized => Hours' <= Hours, Settled \subseteq Settled'
    PROVE  NeedsAttention
<1>0. HasClock' /\ ~sent' /\ HasClock /\ ~sent
  BY UrgentHasClock DEF HasClock, fundVars, NeedsAttention, State
<1> HoursFacts /\ HoursFacts' /\ StateFacts /\ StateFacts'
  <2>1. (TrackTypeOK' => HoursFacts') /\ (TrackTypeOK' /\ HasClock' /\ ~sent' => StateFacts')
    BY HoursAre, StateIs, PTL
  <2> QED BY <1>0, <2>1, HoursAre, StateIs
<1>1. DaysRemaining' = DaysRemaining
  BY DEF DaysRemaining, fundVars
<1>2. CASE DaysRemaining < 0
  BY <1>0, <1>2 DEF StateFacts, NeedsAttention
<1>3. CASE DaysRemaining >= 0
  <2>1. State' \in {"start_now", "behind"}
    BY <1>0, <1>1, <1>3 DEF StateFacts, NeedsAttention
  <2>2. /\ WorkLeft' /\ (Slack' < 0 \/ (Slack' = 0 /\ Settled' = {}))
        /\ DaysNeeded' \in Nat /\ Slack' = DaysRemaining' - (DaysNeeded' + 2) /\ Sized' /\ Hours' # 0
    BY <1>0, <2>1 DEF StateFacts
  <2>3. Hours \in Nat /\ Hours' \in Nat /\ Hours' <= Hours
    BY <2>2 DEF HoursFacts, Sized
  <2>4. WorkLeft
    BY <2>2, <2>3, <1>0 DEF StateFacts
  <2>5. DaysNeeded' <= DaysNeeded
    BY <2>3 DEF DaysNeeded, HoursPerWeek
  <2>6. DaysNeeded \in Nat /\ Slack = DaysRemaining - (DaysNeeded + 2) /\ DaysRemaining \in Int
    BY <1>0, <2>2 DEF StateFacts
  <2>7. Slack <= Slack' /\ Slack \in Int /\ Slack' \in Int
    <3>1. \A r \in Int, n, m \in Nat : m <= n =>
             r - (n + 2) \in Int /\ r - (m + 2) \in Int /\ r - (n + 2) <= r - (m + 2)
      OBVIOUS
    <3> QED BY <1>1, <2>2, <2>5, <2>6, <3>1
  <2>8. Slack < 0 \/ (Slack = 0 /\ Settled = {})
    BY <2>2, <2>7
  <2> QED BY <1>0, <1>3, <2>4, <2>8 DEF StateFacts, NeedsAttention
<1> QED BY <1>0, <1>2, <1>3 DEF StateFacts

\* No answer and no source makes a row urgent.
LEMMA WorkHelps ==
    ASSUME TrackTypeOK, TrackNext
    PROVE  (/\ form' # form \/ claims' # claims
            /\ Len(form') = Len(form) /\ Finishes(form, form') /\ claims' <= claims)
           => (NeedsAttention' => NeedsAttention)
<1>0. TrackTypeOK'
  BY NextTrack
<1>1. ASSUME NEW q \in DOMAIN form, NEW answered \in BOOLEAN, NEW n \in 0 .. MaxClaims,
             AnswerOne(q, answered, n), Finishes(form, form'), claims' <= claims,
             NeedsAttention'
      PROVE  NeedsAttention
  <2>1. /\ DOMAIN form' = DOMAIN form
        /\ \A x \in DOMAIN form : form'[x].limit = form[x].limit
    BY <1>1, AnswerChanges
  <2>2. UNCHANGED <<today, fundVars, sent>> /\ UNCHANGED means
    BY <1>1 DEF AnswerOne
  <2>3. (Sized' <=> Sized) /\ (Sized => Hours' <= Hours) /\ Settled \subseteq Settled'
    BY <1>0, <1>1, <2>1, <2>2, LessIsLeft
  <2> QED BY <1>0, <1>1, <2>2, <2>3, LessIsNoWorse
<1>2. ASSUME NEW limit \in Limits \cup {NoLimit}, AppendQuestion(limit) PROVE Len(form') # Len(form)
  <2>1. form \in Seq(FormRows) /\ [limit |-> limit, answered |-> FALSE] \in FormRows
    BY DEF FormRows, TrackTypeOK
  <2>2. Len(form') = Len(form) + 1 /\ Len(form) \in Nat
    BY <1>2, <2>1 DEF AppendQuestion
  <2> QED BY <2>2
<1>3. ASSUME ~UNCHANGED <<form, claims>>
      PROVE \/ \E q \in DOMAIN form, answered \in BOOLEAN, n \in 0 .. MaxClaims : AnswerOne(q, answered, n)
            \/ \E limit \in Limits \cup {NoLimit} : AppendQuestion(limit)
  BY <1>3 DEF TrackNext, TimePasses, TypeFund, EditFund, PasteFund, DecideRule, AddHandRule, RemoveHandRule,
      Begin, Equip,
      MarkSubmitted, UnmarkSubmitted, SetDecision, workVars
<1> QED BY <1>1, <1>2, <1>3

(* Nobody with work left is warned too late, and no work done makes a row    *)
(* urgent, for every form, every limit and every day.                        *)
THEOREM SpecUrgencyIsFair == TrackSpec => UrgencyIsFair
<1>1. TrackSpec => []TrackTypeOK
  BY InitTrack, NextTrack, PTL DEF TrackSpec
<1>2. TrackTypeOK /\ [TrackNext]_trackVars
        => [/\ today' > today /\ HasClock /\ ~sent
            /\ WorkLeft /\ ~NeedsAttention
            => DaysNeeded <= deadline - today']_trackVars
  BY DaysPass
<1>3. TrackTypeOK /\ [TrackNext]_trackVars
        => [(/\ form' # form \/ claims' # claims
             /\ Len(form') = Len(form) /\ Finishes(form, form') /\ claims' <= claims)
            => (NeedsAttention' => NeedsAttention)]_trackVars
  BY WorkHelps
<1>4. TrackSpec => WarnedInTime
  BY <1>1, <1>2, PTL DEF TrackSpec, WarnedInTime
<1>5. TrackSpec => WorkNeverHurts
  BY <1>1, <1>3, PTL DEF TrackSpec, WorkNeverHurts
<1> QED BY <1>4, <1>5 DEF UrgencyIsFair

-----------------------------------------------------------------------------
(* Searching the awards and following the chips (GrantSearch).  The         *)
(* invariant says what each statement of an answer owes to the ones before  *)
(* it, and what the chip that led here promised, as long as no shelf was    *)
(* replaced in between.                                                     *)

(* Where the words have been weighed.                                       *)
Reading == {"weighed", "listed", "counted", "shown"}

(* The page has all its parts, and the load has not run backwards since.    *)
PageIsWhole ==
    /\ page = [at |-> page.at, scope |-> page.scope, walk |-> page.walk, list |-> page.list,
               total |-> page.total, offered |-> page.offered, funders |-> page.funders,
               scoped |-> page.scoped]
    /\ page.walk \in 0 .. walks

(* What the question finds in what is held now.                             *)
FoundNow == BuildWhere(held, page.scope, asked.filters, asked.recipient)

(* The rows count what was found by funder, and make it up when all fit.    *)
RowsHold(rows, found) ==
    /\ \A f \in DOMAIN rows : rows[f] = Cardinality({a \in found : a.funder = f})
    /\ SumOver(rows, DOMAIN rows) <= Cardinality(found)
    /\ Cardinality(DOMAIN rows) < FunderLimit => SumOver(rows, DOMAIN rows) = Cardinality(found)

(* As long as no shelf is replaced, each statement answers the question the *)
(* one before it did.                                                       *)
PageIsOne ==
    page.walk = walks =>
        /\ page.at \in Reading => page.scope = TextSearch(held, asked.words)
        /\ page.at \in {"listed", "counted", "shown"} =>
              /\ page.list \subseteq FoundNow
              /\ Cardinality(page.list) = IF Cardinality(FoundNow) < ListLimit
                                          THEN Cardinality(FoundNow) ELSE ListLimit
        /\ page.at \in {"counted", "shown"} => page.total = Cardinality(FoundNow)
        /\ page.at = "shown" =>
              /\ RowsHold(page.funders, FoundNow)
              /\ asked.recipient # Anyone => page.total <= page.scoped

(* A chip that is not in force carries the number of what it adds.          *)
ChipsAreCounted ==
    page.at \in {"counted", "shown"} =>
        \A d \in Dimensions : \A o \in page.offered[d] :
            o[1] \notin asked.filters[d] =>
                /\ o[1] \in Values[d] /\ o[2] \in Nat /\ o[2] > 0
                /\ page.walk = walks => o[2] = ChipCount(held, page.scope, asked, d, o[1])

(* What the chip that was followed promised, while no shelf is replaced.    *)
Promised(chip, H, address) ==
    LET n == Total(H, TextSearch(H, address.words), address.filters, address.recipient)
    IN  n > 0 /\ (chip.topic \/ n >= chip.count) /\ (chip.alone => n <= chip.count)
PickIsKept ==
    pick # NoPick =>
        /\ pick.walk \in 0 .. walks /\ pick.count \in Nat
        /\ page.at \in Reading => pick.walk <= page.walk
        /\ pick.walk = walks => Promised(pick, held, asked)

SearchInv ==
    /\ SearchTypeOK /\ PageIsWhole /\ PageIsOne /\ ChipsAreCounted /\ PickIsKept
    /\ ChosenStaysOffered

-----------------------------------------------------------------------------
\* Bounds and what the awards are.
LEMMA AwardsAre ==
    /\ MaxWalks \in Nat /\ MaxValues \in Nat /\ MaxValues >= 1
    /\ ListLimit \in Nat /\ ListLimit >= 1 /\ FunderLimit \in Nat
    /\ IsFiniteSet(Awards) /\ Cardinality(Awards) \in Nat
<1>1. /\ {FacetWidth, ListLimit, FunderLimit, MaxValues, MaxWalks, MaxChosen} \subseteq Nat
      /\ ListLimit > 0 /\ MaxValues > 0 /\ IsFiniteSet(Awards)
  BY SearchAssumption
<1> QED BY <1>1, FS_CardinalityType

\* Some of the awards are no more than all of them, and are counted.
LEMMA SomeAwards ==
    ASSUME NEW S \in SUBSET Awards
    PROVE  IsFiniteSet(S) /\ Cardinality(S) \in 0 .. Cardinality(Awards)
<1>1. IsFiniteSet(S) /\ Cardinality(S) <= Cardinality(Awards)
  BY AwardsAre, FS_Subset
<1>2. Cardinality(S) \in Nat
  BY <1>1, FS_CardinalityType
<1> QED BY <1>1, <1>2, AwardsAre

\* A part of some awards is no more than they are.
LEMMA FewerAwards ==
    ASSUME NEW S \in SUBSET Awards, NEW T \in SUBSET S
    PROVE  Cardinality(T) <= Cardinality(S)
  BY SomeAwards, FS_Subset

\* What is found is held.
LEMMA FoundIsHeld ==
    ASSUME NEW H \in SUBSET Awards, NEW scope, NEW filters, NEW recipient
    PROVE  BuildWhere(H, scope, filters, recipient) \in SUBSET Awards
  BY DEF BuildWhere

\* An address has words, filters and an organisation.
LEMMA AddressIs ==
    ASSUME NEW a \in Addresses
    PROVE  /\ a.words \in Queries /\ a.filters \in FilterSets
           /\ a = [words |-> a.words, filters |-> a.filters, recipient |-> a.recipient]
           /\ a.recipient \in {b.recipient : b \in Awards} \cup {Anyone}
           /\ Cardinality(a.filters["since"]) <= 1
           /\ \A d \in Dimensions : Cardinality(a.filters[d]) <= MaxValues
  BY DEF Addresses
LEMMA AddressOf ==
    ASSUME NEW words \in Queries, NEW filters \in FilterSets,
           NEW who \in {b.recipient : b \in Awards} \cup {Anyone},
           Cardinality(filters["since"]) <= 1,
           \A d \in Dimensions : Cardinality(filters[d]) <= MaxValues
    PROVE  [words |-> words, filters |-> filters, recipient |-> who] \in Addresses
  BY DEF Addresses

\* Filters are a choice in each dimension.
LEMMA FiltersAre ==
    ASSUME NEW f
    PROVE  f \in FilterSets <=> /\ f = [d \in Dimensions |-> f[d]]
                                /\ \A d \in Dimensions : f[d] \subseteq MayHold(d)
<1>1. ASSUME f \in FilterSets
      PROVE  f = [d \in Dimensions |-> f[d]] /\ \A d \in Dimensions : f[d] \subseteq MayHold(d)
  BY <1>1 DEF FilterSets, Dimensions
<1>2. ASSUME f = [d \in Dimensions |-> f[d]], \A d \in Dimensions : f[d] \subseteq MayHold(d)
      PROVE  f \in FilterSets
  <2>1. f["amount"] \subseteq MayHold("amount") /\ f["since"] \subseteq MayHold("since")
        /\ f["place"] \subseteq MayHold("place") /\ f["topic"] \subseteq MayHold("topic")
    BY <1>2 DEF Dimensions
  <2>2. f = [amount |-> f["amount"], since |-> f["since"], place |-> f["place"], topic |-> f["topic"]]
    BY <1>2 DEF Dimensions
  <2> QED BY <2>1, <2>2 DEF FilterSets
<1> QED BY <1>1, <1>2

\* Filters in which one dimension was put anew.
LEMMA FiltersPut ==
    ASSUME NEW f \in FilterSets, NEW d \in Dimensions, NEW v, v \subseteq MayHold(d)
    PROVE  /\ [f EXCEPT ![d] = v] \in FilterSets
           /\ \A e \in Dimensions : [f EXCEPT ![d] = v][e] = IF e = d THEN v ELSE f[e]
<1> DEFINE g == [f EXCEPT ![d] = v]
<1>1. f = [e \in Dimensions |-> f[e]] /\ \A e \in Dimensions : f[e] \subseteq MayHold(e)
  BY FiltersAre
<1>2. g = [e \in Dimensions |-> g[e]] /\ \A e \in Dimensions : g[e] = IF e = d THEN v ELSE f[e]
  BY <1>1
<1> HIDE DEF g
<1>3. g \in FilterSets
  BY <1>1, <1>2, FiltersAre
<1> QED BY <1>2, <1>3 DEF g
LEMMA NoneChosen ==
    /\ NoFilters \in FilterSets /\ \A d \in Dimensions : NoFilters[d] = {}
    /\ \A d \in Dimensions : Cardinality(NoFilters[d]) = 0
<1>1. NoFilters = [d \in Dimensions |-> NoFilters[d]] /\ \A d \in Dimensions : NoFilters[d] = {}
  BY DEF NoFilters
<1> QED BY <1>1, FiltersAre, FS_EmptySet

-----------------------------------------------------------------------------
\* Every visit begins with an empty page and no filter.
LEMMA InitSearch == ASSUME SearchInit PROVE SearchInv
<1>1. page = Unread /\ walks = 0 /\ pick = NoPick /\ held \subseteq Awards
  BY DEF SearchInit
<1>2. page.at = "asked" /\ page.list = {} /\ PageIsWhole
  BY <1>1 DEF Unread, PageIsWhole
<1>3. asked \in Addresses
  <2>1. PICK words \in Queries : asked = [words |-> words, filters |-> NoFilters, recipient |-> Anyone]
    BY DEF SearchInit
  <2> QED BY <2>1, AwardsAre, NoneChosen, AddressOf DEF Dimensions
<1>4. SearchTypeOK
  BY <1>1, <1>2, <1>3, AwardsAre DEF SearchTypeOK
<1> QED
  BY <1>1, <1>2, <1>4
  DEF SearchInv, PageIsOne, ChipsAreCounted, PickIsKept, ChosenStaysOffered, Reading

\* A page put aside says nothing, and owes only what the chip promised.
LEMMA SilentKeeps ==
    ASSUME SearchInv, UNCHANGED <<held, walks, asked, pick>>,
           NEW at \in {"asked", "idle", "failed"}, page' = [Unread EXCEPT !.at = at]
    PROVE  SearchInv'
<1>0. 0 \in 0 .. walks
  BY AwardsAre DEF SearchInv, SearchTypeOK
<1>1. page'.at = at /\ page'.list = {} /\ page'.walk = 0 /\ PageIsWhole'
  BY <1>0 DEF Unread, PageIsWhole
<1>2. SearchTypeOK'
  BY <1>1 DEF SearchInv, SearchTypeOK
<1> QED
  BY <1>1, <1>2
  DEF SearchInv, PageIsOne, ChipsAreCounted, PickIsKept, ChosenStaysOffered, Reading

(* One lemma for each action of GrantSearch: it keeps the invariant.       *)
LEMMA ReplaceShelfKeeps == ASSUME SearchInv, ReplaceShelf PROVE SearchInv'
<1>1. /\ walks' = walks + 1 /\ walks < MaxWalks /\ held' \subseteq Awards
      /\ UNCHANGED <<asked, page, pick>>
  BY DEF ReplaceShelf, SearchInv, SearchTypeOK
<1>2. walks \in Nat /\ walks' \in 0 .. MaxWalks /\ page.walk < walks'
  BY <1>1, AwardsAre DEF SearchInv, SearchTypeOK, PageIsWhole
<1>3. SearchTypeOK'
  BY <1>1, <1>2 DEF SearchInv, SearchTypeOK
<1>4. PageIsWhole'
  BY <1>1, <1>2 DEF SearchInv, PageIsWhole
<1>5. PageIsOne' /\ ChipsAreCounted' /\ ChosenStaysOffered'
  BY <1>1, <1>2 DEF SearchInv, PageIsOne, ChipsAreCounted, ChosenStaysOffered
<1>6. PickIsKept'
  BY <1>1, <1>2 DEF SearchInv, PickIsKept
<1> QED BY <1>3, <1>4, <1>5, <1>6 DEF SearchInv

LEMMA WeighWordsKeeps == ASSUME SearchInv, WeighWords PROVE SearchInv'
<1>1. CASE asked.words = {}
  BY <1>1, SilentKeeps DEF WeighWords
<1>2. CASE asked.words # {}
  <2>1. /\ page' = [Unread EXCEPT !.at = "weighed", !.walk = walks, !.scope = TextSearch(held, asked.words)]
        /\ UNCHANGED <<held, walks, asked, pick>>
    BY <1>2 DEF WeighWords
  <2>0. walks \in 0 .. walks
    BY AwardsAre DEF SearchInv, SearchTypeOK
  <2>2. /\ page'.at = "weighed" /\ page'.walk = walks /\ page'.scope = TextSearch(held, asked.words)
        /\ page'.list = {} /\ PageIsWhole'
    BY <2>0, <2>1 DEF Unread, PageIsWhole
  <2>3. SearchTypeOK'
    BY <2>1, <2>2 DEF SearchInv, SearchTypeOK
  <2>4. PickIsKept'
    BY <2>1, <2>2 DEF SearchInv, PickIsKept
  <2>5. PageIsOne' /\ ChipsAreCounted' /\ ChosenStaysOffered'
    BY <2>1, <2>2 DEF PageIsOne, ChipsAreCounted, ChosenStaysOffered
  <2> QED BY <2>2, <2>3, <2>4, <2>5 DEF SearchInv
<1> QED BY <1>1, <1>2

LEMMA SearchAwardsKeeps == ASSUME SearchInv, SearchAwards PROVE SearchInv'
<1>0. page.at = "weighed" /\ UNCHANGED <<held, walks, asked, pick>>
  BY DEF SearchAwards
<1>1. PICK list \in Firsts(FoundNow, ListLimit, LAMBDA a, b : Outranks(a, b, page.scope)) :
        page' = [page EXCEPT !.at = "listed", !.list = list]
  BY DEF SearchAwards, FoundNow
<1>2. /\ page'.at = "listed" /\ page'.walk = page.walk /\ page'.scope = page.scope
      /\ page'.list = list /\ PageIsWhole'
  BY <1>0, <1>1 DEF PageIsWhole, SearchInv
<1>3. /\ list \subseteq FoundNow /\ FoundNow \in SUBSET Awards /\ FoundNow' = FoundNow
      /\ Cardinality(list) = IF Cardinality(FoundNow) < ListLimit
                             THEN Cardinality(FoundNow) ELSE ListLimit
  BY <1>0, <1>2, FoundIsHeld DEF Firsts, FoundNow, SearchInv, SearchTypeOK
<1>4. SearchTypeOK'
  BY <1>0, <1>2, <1>3 DEF SearchInv, SearchTypeOK
<1>5. PickIsKept'
  BY <1>0, <1>2 DEF SearchInv, PickIsKept, Reading
<1>6. PageIsOne'
  BY <1>0, <1>2, <1>3 DEF SearchInv, PageIsOne, Reading
<1>7. ChipsAreCounted' /\ ChosenStaysOffered'
  BY <1>2 DEF ChipsAreCounted, ChosenStaysOffered
<1> QED BY <1>2, <1>4, <1>5, <1>6, <1>7 DEF SearchInv

\* Of what is listed, a chosen value is offered, and another with its count.
LEMMA OfferHas ==
    ASSUME NEW counts, NEW listed, NEW chosen
    PROVE  /\ chosen \subseteq {o[1] : o \in Offer(counts, listed, chosen)}
           /\ \A o \in Offer(counts, listed, chosen) :
                 o[1] \notin chosen =>
                    o[1] \in listed /\ o[2] = counts[o[1]] /\ counts[o[1]] > 0
<1>1. ASSUME NEW v \in chosen PROVE \E o \in Offer(counts, listed, chosen) : o[1] = v
  <2>1. CASE v \in listed
    <3>1. <<v, counts[v]>> \in Offer(counts, listed, chosen)
      BY <2>1 DEF Offer
    <3> QED BY <3>1
  <2>2. CASE v \notin listed
    <3>1. <<v, 0>> \in Offer(counts, listed, chosen)
      BY <2>2 DEF Offer
    <3> QED BY <3>1
  <2> QED BY <2>1, <2>2
<1>2. ASSUME NEW o \in Offer(counts, listed, chosen), o[1] \notin chosen
      PROVE  o[1] \in listed /\ o[2] = counts[o[1]] /\ counts[o[1]] > 0
  BY <1>2 DEF Offer
<1> QED BY <1>1, <1>2

\* The labels of some awards can be counted.
LEMMA LabelsAreFinite ==
    ASSUME NEW found \in SUBSET Awards PROVE IsFiniteSet(Labels(found))
<1> DEFINE own == [a \in found |-> {a} \X DOMAIN a.tags]
<1>1. IsFiniteSet(found) /\ own = [a \in found |-> own[a]]
  BY SomeAwards
<1>2. ASSUME NEW a \in found PROVE IsFiniteSet(own[a])
  <2>1. DOMAIN a.tags = 1 .. Len(a.tags) /\ Len(a.tags) \in Nat
    BY SearchAssumption
  <2>2. IsFiniteSet({a}) /\ IsFiniteSet(DOMAIN a.tags)
    <3>1. IsFiniteSet(1 .. Len(a.tags))
      BY <2>1, FS_Interval
    <3> QED BY <2>1, <3>1, FS_Singleton
  <2>3. IsFiniteSet({a} \X DOMAIN a.tags)
    BY <2>2, FS_Product
  <2>4. own[a] = {a} \X DOMAIN a.tags
    OBVIOUS
  <2> HIDE DEF own
  <2> QED BY <2>3, <2>4
<1>3. Labels(found) = UNION {own[a] : a \in found}
  BY DEF Labels
<1> HIDE DEF own
<1>4. IsFiniteSet({own[a] : a \in found}) /\ \A T \in {own[a] : a \in found} : IsFiniteSet(T)
  BY <1>1, <1>2, ImageIsFinite
<1> QED BY <1>3, <1>4, FS_UNION

\* A chip carries a number.
LEMMA ChipsAreNumbers ==
    ASSUME NEW H \in SUBSET Awards, NEW scope, NEW at, NEW d, NEW v
    PROVE  ChipCount(H, scope, at, d, v) \in Nat
<1> DEFINE found == BuildWhere(H, scope, Without(at.filters, d), at.recipient)
           marked == {m \in Labels(found) : m[1].tags[m[2]] = v}
           carrying == {a \in found : Carries(a, d, v)}
<1>1. found \in SUBSET Awards
  BY FoundIsHeld
<1>2. ChipCount(H, scope, at, d, v) = IF d = "topic" THEN Cardinality(marked) ELSE Cardinality(carrying)
  BY DEF ChipCount
<1> HIDE DEF found
<1>3. IsFiniteSet(marked) /\ IsFiniteSet(carrying)
  <2>1. IsFiniteSet(Labels(found)) /\ IsFiniteSet(found)
    BY <1>1, LabelsAreFinite, SomeAwards
  <2>2. marked \in SUBSET Labels(found) /\ carrying \in SUBSET found
    OBVIOUS
  <2> HIDE DEF marked, carrying
  <2> QED BY <2>1, <2>2, FS_Subset
<1> HIDE DEF marked, carrying
<1> QED BY <1>2, <1>3, FS_CardinalityType

LEMMA FacetsForKeeps == ASSUME SearchInv, FacetsFor PROVE SearchInv'
<1> DEFINE counts == [e \in Dimensions |->
                        [v \in Values[e] |-> ChipCount(held, page.scope, asked, e, v)]]
           total == Total(held, page.scope, asked.filters, asked.recipient)
<1>0. /\ page.at = "listed" /\ UNCHANGED <<held, walks, asked, pick>>
      /\ held \in SUBSET Awards
  BY DEF FacetsFor, SearchInv, SearchTypeOK
<1>1. PICK listed \in [amount : Listings(counts["amount"], "amount"),
                       since : Listings(counts["since"], "since"),
                       place : Listings(counts["place"], "place"),
                       topic : Listings(counts["topic"], "topic")] :
        page' = [page EXCEPT !.at = "counted", !.total = total,
                   !.offered = [e \in Dimensions |-> Offer(counts[e], listed[e], asked.filters[e])]]
  BY DEF FacetsFor
<1>2. \A d \in Dimensions : listed[d] \subseteq Values[d]
  BY DEF Dimensions, Listings, Firsts
<1>3. \A d \in Dimensions : \A v \in Values[d] :
        /\ counts[d][v] = ChipCount(held, page.scope, asked, d, v)
        /\ counts[d][v] \in Nat
  BY <1>0, ChipsAreNumbers
<1> HIDE DEF counts
<1>4. /\ page'.at = "counted" /\ page'.walk = page.walk /\ page'.scope = page.scope
      /\ page'.list = page.list /\ page'.total = total
      /\ \A d \in Dimensions : page'.offered[d] = Offer(counts[d], listed[d], asked.filters[d])
      /\ PageIsWhole'
  BY <1>0, <1>1 DEF PageIsWhole, SearchInv
<1>5. SearchTypeOK'
  BY <1>0, <1>4 DEF SearchInv, SearchTypeOK
<1>6. PickIsKept'
  BY <1>0, <1>4 DEF SearchInv, PickIsKept, Reading
<1>7. PageIsOne'
  BY <1>0, <1>4 DEF SearchInv, PageIsOne, Reading, Total, FoundNow
<1>8. ChipsAreCounted'
  <2> SUFFICES ASSUME NEW d \in Dimensions, NEW o \in page'.offered[d], o[1] \notin asked.filters[d]
               PROVE  /\ o[1] \in Values[d] /\ o[2] \in Nat /\ o[2] > 0
                      /\ o[2] = ChipCount(held, page.scope, asked, d, o[1])
    BY <1>0, <1>4 DEF ChipsAreCounted
  <2>1. o[1] \in listed[d] /\ o[2] = counts[d][o[1]] /\ counts[d][o[1]] > 0
    BY <1>4, OfferHas
  <2> QED BY <1>2, <1>3, <2>1
<1>9. ChosenStaysOffered'
  BY <1>0, <1>4, OfferHas DEF ChosenStaysOffered
<1> QED BY <1>4, <1>5, <1>6, <1>7, <1>8, <1>9 DEF SearchInv

\* The rows of some funders add up to no more than was found, and to all of
\* it when no funder is left out.
LEMMA RowsAddUp ==
    ASSUME NEW found \in SUBSET Awards, NEW shown \in SUBSET (DOMAIN Given(found)),
           Cardinality(shown) = IF Cardinality(DOMAIN Given(found)) < FunderLimit
                                THEN Cardinality(DOMAIN Given(found)) ELSE FunderLimit
    PROVE  RowsHold([f \in shown |-> Given(found)[f]], found)
<1> DEFINE key == [a \in found |-> a.funder]
           K == {a.funder : a \in found}
           given == Given(found)
           rows == [f \in shown |-> given[f]]
           part == [f \in K |-> {a \in found : a.funder = f}]
<1>1. IsFiniteSet(found)
  BY SomeAwards
<1>2. K = {key[a] : a \in found} /\ key = [a \in found |-> key[a]]
  OBVIOUS
<1>3. /\ DOMAIN given = K
      /\ \A f \in K : given[f] = Cardinality({a \in found : a.funder = f})
  BY DEF Given
<1>30. \A f \in K : /\ given[f] = Cardinality(part[f]) /\ part[f] \in SUBSET found
                    /\ \A a \in found : a \in part[f] <=> key[a] = f
  BY <1>3
<1>4. \A a \in found : key[a] \in K
  OBVIOUS
<1>5. /\ DOMAIN rows = shown /\ \A f \in shown : rows[f] = given[f]
      /\ shown \in SUBSET K
  BY <1>3
<1> HIDE DEF key, K, given, rows, part
<1>6. IsFiniteSet({key[a] : a \in found})
  BY <1>1, <1>2, ImageIsFinite
<1>7. IsFiniteSet(K) /\ IsFiniteSet(shown)
  BY <1>2, <1>5, <1>6, FS_Subset
<1>8. SumOver(given, K) = Cardinality(found)
  BY <1>1, <1>4, <1>7, <1>30, SumOfGroups
<1>9. ASSUME NEW f \in K PROVE given[f] \in Nat
  <2>1. IsFiniteSet(part[f])
    BY <1>1, <1>30, FS_Subset
  <2> QED BY <1>30, <2>1, FS_CardinalityType
<1>10. SumOver(rows, shown) = SumOver(given, shown) /\ SumOver(given, shown) <= SumOver(given, K)
  BY <1>5, <1>7, <1>9, SumOfEquals, SumOfPart
<1>11. ASSUME Cardinality(shown) < FunderLimit PROVE shown = K
  <2>1. Cardinality(shown) = Cardinality(K)
    BY <1>3, <1>11, AwardsAre DEF given
  <2> QED BY <1>5, <1>7, <2>1, FS_Subset
<1>12. RowsHold(rows, found)
  BY <1>3, <1>5, <1>8, <1>10, <1>11 DEF RowsHold
<1> QED BY <1>12 DEF rows, given

LEMMA FunderSummariesKeeps == ASSUME SearchInv, FunderSummaries PROVE SearchInv'
<1> DEFINE ours == {a \in held : a.recipient = asked.recipient}
           scoped == IF asked.recipient = Anyone THEN 0 ELSE Cardinality(ours)
<1>0. /\ page.at = "counted" /\ UNCHANGED <<held, walks, asked, pick>>
      /\ held \in SUBSET Awards
  BY DEF FunderSummaries, SearchInv, SearchTypeOK
<1>1. FoundNow \in SUBSET Awards
  BY <1>0, FoundIsHeld DEF FoundNow
<1>2. PICK shown \in Firsts(DOMAIN Given(FoundNow), FunderLimit,
                            LAMBDA f, g : GivesMore(FoundNow, f, g)) :
        page' = [page EXCEPT !.at = "shown", !.funders = [f \in shown |-> Given(FoundNow)[f]],
                             !.scoped = scoped]
  BY DEF FunderSummaries, FoundNow
<1> DEFINE rows == [f \in shown |-> Given(FoundNow)[f]]
<1>3. RowsHold(rows, FoundNow)
  <2>1. /\ shown \in SUBSET (DOMAIN Given(FoundNow))
        /\ Cardinality(shown) = IF Cardinality(DOMAIN Given(FoundNow)) < FunderLimit
                                THEN Cardinality(DOMAIN Given(FoundNow)) ELSE FunderLimit
    BY <1>2 DEF Firsts
  <2> QED BY <1>1, <2>1, RowsAddUp
<1>4. asked.recipient # Anyone => Cardinality(FoundNow) <= scoped
  <2>1. asked.recipient # Anyone => FoundNow \in SUBSET ours
    BY DEF BuildWhere, Matches, FoundNow
  <2>2. ours \in SUBSET Awards
    BY <1>0
  <2> HIDE DEF ours
  <2> QED BY <2>1, <2>2, FewerAwards
<1> HIDE DEF rows, scoped
<1>5. /\ page'.at = "shown" /\ page'.walk = page.walk /\ page'.scope = page.scope
      /\ page'.list = page.list /\ page'.total = page.total /\ page'.offered = page.offered
      /\ page'.funders = rows /\ page'.scoped = scoped
      /\ PageIsWhole'
  BY <1>0, <1>2 DEF PageIsWhole, SearchInv, rows
<1>6. SearchTypeOK'
  BY <1>0, <1>5 DEF SearchInv, SearchTypeOK
<1>7. PickIsKept'
  BY <1>0, <1>5 DEF SearchInv, PickIsKept, Reading
<1>8. FoundNow' = FoundNow
  BY <1>0, <1>5 DEF FoundNow
<1>9. PageIsOne'
  BY <1>0, <1>3, <1>4, <1>5, <1>8 DEF SearchInv, PageIsOne, Reading
<1>10. ChipsAreCounted' /\ ChosenStaysOffered'
  BY <1>0, <1>5 DEF SearchInv, ChipsAreCounted, ChosenStaysOffered
<1> QED BY <1>5, <1>6, <1>7, <1>9, <1>10 DEF SearchInv

\* Another question is asked: the page is empty and the chip's promise is kept.
LEMMA AskKeeps ==
    ASSUME SearchInv, NEW address \in Addresses, NEW chip, Ask(address, chip),
           chip # NoPick => /\ chip.walk \in 0 .. walks /\ chip.count \in Nat
                            /\ chip.walk = walks => Promised(chip, held, address)
    PROVE  SearchInv'
<1>1. asked' = address /\ page' = Unread /\ pick' = chip /\ UNCHANGED <<held, walks>>
  BY DEF Ask
<1>2. page'.at = "asked" /\ page'.list = {} /\ page'.walk = 0 /\ PageIsWhole'
  BY <1>1 DEF Unread, PageIsWhole, SearchInv, SearchTypeOK
<1>3. SearchTypeOK'
  BY <1>1, <1>2 DEF SearchInv, SearchTypeOK
<1>4. PickIsKept'
  BY <1>1, <1>2 DEF PickIsKept, Reading
<1> QED
  BY <1>2, <1>3, <1>4 DEF SearchInv, PageIsOne, ChipsAreCounted, ChosenStaysOffered, Reading

\* A dimension put anew, within its limit.
LEMMA PutKeeps ==
    ASSUME SearchInv, NEW f \in FilterSets, NEW d \in Dimensions, NEW v, v \subseteq MayHold(d),
           Cardinality(f["since"]) <= 1, \A e \in Dimensions : Cardinality(f[e]) <= MaxValues,
           Cardinality(v) <= MaxValues, d = "since" => Cardinality(v) <= 1
    PROVE  [asked EXCEPT !.filters = [f EXCEPT ![d] = v]] \in Addresses
<1> DEFINE g == [f EXCEPT ![d] = v]
<1>1. g \in FilterSets /\ \A e \in Dimensions : g[e] = IF e = d THEN v ELSE f[e]
  BY FiltersPut
<1>2. "since" \in Dimensions
  BY DEF Dimensions
<1> HIDE DEF g
<1>3. /\ asked = [words |-> asked.words, filters |-> asked.filters, recipient |-> asked.recipient]
      /\ asked.words \in Queries /\ asked.recipient \in {b.recipient : b \in Awards} \cup {Anyone}
  BY AddressIs DEF SearchInv, SearchTypeOK
<1>4. [asked EXCEPT !.filters = g] = [words |-> asked.words, filters |-> g, recipient |-> asked.recipient]
  BY <1>3
<1>5. Cardinality(g["since"]) <= 1 /\ \A e \in Dimensions : Cardinality(g[e]) <= MaxValues
  BY <1>1, <1>2
<1>6. [asked EXCEPT !.filters = g] \in Addresses
  BY <1>1, <1>3, <1>4, <1>5, AddressOf
<1> QED BY <1>6 DEF g

LEMMA TypeWordsKeeps == ASSUME SearchInv, TypeWords PROVE SearchInv'
<1>1. PICK words \in Queries :
        Ask([words |-> words, filters |-> NoFilters, recipient |-> Anyone], NoPick)
  BY DEF TypeWords
<1>2. [words |-> words, filters |-> NoFilters, recipient |-> Anyone] \in Addresses
  BY NoneChosen, AwardsAre, AddressOf DEF Dimensions
<1> QED BY <1>1, <1>2, AskKeeps

\* What is read of one parameter is no more than its limit.
LEMMA ReadsFew ==
    ASSUME NEW n \in Nat, NEW S, NEW entries \in [1 .. n -> S]
    PROVE  /\ ReadMany(entries) \subseteq S /\ IsFiniteSet(ReadMany(entries))
           /\ Cardinality(ReadMany(entries)) <= MaxValues
<1> DEFINE Upto(m) == {entries[k] : k \in 1 .. m}
           kept == {m \in 1 .. n : Cardinality(Upto(m)) <= MaxValues}
<1>1. DOMAIN entries = 1 .. n /\ ReadMany(entries) = {entries[m] : m \in kept}
  BY DEF ReadMany
<1>2. ReadMany(entries) \subseteq S
  BY <1>1
<1>0. kept \in SUBSET (1 .. n) /\ \A m \in kept : Cardinality(Upto(m)) <= MaxValues
  OBVIOUS
<1> HIDE DEF kept
<1>3. IsFiniteSet(1 .. n) /\ IsFiniteSet(kept) /\ kept \subseteq Nat
  <2>1. IsFiniteSet(1 .. n) /\ 1 .. n \subseteq Nat
    BY FS_Interval
  <2>2. IsFiniteSet(kept)
    BY <1>0, <2>1, FS_Subset
  <2> QED BY <1>0, <2>1, <2>2
<1>4. CASE kept = {}
  <2>1. ReadMany(entries) = {}
    BY <1>1, <1>4
  <2> QED BY <1>2, <2>1, FS_EmptySet, AwardsAre
<1>5. CASE kept # {}
  <2> DEFINE place == [m \in kept |-> m]
  <2>1. \A m \in kept : place[m] = m /\ place[m] \in Nat
    BY <1>3
  <2> HIDE DEF place
  <2>2. PICK last \in kept : \A m \in kept : place[m] <= place[last]
    BY <1>3, <1>5, <2>1, HeaviestMember
  <2>3. \A m \in kept : m <= last
    BY <2>1, <2>2
  <2> DEFINE first == [m \in 1 .. last |-> entries[m]]
  <2>4. last \in Nat /\ Upto(last) = {first[m] : m \in 1 .. last} /\ first = [m \in 1 .. last |-> first[m]]
    BY <1>3
  <2>5. IsFiniteSet(Upto(last))
    <3> HIDE DEF first, Upto
    <3>1. IsFiniteSet(1 .. last)
      BY <2>4, FS_Interval
    <3>2. IsFiniteSet({first[m] : m \in 1 .. last})
      BY <2>4, <3>1, ImageIsFinite
    <3> QED BY <2>4, <3>2
  <2>6. Cardinality(Upto(last)) <= MaxValues
    BY <1>0
  <2>7. ReadMany(entries) \subseteq Upto(last)
    <3>1. \A m \in kept : m \in 1 .. last
      BY <1>0, <2>3
    <3> QED BY <1>1, <3>1
  <2> HIDE DEF Upto
  <2>8. IsFiniteSet(ReadMany(entries)) /\ Cardinality(ReadMany(entries)) <= Cardinality(Upto(last))
    BY <2>5, <2>7, FS_Subset
  <2>9. Cardinality(ReadMany(entries)) \in Nat /\ Cardinality(Upto(last)) \in Nat
    BY <2>5, <2>8, FS_CardinalityType
  <2> QED BY <1>2, <2>6, <2>8, <2>9, AwardsAre
<1> QED BY <1>2, <1>4, <1>5

LEMMA FollowLinkKeeps == ASSUME SearchInv, FollowLink PROVE SearchInv'
<1>1. PICK filters \in Links : Ask([asked EXCEPT !.filters = filters], NoPick)
  BY DEF FollowLink
<1>2. PICK d \in Dimensions : \E entries \in [1 .. (MaxValues + 1) -> Values[d] \cup {Stale}] :
        filters = FiltersFromParams([e \in Dimensions |-> IF e = d THEN entries ELSE <<>>])
  BY DEF Links
<1>3. PICK entries \in [1 .. (MaxValues + 1) -> Values[d] \cup {Stale}] :
        filters = FiltersFromParams([e \in Dimensions |-> IF e = d THEN entries ELSE <<>>])
  BY <1>2
<1> DEFINE w == IF d = "since" THEN {entries[1]} \cap MayHold(d)
                ELSE ReadMany(entries) \cap MayHold(d)
<1>4. filters = [NoFilters EXCEPT ![d] = w]
  <2> DEFINE params == [e \in Dimensions |-> IF e = d THEN entries ELSE <<>>]
  <2>1. /\ params[d] = entries /\ DOMAIN entries = 1 .. (MaxValues + 1)
        /\ \A e \in Dimensions : e # d => DOMAIN params[e] = {}
    OBVIOUS
  <2>2. filters = FiltersFromParams(params)
    BY <1>3
  <2> HIDE DEF params
  <2>3. ASSUME NEW e \in Dimensions, e # d
        PROVE  {params[e][i] : i \in DOMAIN params[e] \cap {1}} = {} /\ ReadMany(params[e]) = {}
    BY <2>1, <2>3 DEF ReadMany
  <2>4. {params[d][i] : i \in DOMAIN params[d] \cap {1}} = {entries[1]}
    BY <2>1, AwardsAre
  <2>5. filters = [e \in Dimensions |-> IF e = d THEN w ELSE {}]
    <3>1. filters = [e \in Dimensions |-> filters[e]]
      BY <2>2 DEF FiltersFromParams
    <3>2. ASSUME NEW e \in Dimensions PROVE filters[e] = IF e = d THEN w ELSE {}
      <4>1. filters[e] = IF e = "since"
                         THEN {params[e][i] : i \in DOMAIN params[e] \cap {1}} \cap MayHold(e)
                         ELSE ReadMany(params[e]) \cap MayHold(e)
        BY <2>2 DEF FiltersFromParams
      <4>2. CASE e = d
        BY <2>1, <2>4, <4>1, <4>2
      <4>3. CASE e # d
        BY <2>3, <4>1, <4>3
      <4> QED BY <4>2, <4>3
    <3> QED BY <3>1, <3>2
  <2> QED BY <2>5 DEF NoFilters
<1>5. /\ w \subseteq MayHold(d) /\ IsFiniteSet(w) /\ Cardinality(w) <= MaxValues
      /\ d = "since" => Cardinality(w) <= 1
  <2>1. CASE d = "since"
    <3>1. IsFiniteSet({entries[1]}) /\ Cardinality({entries[1]}) = 1 /\ w \in SUBSET {entries[1]}
      BY <2>1, FS_Singleton
    <3>2. IsFiniteSet(w) /\ Cardinality(w) <= 1 /\ Cardinality(w) \in Nat
      <4> HIDE DEF w
      <4>1. IsFiniteSet(w) /\ Cardinality(w) <= Cardinality({entries[1]})
        BY <3>1, FS_Subset
      <4> QED BY <3>1, <4>1, FS_CardinalityType
    <3> QED BY <2>1, <3>2, AwardsAre
  <2>2. CASE d # "since"
    <3>1. MaxValues + 1 \in Nat
      BY AwardsAre
    <3>2. IsFiniteSet(ReadMany(entries)) /\ Cardinality(ReadMany(entries)) <= MaxValues
      BY <3>1, ReadsFew
    <3>3. w \in SUBSET ReadMany(entries) /\ w \subseteq MayHold(d)
      BY <2>2
    <3> HIDE DEF w
    <3>4. IsFiniteSet(w) /\ Cardinality(w) <= Cardinality(ReadMany(entries))
      BY <3>2, <3>3, FS_Subset
    <3>5. Cardinality(w) \in Nat /\ Cardinality(ReadMany(entries)) \in Nat
      BY <3>2, <3>4, FS_CardinalityType
    <3> QED BY <2>2, <3>2, <3>3, <3>4, <3>5, AwardsAre
  <2> QED BY <2>1, <2>2
<1> HIDE DEF w
<1>6. [asked EXCEPT !.filters = filters] \in Addresses
  BY <1>4, <1>5, AwardsAre, NoneChosen, PutKeeps DEF Dimensions
<1> QED BY <1>1, <1>6, AskKeeps

(* Cardinalities say something of finite sets only: what an address chooses *)
(* is finite as long as what can be chosen is.                              *)
LEMMA FiltersAreFinite ==
    ASSUME NEW f \in FilterSets, NEW d \in Dimensions
    PROVE  f[d] \subseteq MayHold(d) /\ IsFiniteSet(f[d]) /\ Cardinality(f[d]) \in Nat
<1>1. f[d] \subseteq MayHold(d) /\ IsFiniteSet(Values[d])
  BY FiltersAre, SearchAssumption
<1>2. IsFiniteSet(Values[d] \cup {Stale})
  BY <1>1, FS_AddElement
<1>3. IsFiniteSet(MayHold(d))
  BY <1>1, <1>2 DEF MayHold
<1> QED BY <1>1, <1>3, FS_Subset, FS_CardinalityType

(* The other dimensions stay as they were.                                  *)
OthersStay(next, filters, d) == \A e \in Dimensions : e # d => next[e] = filters[e]

(* The link behind a chip is an address, and a value it adds is all that its *)
(* dimension gains, or all that its dimension holds.                        *)
LEMMA Toggled ==
    ASSUME SearchInv, NEW d \in Dimensions, NEW v, v \in asked.filters[d] \/ v \in Values[d],
           NEW next, next = Toggle(asked.filters, d, v)
    PROVE  /\ [asked EXCEPT !.filters = next] \in Addresses
           /\ v \in next[d] => v \notin asked.filters[d]
           /\ OthersStay(next, asked.filters, d)
<1> DEFINE f == asked.filters
           w == IF v \in f[d] THEN f[d] \ {v}
                ELSE IF d = "since" THEN {v}
                ELSE IF Cardinality(f[d]) < MaxValues THEN f[d] \cup {v} ELSE f[d]
<1>1. /\ f \in FilterSets /\ Cardinality(f["since"]) <= 1
      /\ \A e \in Dimensions : Cardinality(f[e]) <= MaxValues
      /\ \A e \in Dimensions : f[e] \subseteq MayHold(e) /\ IsFiniteSet(f[e])
  BY AddressIs, FiltersAre, FiltersAreFinite DEF SearchInv, SearchTypeOK
<1>2. next = [f EXCEPT ![d] = w]
  BY DEF Toggle
<1>3. w \subseteq MayHold(d) /\ (v \in w => v \notin f[d])
  BY <1>1 DEF MayHold
<1>4. Cardinality(w) <= MaxValues /\ (d = "since" => Cardinality(w) <= 1)
  <2>1. CASE v \in f[d]
    <3>1. Cardinality(f[d] \ {v}) <= Cardinality(f[d]) /\ Cardinality(f[d]) \in Nat
          /\ Cardinality(f[d] \ {v}) \in Nat
      BY <1>1, FS_Subset, FS_CardinalityType
    <3> QED BY <1>1, <2>1, <3>1, AwardsAre
  <2>2. CASE v \notin f[d] /\ d = "since"
    BY <2>2, AwardsAre, FS_Singleton
  <2>3. CASE v \notin f[d] /\ d # "since"
    <3>1. Cardinality(f[d] \cup {v}) = Cardinality(f[d]) + 1 /\ Cardinality(f[d]) \in Nat
      BY <1>1, <2>3, FS_AddElement, FS_CardinalityType
    <3> QED BY <1>1, <2>3, <3>1, AwardsAre
  <2> QED BY <2>1, <2>2, <2>3
<1> HIDE DEF w
<1>5. \A e \in Dimensions : next[e] = IF e = d THEN w ELSE f[e]
  <2> HIDE DEF f
  <2>0. f = [e \in Dimensions |-> f[e]]
    BY <1>1, FiltersAre
  <2>1. \A e \in Dimensions : [f EXCEPT ![d] = w][e] = IF e = d THEN w ELSE f[e]
    BY <2>0
  <2> QED BY <1>2, <2>1
<1>6. OthersStay(next, f, d)
  BY <1>5 DEF OthersStay
<1> QED BY <1>1, <1>2, <1>3, <1>4, <1>5, <1>6, PutKeeps

Alone(next, d, v) == d # "place" /\ next[d] = {v}

\* What a chip counts is found by following it, and nothing else is when its
\* value is alone in its dimension and is not looked for inside longer names.
\* Of a topic the number may be more, as labels are repeated.
LEMMA ChipLeads ==
    ASSUME NEW H \in SUBSET Awards, NEW scope, NEW at, at.filters \in FilterSets,
           NEW d \in Dimensions, NEW v, NEW next, v \in next[d], OthersStay(next, at.filters, d),
           NEW n, n = Total(H, scope, next, at.recipient),
           NEW c, c = ChipCount(H, scope, at, d, v)
    PROVE  (c > 0 => n > 0) /\ (d # "topic" => n >= c) /\ (Alone(next, d, v) => n <= c)
<1> DEFINE rest == Without(at.filters, d)
           released == BuildWhere(H, scope, rest, at.recipient)
           counted == {a \in released : Carries(a, d, v)}
           found == BuildWhere(H, scope, next, at.recipient)
           marked == {m \in Labels(released) : m[1].tags[m[2]] = v}
<1>1. \A e \in Dimensions : rest[e] = IF e = d THEN {} ELSE next[e]
  <2>1. at.filters = [e \in Dimensions |-> at.filters[e]]
    BY FiltersAre
  <2> QED BY <2>1 DEF Without, OthersStay
<1> HIDE DEF rest
<1>2. /\ \A a : a \in counted <=> /\ a \in H /\ Close(a, scope) /\ Matches(a, rest, at.recipient)
                                  /\ Carries(a, d, v)
      /\ \A a : a \in found <=> a \in H /\ Close(a, scope) /\ Matches(a, next, at.recipient)
  BY DEF BuildWhere
<1>3. \A a : Matches(a, rest, at.recipient) /\ Carries(a, d, v) => Matches(a, next, at.recipient)
  BY <1>1 DEF Matches, Passes
<1>4. ASSUME Alone(next, d, v)
      PROVE  \A a : Matches(a, next, at.recipient) =>
                       Matches(a, rest, at.recipient) /\ Carries(a, d, v)
  BY <1>1, <1>4 DEF Matches, Passes, Alone
<1>5. n = Cardinality(found) /\ c = IF d = "topic" THEN Cardinality(marked) ELSE Cardinality(counted)
  BY DEF Total, ChipCount, rest
<1>6. released \in SUBSET Awards /\ counted \in SUBSET released
  BY FoundIsHeld
<1>7. ASSUME d = "topic"
      PROVE  IsFiniteSet(marked) /\ [m \in marked |-> m[1]] \in Surjection(marked, counted)
  <2> HIDE DEF released
  <2>1. IsFiniteSet(Labels(released))
    BY <1>6, LabelsAreFinite
  <2>2. IsFiniteSet(marked)
    <3>1. marked \in SUBSET Labels(released)
      OBVIOUS
    <3> HIDE DEF marked
    <3> QED BY <2>1, <3>1, FS_Subset
  <2>3. \A a \in released : Carries(a, d, v) <=> \E i \in DOMAIN a.tags : a.tags[i] = v
    BY <1>7 DEF Carries
  <2>4. ASSUME NEW m \in marked PROVE m[1] \in counted
    <3>1. PICK a \in released : m \in {a} \X DOMAIN a.tags
      BY DEF Labels
    <3>2. m[1] = a /\ m[2] \in DOMAIN a.tags /\ a.tags[m[2]] = v
      BY <3>1
    <3> QED BY <2>3, <3>2
  <2>5. ASSUME NEW a \in counted PROVE \E m \in marked : m[1] = a
    <3>1. PICK i \in DOMAIN a.tags : a.tags[i] = v
      BY <2>3
    <3>2. <<a, i>> \in {a} \X DOMAIN a.tags /\ a \in released
      OBVIOUS
    <3>3. <<a, i>> \in marked
      BY <3>1, <3>2 DEF Labels
    <3> QED BY <3>3
  <2> HIDE DEF marked, counted
  <2> QED BY <2>2, <2>4, <2>5 DEF Surjection
<1> HIDE DEF released, counted, found, marked
<1>8. found \in SUBSET Awards /\ counted \in SUBSET found
  BY <1>2, <1>3
<1>9. /\ Cardinality(counted) <= Cardinality(found)
      /\ Cardinality(found) \in Nat /\ Cardinality(counted) \in Nat
  BY <1>8, FewerAwards, SomeAwards
<1>10. Alone(next, d, v) => Cardinality(found) = Cardinality(counted)
  BY <1>2, <1>4, <1>8
<1>11. CASE d # "topic"
  BY <1>5, <1>9, <1>10, <1>11
<1>12. CASE d = "topic"
  <2>1. IsFiniteSet(marked) /\ [m \in marked |-> m[1]] \in Surjection(marked, counted)
    BY <1>7, <1>12
  <2>2. Cardinality(counted) <= Cardinality(marked) /\ Cardinality(marked) \in Nat
    BY <2>1, FS_Surjection, FS_CardinalityType
  <2>3. ASSUME Cardinality(marked) > 0 PROVE Cardinality(found) > 0
    <3>1. PICK m \in marked : TRUE
      BY <2>1, <2>3, FS_EmptySet
    <3>2. m[1] \in counted
      BY <2>1 DEF Surjection
    <3>3. IsFiniteSet(found) /\ found # {}
      BY <1>8, <3>2, SomeAwards
    <3> QED BY <1>9, <3>3, FS_EmptySet
  <2> QED BY <1>5, <1>9, <1>10, <1>12, <2>2, <2>3
<1> QED BY <1>11, <1>12

LEMMA FollowChipKeeps == ASSUME SearchInv, FollowChip PROVE SearchInv'
<1>1. page.at = "shown" /\ asked \in Addresses /\ held \in SUBSET Awards /\ walks \in Nat
  BY AwardsAre DEF FollowChip, SearchInv, SearchTypeOK
<1>2. PICK d \in Dimensions : \E o \in page.offered[d] :
        LET next == Toggle(asked.filters, d, o[1])
        IN Ask([asked EXCEPT !.filters = next],
               IF o[1] \in next[d]
               THEN [count |-> o[2], walk |-> page.walk, topic |-> d = "topic",
                     alone |-> d # "place" /\ next[d] = {o[1]}]
               ELSE NoPick)
  BY DEF FollowChip
<1>3. PICK o \in page.offered[d] :
        LET next == Toggle(asked.filters, d, o[1])
        IN Ask([asked EXCEPT !.filters = next],
               IF o[1] \in next[d]
               THEN [count |-> o[2], walk |-> page.walk, topic |-> d = "topic",
                     alone |-> d # "place" /\ next[d] = {o[1]}]
               ELSE NoPick)
  BY <1>2
<1> DEFINE v == o[1]
           next == Toggle(asked.filters, d, v)
           address == [asked EXCEPT !.filters = next]
           chip == [count |-> o[2], walk |-> page.walk, topic |-> d = "topic",
                    alone |-> d # "place" /\ next[d] = {v}]
           pickNow == IF v \in next[d] THEN chip ELSE NoPick
<1>4. v \notin asked.filters[d] =>
        /\ v \in Values[d] /\ o[2] \in Nat /\ o[2] > 0
        /\ page.walk = walks => o[2] = ChipCount(held, page.scope, asked, d, v)
  BY <1>1, <1>3 DEF SearchInv, ChipsAreCounted
<1>5. Ask(address, pickNow)
  BY <1>3
<1> HIDE DEF v
<1>6. /\ address \in Addresses
      /\ v \in next[d] => v \notin asked.filters[d]
      /\ OthersStay(next, asked.filters, d)
  BY <1>4, Toggled
<1>7. address.words = asked.words /\ address.filters = next /\ address.recipient = asked.recipient
  BY <1>1, AddressIs
<1> HIDE DEF next, address
<1>8. /\ chip.count = o[2] /\ chip.walk = page.walk /\ chip.topic = (d = "topic")
      /\ chip.alone = Alone(next, d, v)
  BY DEF Alone
<1> HIDE DEF chip
<1>9. ASSUME v \in next[d]
      PROVE  /\ chip.walk \in 0 .. walks /\ chip.count \in Nat
             /\ chip.walk = walks => Promised(chip, held, address)
  <2>1. page.walk \in 0 .. walks
    BY DEF SearchInv, PageIsWhole
  <2>2. o[2] \in Nat /\ o[2] > 0
    BY <1>4, <1>6, <1>9
  <2>3. ASSUME page.walk = walks PROVE Promised(chip, held, address)
    <3>1. page.scope = TextSearch(held, asked.words)
      BY <1>1, <2>3 DEF SearchInv, PageIsOne, Reading
    <3>2. o[2] = ChipCount(held, page.scope, asked, d, v)
      BY <1>4, <1>6, <1>9, <2>3
    <3>3. asked.filters \in FilterSets
      BY <1>1, AddressIs
    <3> DEFINE n == Total(held, page.scope, next, asked.recipient)
    <3>4. (o[2] > 0 => n > 0) /\ (d # "topic" => n >= o[2]) /\ (Alone(next, d, v) => n <= o[2])
      BY <1>1, <1>6, <1>9, <3>2, <3>3, ChipLeads
    <3>5. n > 0 /\ (chip.topic \/ n >= chip.count) /\ (chip.alone => n <= chip.count)
      BY <1>8, <2>2, <3>4
    <3>6. n = Total(held, TextSearch(held, address.words), address.filters, address.recipient)
      BY <1>7, <3>1
    <3> HIDE DEF n
    <3> QED BY <3>5, <3>6 DEF Promised
  <2> QED BY <1>8, <2>1, <2>2, <2>3
<1>10. pickNow # NoPick =>
         /\ pickNow.walk \in 0 .. walks /\ pickNow.count \in Nat
         /\ pickNow.walk = walks => Promised(pickNow, held, address)
  BY <1>9
<1> HIDE DEF pickNow
<1> QED BY <1>5, <1>6, <1>10, AskKeeps

LEMMA FollowAskChipKeeps == ASSUME SearchInv, FollowAskChip PROVE SearchInv'
<1> DEFINE w == IF asked.filters["amount"] = AskBands THEN {} ELSE AskBands
<1>0. asked \in Addresses
  BY DEF SearchInv, SearchTypeOK
<1>1. /\ asked = [words |-> asked.words, filters |-> asked.filters, recipient |-> asked.recipient]
      /\ asked.filters \in FilterSets /\ Cardinality(asked.filters["since"]) <= 1
      /\ \A d \in Dimensions : Cardinality(asked.filters[d]) <= MaxValues
  BY <1>0, AddressIs
<1>2. Ask([asked EXCEPT !.filters = [asked.filters EXCEPT !["amount"] = w]], NoPick)
  <2>1. Ask([asked EXCEPT !.filters["amount"] = w], NoPick)
    BY DEF FollowAskChip
  <2>2. [asked EXCEPT !.filters["amount"] = w]
          = [asked EXCEPT !.filters = [asked.filters EXCEPT !["amount"] = w]]
    BY <1>1
  <2> QED BY <2>1, <2>2
<1>3. w \subseteq MayHold("amount") /\ Cardinality(w) <= MaxValues
  BY SearchAssumption, AwardsAre, FS_EmptySet DEF MayHold
<1> HIDE DEF w
<1>4. [asked EXCEPT !.filters = [asked.filters EXCEPT !["amount"] = w]] \in Addresses
  BY <1>1, <1>3, PutKeeps DEF Dimensions
<1> QED BY <1>2, <1>4, AskKeeps

LEMMA ClearFiltersKeeps == ASSUME SearchInv, ClearFilters PROVE SearchInv'
<1>1. asked \in Addresses /\ Ask([asked EXCEPT !.filters = NoFilters], NoPick)
  BY DEF ClearFilters, SearchInv, SearchTypeOK
<1>2. [asked EXCEPT !.filters = NoFilters]
        = [words |-> asked.words, filters |-> NoFilters, recipient |-> asked.recipient]
  BY <1>1, AddressIs
<1>3. [words |-> asked.words, filters |-> NoFilters, recipient |-> asked.recipient] \in Addresses
  BY <1>1, AddressIs, NoneChosen, AwardsAre, AddressOf DEF Dimensions
<1> QED BY <1>1, <1>2, <1>3, AskKeeps

LEMMA ScopeToRecipientKeeps == ASSUME SearchInv, ScopeToRecipient PROVE SearchInv'
<1>1. asked \in Addresses
  BY DEF SearchInv, SearchTypeOK
<1>2. PICK a \in Awards :
        Ask([words |-> asked.words, filters |-> NoFilters, recipient |-> a.recipient], NoPick)
  BY DEF ScopeToRecipient
<1>3. [words |-> asked.words, filters |-> NoFilters, recipient |-> a.recipient] \in Addresses
  BY <1>1, AddressIs, NoneChosen, AwardsAre, AddressOf DEF Dimensions
<1> QED BY <1>2, <1>3, AskKeeps

LEMMA UnscopeKeeps == ASSUME SearchInv, Unscope PROVE SearchInv'
<1>1. asked \in Addresses /\ Ask([asked EXCEPT !.recipient = Anyone], NoPick)
  BY DEF Unscope, SearchInv, SearchTypeOK
<1>2. [asked EXCEPT !.recipient = Anyone]
        = [words |-> asked.words, filters |-> asked.filters, recipient |-> Anyone]
  BY <1>1, AddressIs
<1>3. [words |-> asked.words, filters |-> asked.filters, recipient |-> Anyone] \in Addresses
  BY <1>1, AddressIs, AddressOf
<1> QED BY <1>1, <1>2, <1>3, AskKeeps

LEMMA NextSearch == ASSUME SearchInv, [SearchNext]_searchVars PROVE SearchInv'
<1>1. CASE UNCHANGED searchVars
  BY <1>1
  DEF searchVars, SearchInv, SearchTypeOK, PageIsWhole, PageIsOne, ChipsAreCounted, PickIsKept,
      ChosenStaysOffered, FoundNow
<1>2. CASE ReplaceShelf
  BY <1>2, ReplaceShelfKeeps
<1>3. CASE WeighWords
  BY <1>3, WeighWordsKeeps
<1>4. CASE SearchAwards
  BY <1>4, SearchAwardsKeeps
<1>5. CASE FacetsFor
  BY <1>5, FacetsForKeeps
<1>6. CASE FunderSummaries
  BY <1>6, FunderSummariesKeeps
<1>7. CASE ReadFails
  <2>1. page' = [Unread EXCEPT !.at = "failed"] /\ UNCHANGED <<held, walks, asked, pick>>
    BY <1>7 DEF ReadFails
  <2> QED BY <2>1, SilentKeeps
<1>8. CASE TypeWords
  BY <1>8, TypeWordsKeeps
<1>9. CASE FollowLink
  BY <1>9, FollowLinkKeeps
<1>10. CASE FollowChip
  BY <1>10, FollowChipKeeps
<1>11. CASE FollowAskChip
  BY <1>11, FollowAskChipKeeps
<1>12. CASE ClearFilters
  BY <1>12, ClearFiltersKeeps
<1>13. CASE ScopeToRecipient
  BY <1>13, ScopeToRecipientKeeps
<1>14. CASE Unscope
  BY <1>14, UnscopeKeeps
<1> QED
  BY <1>1, <1>2, <1>3, <1>4, <1>5, <1>6, <1>7, <1>8, <1>9, <1>10, <1>11, <1>12, <1>13, <1>14
  DEF SearchNext

-----------------------------------------------------------------------------
\* What a word is worth is a positive number, and some award ranks best on it.
LEMMA WordsWeigh ==
    ASSUME NEW H \in SUBSET Awards, NEW words \in Queries
    PROVE  /\ IsFiniteSet(TextSearch(H, words))
           /\ \A t \in TextSearch(H, words) :
                /\ t.rarity \in Nat /\ t.best \in Nat /\ t.best > 0
                /\ \E a \in H : a.ranks[t.word] = t.best
                /\ \A a \in H : a.ranks[t.word] \in Nat
<1> DEFINE W == {x \in words : Carrying(H, x) # {}}
           weigh == [w \in W |-> [word |-> w, best |-> Max({a.ranks[w] : a \in H}),
                                  rarity |-> Rarity(H, w)]]
<1>1. TextSearch(H, words) = {weigh[w] : w \in W} /\ weigh = [w \in W |-> weigh[w]]
  BY DEF TextSearch
<1>2. IsFiniteSet(words) /\ \A w \in words : \A a \in Awards : a.ranks[w] \in Nat
  BY SearchAssumption
<1>3. IsFiniteSet(W)
  BY <1>2, FS_Subset
<1>4. IsFiniteSet(TextSearch(H, words))
  <2> HIDE DEF W, weigh
  <2>1. IsFiniteSet({weigh[w] : w \in W})
    BY <1>1, <1>3, ImageIsFinite
  <2> QED BY <1>1, <2>1
<1>5. ASSUME NEW w \in W
      PROVE  /\ weigh[w].word = w /\ weigh[w].rarity \in Nat
             /\ weigh[w].best \in Nat /\ weigh[w].best > 0
             /\ \E a \in H : a.ranks[w] = weigh[w].best
             /\ \A a \in H : a.ranks[w] \in Nat
  <2> DEFINE rank == [a \in H |-> a.ranks[w]]
  <2>1. /\ weigh[w].word = w /\ weigh[w].best = Max({a.ranks[w] : a \in H})
        /\ weigh[w].rarity = Rarity(H, w)
    OBVIOUS
  <2>2. \A a \in H : a.ranks[w] \in Nat /\ rank[a] = a.ranks[w]
    BY <1>2
  <2>3. PICK c \in H : c.ranks[w] > 0
    BY DEF Carrying
  <2>4. IsFiniteSet(H) /\ Cardinality(H) \in Nat /\ Cardinality(Carrying(H, w)) \in Nat
    BY SomeAwards DEF Carrying
  <2> HIDE DEF W, weigh, rank
  <2>5. PICK a \in H : \A b \in H : rank[b] <= rank[a]
    BY <2>2, <2>3, <2>4, HeaviestMember
  <2>6. \A b \in H : b.ranks[w] <= a.ranks[w]
    BY <2>2, <2>5
  <2>7. Max({b.ranks[w] : b \in H}) = a.ranks[w]
    <3> DEFINE S == {b.ranks[w] : b \in H}
    <3>1. a.ranks[w] \in S /\ S \subseteq Nat /\ \A y \in S : a.ranks[w] >= y
      BY <2>2, <2>6
    <3> HIDE DEF S
    <3>2. Max(S) \in S /\ \A y \in S : Max(S) >= y
      BY <3>1 DEF Max
    <3>3. \A m, n \in Nat : m >= n /\ n >= m => m = n
      OBVIOUS
    <3> QED BY <3>1, <3>2, <3>3 DEF S
  <2>8. a.ranks[w] \in Nat /\ a.ranks[w] > 0
    BY <2>2, <2>3, <2>6
  <2>9. Rarity(H, w) \in Nat
    <3>1. \A m, n \in Nat : 100 + (100 * m) \div (1 + n) \in Nat
      OBVIOUS
    <3> QED BY <2>4, <3>1 DEF Rarity
  <2> QED BY <2>1, <2>2, <2>7, <2>8, <2>9
<1> HIDE DEF W, weigh
<1>6. \A t \in TextSearch(H, words) : \E w \in W : t = weigh[w]
  BY <1>1
<1> QED BY <1>4, <1>5, <1>6

\* A rank taken out of the best one, weighed, is a number, and the best rank
\* is worth all its word can give.
LEMMA RankOutOfBest ==
    \A r, n, b \in Nat : b > 0 => (r * n) \div b \in Nat /\ (r * b) \div b = r
<1> SUFFICES ASSUME NEW r \in Nat, NEW n \in Nat, NEW b \in Nat, b > 0
             PROVE  (r * n) \div b \in Nat /\ (r * b) \div b = r
  OBVIOUS
<1>1. \A m \in Nat : m \div b \in Nat
  OBVIOUS
<1>2. r * n \in Nat
  OBVIOUS
<1>3. (r * b) \div b = r
  OBVIOUS
<1> QED BY <1>1, <1>2, <1>3

\* Of four words that occur, the rarest alone carries an award that ranks best
\* on it over the floor.
LEMMA OneIsClose ==
    ASSUME NEW H \in SUBSET Awards, NEW words \in Queries, NEW scope,
           scope = TextSearch(H, words), Cardinality(scope) \in 1 .. 4
    PROVE  \E a \in H : Close(a, scope)
<1> DEFINE rarity == [t \in scope |-> t.rarity]
<1>1. /\ IsFiniteSet(scope)
      /\ \A t \in scope : /\ t.rarity \in Nat /\ t.best \in Nat /\ t.best > 0
                          /\ \E a \in H : a.ranks[t.word] = t.best
                          /\ \A a \in H : a.ranks[t.word] \in Nat
  BY WordsWeigh
<1>2. scope # {}
  BY FS_EmptySet
<1>3. \A t \in scope : rarity[t] = t.rarity /\ rarity[t] \in Nat
  BY <1>1
<1> HIDE DEF rarity
<1>4. PICK s \in scope : \A t \in scope : rarity[t] <= rarity[s]
  BY <1>1, <1>2, <1>3, HeaviestMember
<1>5. rarity[s] = s.rarity /\ s.rarity \in Nat
  BY <1>3
<1>6. SumOver(rarity, scope) <= Cardinality(scope) * s.rarity /\ SumOver(rarity, scope) \in Nat
  BY <1>1, <1>3, <1>4, <1>5, SumAtMost, SumType
<1>7. PICK a \in H : a.ranks[s.word] = s.best
  BY <1>1
<1> DEFINE gain == [t \in scope |-> (t.rarity * a.ranks[t.word]) \div t.best]
<1>8. \A t \in scope : gain[t] \in Nat
  <2> TAKE t \in scope
  <2>1. t.rarity \in Nat /\ a.ranks[t.word] \in Nat /\ t.best \in Nat /\ t.best > 0
    BY <1>1
  <2>2. gain[t] = (t.rarity * a.ranks[t.word]) \div t.best
    OBVIOUS
  <2>3. (t.rarity * a.ranks[t.word]) \div t.best \in Nat
    BY <2>1, RankOutOfBest, Zenon
  <2> HIDE DEF gain
  <2> QED BY <2>2, <2>3
<1>9. gain[s] = s.rarity
  <2>1. gain[s] = (s.rarity * s.best) \div s.best /\ s.best \in Nat /\ s.best > 0
    BY <1>1, <1>7
  <2>2. (s.rarity * s.best) \div s.best = s.rarity
    BY <1>5, <2>1, RankOutOfBest, Zenon
  <2> HIDE DEF gain
  <2> QED BY <2>1, <2>2
<1>10. Score(a, scope) = SumOver(gain, scope) /\ Achievable(scope) = SumOver(rarity, scope)
  BY DEF Score, Achievable, rarity
<1> HIDE DEF gain
<1>11. Score(a, scope) >= s.rarity /\ Score(a, scope) \in Nat
  BY <1>1, <1>5, <1>8, <1>9, <1>10, SumOfMember, SumType
<1>12. 4 * Score(a, scope) >= Achievable(scope)
  <2>1. \A c \in 1 .. 4 : \A r \in Nat : c * r <= 4 * r
    OBVIOUS
  <2>2. Cardinality(scope) * s.rarity <= 4 * s.rarity /\ Cardinality(scope) * s.rarity \in Nat
    BY <1>5, <2>1
  <2>3. \A x, y, z, r \in Nat : x <= y /\ y <= 4 * r /\ z >= r => 4 * z >= x
    OBVIOUS
  <2> QED BY <1>5, <1>6, <1>10, <1>11, <2>2, <2>3
<1> QED BY <1>2, <1>12 DEF Close

LEMMA SearchFinds == ASSUME SearchInv PROVE WordsThatOccurFind
<1> SUFFICES ASSUME page.at = "shown", page.walk = walks, Cardinality(page.scope) \in 1 .. 4,
                    asked.filters = NoFilters, asked.recipient = Anyone
             PROVE  page.list # {}
  BY DEF WordsThatOccurFind
<1>1. /\ page.scope = TextSearch(held, asked.words)
      /\ Cardinality(page.list) = IF Cardinality(FoundNow) < ListLimit
                                  THEN Cardinality(FoundNow) ELSE ListLimit
  BY DEF SearchInv, PageIsOne, Reading
<1>2. held \in SUBSET Awards /\ asked.words \in Queries
  BY AddressIs DEF SearchInv, SearchTypeOK
<1>3. PICK a \in held : Close(a, page.scope)
  BY <1>1, <1>2, OneIsClose
<1>4. Matches(a, NoFilters, Anyone)
  BY NoneChosen DEF Matches
<1>5. a \in FoundNow /\ FoundNow \in SUBSET Awards
  BY <1>2, <1>3, <1>4, FoundIsHeld DEF BuildWhere, FoundNow
<1>6. Cardinality(FoundNow) # 0
  BY <1>5, SomeAwards, FS_EmptySet
<1>7. Cardinality(page.list) # 0
  BY <1>1, <1>6, AwardsAre
<1> QED BY <1>7, FS_EmptySet

LEMMA SearchKeepsCounts == ASSUME SearchInv PROVE CountsAreKept
<1> SUFFICES ASSUME page.at \in {"counted", "shown"}, pick # NoPick, pick.walk = walks
             PROVE  /\ page.total > 0
                    /\ pick.topic \/ page.total >= pick.count
                    /\ pick.alone => page.total <= pick.count
  BY DEF CountsAreKept
<1>1. page.walk \in 0 .. walks /\ pick.walk <= page.walk /\ walks \in Nat
  BY AwardsAre DEF SearchInv, SearchTypeOK, PageIsWhole, PickIsKept, Reading
<1>2. page.walk = walks
  BY <1>1
<1>3. page.total = Total(held, TextSearch(held, asked.words), asked.filters, asked.recipient)
  BY <1>2 DEF SearchInv, PageIsOne, Reading, Total, FoundNow
<1> QED BY <1>3 DEF SearchInv, PickIsKept, Promised

LEMMA SearchIsOne == ASSUME SearchInv PROVE OneQuestion
<1> SUFFICES ASSUME page.at = "shown", page.walk = walks
             PROVE  OneQuestion
  BY DEF OneQuestion
<1>1. /\ page.list \subseteq FoundNow /\ page.total = Cardinality(FoundNow)
      /\ Cardinality(page.list) = IF page.total < ListLimit THEN page.total ELSE ListLimit
      /\ RowsHold(page.funders, FoundNow)
      /\ asked.recipient # Anyone => page.total <= page.scoped
  BY DEF SearchInv, PageIsOne
<1>2. FoundNow \in SUBSET Awards
  BY FoundIsHeld DEF FoundNow, SearchInv, SearchTypeOK
<1>3. ASSUME NEW f \in DOMAIN page.funders
      PROVE  Cardinality({a \in page.list : a.funder = f}) <= page.funders[f]
  <2> DEFINE S == {a \in FoundNow : a.funder = f}
             T == {a \in page.list : a.funder = f}
  <2>1. S \in SUBSET Awards /\ T \in SUBSET S /\ page.funders[f] = Cardinality(S)
    BY <1>1, <1>2 DEF RowsHold
  <2> HIDE DEF S, T
  <2>2. Cardinality(T) <= Cardinality(S)
    BY <2>1, FewerAwards
  <2> QED BY <2>1, <2>2 DEF T
<1> QED BY <1>1, <1>3 DEF OneQuestion, RowsHold

(* A chip leads to something and, a topic aside, to no less than its number, *)
(* and to no more when it is alone; a filter in force can be taken off; list, *)
(* numbers and groups answer one question within their limits; and up to     *)
(* four words that occur find something.                                     *)
THEOREM SpecSearchIsHonest == SearchSpec => []SearchIsHonest
<1>1. SearchInit => SearchInv
  BY InitSearch
<1>2. SearchInv /\ [SearchNext]_searchVars => SearchInv'
  BY NextSearch
<1>3. SearchInv => SearchIsHonest
  <2> SUFFICES ASSUME SearchInv PROVE SearchIsHonest
    OBVIOUS
  <2>1. CountsAreKept /\ WordsThatOccurFind
    BY SearchKeepsCounts, SearchFinds
  <2>2. ChosenStaysOffered /\ OneQuestion
    BY SearchIsOne DEF SearchInv
  <2> QED BY <2>1, <2>2 DEF SearchIsHonest
<1> QED BY <1>1, <1>2, <1>3, PTL DEF SearchSpec

-----------------------------------------------------------------------------
(* How ready an application is (Readiness).  The invariant is that what is   *)
(* stored keeps its type and the form its bound; the percentage is worked    *)
(* out of it at every page load, and the proofs are about that sum: what     *)
(* rounds to a hundred, and how a mean moves when a mark rises, a complete   *)
(* part joins it or an empty one leaves.                                     *)

\* What a division gives back, and what is no more than a quotient.
LEMMA Divides ==
    /\ \A x, y \in Nat : y > 0 => /\ x \div y \in Nat /\ (x \div y) * y <= x
                                  /\ x < (x \div y) * y + y
    /\ \A x, y, p \in Nat : y > 0 /\ p * y <= x => p <= x \div y
<1>1. ASSUME NEW x \in Nat, NEW y \in Nat, y > 0
      PROVE  x \div y \in Nat /\ (x \div y) * y <= x /\ x < (x \div y) * y + y
  BY <1>1
<1>2. ASSUME NEW x \in Nat, NEW y \in Nat, NEW p \in Nat, y > 0, p * y <= x
      PROVE  p <= x \div y
  <2>1. x \div y \in Nat /\ x < (x \div y) * y + y
    BY <1>1, <1>2
  <2>2. \A q \in Nat : p > q => p * y >= q * y + y
    <3> SUFFICES ASSUME NEW q \in Nat, p > q PROVE p * y >= q * y + y
      OBVIOUS
    <3>1. PICK d \in Nat : p = q + 1 + d
      <4>1. p - q - 1 \in Nat /\ p = q + 1 + (p - q - 1)
        OBVIOUS
      <4> QED BY <4>1
    <3>2. p * y = q * y + y + d * y /\ d * y \in Nat
      BY <3>1
    <3> QED BY <3>2
  <2>3. ~(p > x \div y)
    <3>1. \A q \in Nat : q * y \in Nat /\ p * y \in Nat
      OBVIOUS
    <3> QED BY <1>2, <2>1, <2>2, <3>1
  <2> QED BY <2>1, <2>3
<1> QED BY <1>1, <1>2

\* A percentage of a whole: within a hundred, and a hundred only of 99.5.
LEMMA RoundedIs ==
    ASSUME NEW s \in Nat, NEW t \in Nat, t > 0, s <= t
    PROVE  /\ Rounded(s, t) \in 0 .. 100
           /\ Rounded(s, t) = 100 => 200 * s >= 199 * t
<1> DEFINE p == (200 * s + t) \div (2 * t)
<1>1. p \in Nat /\ p * (2 * t) <= 200 * s + t
  BY Divides
<1>2. Rounded(s, t) = p
  BY DEF Rounded
<1> HIDE DEF p
<1>3. p * (2 * t) <= 201 * t
  BY <1>1
<1>4. ~(p >= 101)
  <2> SUFFICES ASSUME p >= 101 PROVE FALSE
    OBVIOUS
  <2>1. PICK d \in Nat : p = 101 + d
    <3>1. p - 101 \in Nat /\ p = 101 + (p - 101)
      BY <1>1
    <3> QED BY <3>1
  <2>2. p * (2 * t) = 202 * t + d * (2 * t) /\ d * (2 * t) \in Nat
    BY <2>1
  <2> QED BY <1>3, <2>2
<1> QED BY <1>1, <1>2, <1>4

\* A percentage grows with what is done.
LEMMA RoundedGrows ==
    ASSUME NEW s \in Nat, NEW r \in Nat, NEW t \in Nat, t > 0, s <= r
    PROVE  Rounded(s, t) <= Rounded(r, t)
<1> DEFINE p == (200 * s + t) \div (2 * t)
<1>1. p \in Nat /\ p * (2 * t) <= 200 * s + t
  BY Divides
<1>2. Rounded(s, t) = p
  BY DEF Rounded
<1> HIDE DEF p
<1>3. p * (2 * t) <= 200 * r + t /\ 2 * t \in Nat /\ 2 * t > 0 /\ 200 * r + t \in Nat
  <2>1. p * (2 * t) \in Nat
    BY <1>1
  <2> QED BY <1>1, <2>1
<1>4. p <= (200 * r + t) \div (2 * t)
  BY <1>1, <1>3, Divides
<1> QED BY <1>2, <1>4 DEF Rounded

\* It grows with one more part that is complete, and with one less that is empty.
LEMMA RoundedGains ==
    ASSUME NEW s \in Nat, NEW t \in Nat, NEW w \in Nat, t > 0, w > 0, s <= t
    PROVE  Rounded(s, t) <= Rounded(s + w, t + w) /\ Rounded(s, t + w) <= Rounded(s, t)
<1>1. ASSUME NEW p \in 0 .. 100, p * (2 * t) <= 200 * s + t
      PROVE  p * (2 * (t + w)) <= 200 * (s + w) + (t + w)
  <2>1. p * (2 * (t + w)) = p * (2 * t) + p * (2 * w) /\ p * (2 * t) \in Nat
    OBVIOUS
  <2>2. p * (2 * w) <= 200 * w
    OBVIOUS
  <2>3. p * (2 * w) \in Nat
    OBVIOUS
  <2> QED BY <1>1, <2>1, <2>2, <2>3
<1>2. Rounded(s, t) <= Rounded(s + w, t + w)
  <2>1. (200 * s + t) \div (2 * t) \in 0 .. 100
    BY RoundedIs DEF Rounded
  <2>2. ((200 * s + t) \div (2 * t)) * (2 * t) <= 200 * s + t
    BY Divides
  <2> DEFINE p == (200 * s + t) \div (2 * t)
  <2>3. p \in 0 .. 100 /\ p * (2 * t) <= 200 * s + t
    BY <2>1, <2>2
  <2> HIDE DEF p
  <2>4. p * (2 * (t + w)) <= 200 * (s + w) + (t + w)
    BY <1>1, <2>3
  <2>5. p <= (200 * (s + w) + (t + w)) \div (2 * (t + w))
    <3>1. 2 * (t + w) \in Nat /\ 2 * (t + w) > 0 /\ 200 * (s + w) + (t + w) \in Nat /\ p \in Nat
      BY <2>3
    <3> QED BY <2>4, <3>1, Divides
  <2> QED BY <2>5 DEF Rounded, p
<1>3. Rounded(s, t + w) <= Rounded(s, t)
  <2> DEFINE p == (200 * s + (t + w)) \div (2 * (t + w))
  <2>1. p \in Nat /\ p * (2 * (t + w)) <= 200 * s + (t + w)
    <3>1. 2 * (t + w) \in Nat /\ 2 * (t + w) > 0 /\ 200 * s + (t + w) \in Nat
      OBVIOUS
    <3> QED BY <3>1, Divides
  <2> HIDE DEF p
  <2>2. p * (2 * (t + w)) = p * (2 * t) + p * (2 * w) /\ p * (2 * t) \in Nat /\ p * (2 * w) \in Nat
    BY <2>1
  <2>3. p = 0 \/ p * (2 * w) >= 2 * w
    BY <2>1
  <2>4. p * (2 * t) <= 200 * s + t
    BY <2>1, <2>2, <2>3
  <2>5. p <= (200 * s + t) \div (2 * t)
    BY <2>1, <2>4, Divides
  <2> QED BY <2>5 DEF Rounded, p
<1> QED BY <1>2, <1>3

-----------------------------------------------------------------------------
(* What is stored keeps its type, and the form its bound. *)
Stored ==
    /\ lines \subseteq Lines /\ outcomes \in 0 .. MaxOutcomes
    /\ sheet \in [Questions -> Answers] /\ Questions = 1 .. Cardinality(Questions)
    /\ Cardinality(Questions) \in 0 .. MaxSheet
    /\ rules \in Rules /\ standing \in Standings /\ requested \in Sums \cup {NoSum}

\* The bounds are numbers.
LEMMA ReadyBounds ==
    /\ MaxLines \in Nat /\ MaxOutcomes \in Nat /\ MaxSheet \in Nat /\ Whole \in Nat /\ Whole > 0
    /\ NoSum \notin Nat /\ NoScore \notin Nat
    /\ Whole \div 2 \in 0 .. Whole /\ 40 * (Whole - Whole \div 2) > Whole
<1>1. {MaxLines, MaxOutcomes, MaxSheet, Whole} \subseteq Nat /\ Whole > 0
      /\ NoSum \notin Nat /\ NoScore \notin Nat
  BY ReadinessAssumption
<1>2. \A n \in Nat : n > 0 => n \div 2 \in 0 .. n /\ 40 * (n - n \div 2) > n
  OBVIOUS
<1> QED BY <1>1, <1>2

\* The form is finite, and the answered questions are some of it.
LEMMA SheetIs ==
    ASSUME Stored
    PROVE  /\ IsFiniteSet(Questions) /\ Cardinality(Questions) \in 0 .. MaxSheet
           /\ Answered \subseteq Questions /\ IsFiniteSet(Answered)
           /\ Cardinality(Answered) \in 0 .. Cardinality(Questions)
           /\ Cardinality(Questions \ Answered) = Cardinality(Questions) - Cardinality(Answered)
           /\ (Questions = {} <=> Cardinality(Questions) = 0)
           /\ (Answered = {} <=> Cardinality(Answered) = 0)
           /\ (Questions \ Answered = {} <=> Cardinality(Questions) = Cardinality(Answered))
<1>1. Questions = 1 .. Cardinality(Questions) /\ Cardinality(Questions) \in 0 .. MaxSheet
  BY DEF Stored
<1>2. IsFiniteSet(Questions)
  <2>1. Cardinality(Questions) \in Int
    BY <1>1
  <2> QED BY <1>1, <2>1, FS_Interval
<1>3. Answered \subseteq Questions
  BY DEF Answered
<1>4. /\ IsFiniteSet(Answered) /\ Cardinality(Answered) <= Cardinality(Questions)
      /\ Cardinality(Answered) \in Nat
  BY <1>2, <1>3, FS_Subset, FS_CardinalityType
<1>5. Cardinality(Questions \ Answered) = Cardinality(Questions) - Cardinality(Answered)
  <2>1. /\ Cardinality(Questions \ Answered)
              = Cardinality(Questions) - Cardinality(Questions \cap Answered)
    BY <1>2, FS_Difference
  <2>2. Questions \cap Answered = Answered
    BY <1>3
  <2> QED BY <2>1, <2>2
<1>6. IsFiniteSet(Questions \ Answered)
  BY <1>2, FS_Difference
<1>7. /\ (Questions = {} <=> Cardinality(Questions) = 0)
      /\ (Answered = {} <=> Cardinality(Answered) = 0)
      /\ (Questions \ Answered = {} <=> Cardinality(Questions \ Answered) = 0)
  BY <1>2, <1>4, <1>6, FS_EmptySet
<1> QED BY <1>1, <1>2, <1>3, <1>4, <1>5, <1>7

\* The share of a form that is answered, in parts of a whole, is exact.
LEMMA ShareIs ==
    ASSUME NEW n \in 1 .. MaxSheet, NEW k \in 0 .. n
    PROVE  /\ Ratio(k, n) \in 0 .. Whole /\ n * Ratio(k, n) = Whole * k
<1>0. Whole % n = 0
  BY ReadinessAssumption, Zenon
<1>1. Whole \in Nat /\ Whole > 0 /\ Whole % n = 0 /\ n \in Nat /\ n > 0 /\ n # 0
  BY <1>0, ReadyBounds
<1>2. PICK u \in Nat : Whole = n * u
  <2>1. Whole \div n \in Nat /\ Whole = n * (Whole \div n) + (Whole % n)
    BY <1>1
  <2> QED BY <1>1, <2>1
<1>3. Ratio(k, n) = (Whole * k) \div n
  BY <1>1 DEF Ratio
<1>4. (n * u * k) \div n = u * k
  <2>1. n * u * k = (u * k) * n /\ u * k \in Nat
    BY <1>1
  <2>2. \A x \in Nat : (x * n) \div n = x
    BY <1>1
  <2> QED BY <2>1, <2>2
<1>5. u * k <= u * n /\ u * k \in Nat /\ u * n = Whole
  <2>1. PICK d \in Nat : n = k + d
    <3>1. n - k \in Nat /\ n = k + (n - k)
      BY <1>1
    <3> QED BY <3>1
  <2>2. u * n = u * k + u * d /\ u * k \in Nat /\ u * d \in Nat
    BY <1>1, <2>1
  <2> QED BY <1>1, <1>2, <2>2
<1>6. Ratio(k, n) = u * k
  BY <1>2, <1>3, <1>4
<1>7. n * (u * k) = (n * u) * k
  BY <1>1
<1> QED BY <1>1, <1>2, <1>5, <1>6, <1>7

\* Each part is a share of the whole or does not apply.
Parts == {"eligibility", "questions", "budget", "outcomes", "compliance"}
LEMMA ScoresAre ==
    ASSUME Stored
    PROVE  /\ \A c \in Components : ScoreOf(c) \in 0 .. Whole \/ ScoreOf(c) = NoScore
           /\ Counted \subseteq Parts /\ {"questions", "budget", "outcomes"} \subseteq Counted
<1>1. EligibilityScore \in 0 .. Whole \/ EligibilityScore = NoScore
  BY ReadyBounds DEF EligibilityScore, Stored, Standings, Verdicts
<1>2. QuestionsScore \in 0 .. Whole
  BY ReadyBounds, SheetIs, ShareIs DEF QuestionsScore
<1>3. BudgetScore \in 0 .. Whole
  BY ReadyBounds DEF BudgetScore
<1>4. ComplianceScore \in 0 .. Whole \/ ComplianceScore = NoScore
  BY ReadyBounds DEF ComplianceScore
<1>5. /\ ScoreOf("eligibility") = EligibilityScore /\ ScoreOf("questions") = QuestionsScore
      /\ ScoreOf("budget") = BudgetScore /\ ScoreOf("outcomes") \in {0, Whole}
      /\ ScoreOf("compliance") = ComplianceScore
      /\ ScoreOf("evidence") = NoScore /\ ScoreOf("attachments") = NoScore
  BY DEF ScoreOf, Ratio
<1>6. NoScore \notin 0 .. Whole
  BY ReadyBounds
<1> QED BY <1>1, <1>2, <1>3, <1>4, <1>5, <1>6, ReadyBounds DEF Components, Counted, Parts

\* The percentage is that of three to five parts, and no part is worth more
\* than a whole.
Marks == [c \in Counted |-> ScoreOf(c)]
LEMMA PercentIs ==
    ASSUME Stored
    PROVE  /\ IsFiniteSet(Counted) /\ Cardinality(Counted) \in 3 .. 5
           /\ \A c \in Counted : Marks[c] = ScoreOf(c) /\ Marks[c] \in 0 .. Whole
           /\ SumOver(Marks, Counted) \in 0 .. Whole * Cardinality(Counted)
           /\ Percent = Rounded(SumOver(Marks, Counted), Whole * Cardinality(Counted))
           /\ Whole * Cardinality(Counted) \in Nat /\ Whole * Cardinality(Counted) > 0
<1>1. Counted \subseteq Parts /\ {"questions", "budget", "outcomes"} \subseteq Counted
      /\ \A c \in Counted : ScoreOf(c) \in 0 .. Whole
  BY ScoresAre DEF Counted
<1>2. IsFiniteSet(Counted) /\ Cardinality(Counted) \in 3 .. 5
  <2>1. IsFiniteSet({"questions", "budget", "outcomes"}) /\ Cardinality({"questions", "budget", "outcomes"}) = 3
    <3>1. IsFiniteSet({"questions"}) /\ Cardinality({"questions"}) = 1
      BY FS_Singleton
    <3>2. /\ IsFiniteSet({"questions"} \cup {"budget"})
          /\ Cardinality({"questions"} \cup {"budget"}) = 2
      BY <3>1, FS_AddElement
    <3>3. /\ IsFiniteSet({"questions"} \cup {"budget"} \cup {"outcomes"})
          /\ Cardinality({"questions"} \cup {"budget"} \cup {"outcomes"}) = 3
      BY <3>2, FS_AddElement
    <3>4. {"questions"} \cup {"budget"} \cup {"outcomes"} = {"questions", "budget", "outcomes"}
      OBVIOUS
    <3> QED BY <3>3, <3>4
  <2>2. IsFiniteSet(Parts) /\ Cardinality(Parts) = 5
    <3> DEFINE T == {"questions", "budget", "outcomes"}
    <3>1. IsFiniteSet(T \cup {"eligibility"}) /\ Cardinality(T \cup {"eligibility"}) = 4
      BY <2>1, FS_AddElement
    <3>2. /\ IsFiniteSet((T \cup {"eligibility"}) \cup {"compliance"})
          /\ Cardinality((T \cup {"eligibility"}) \cup {"compliance"}) = 5
      BY <3>1, FS_AddElement
    <3>3. (T \cup {"eligibility"}) \cup {"compliance"} = Parts
      BY DEF Parts
    <3> QED BY <3>2, <3>3
  <2>3. IsFiniteSet(Counted) /\ Cardinality(Counted) <= 5
    BY <1>1, <2>2, FS_Subset
  <2>4. 3 <= Cardinality(Counted) /\ Cardinality(Counted) \in Nat
    BY <1>1, <2>1, <2>3, FS_Subset, FS_CardinalityType
  <2> QED BY <2>3, <2>4
<1>3. \A c \in Counted : Marks[c] = ScoreOf(c) /\ Marks[c] \in 0 .. Whole
  BY <1>1 DEF Marks
<1>4. /\ SumOver(Marks, Counted) \in Nat
      /\ SumOver(Marks, Counted) <= Cardinality(Counted) * Whole
  <2>1. \A c \in Counted : Marks[c] \in Nat /\ Marks[c] <= Whole
    BY <1>3, ReadyBounds
  <2> QED BY <1>2, <2>1, ReadyBounds, SumType, SumAtMost
<1>5. Percent = Rounded(SumOver(Marks, Counted), Whole * Cardinality(Counted))
  BY DEF Percent, Marks
<1>6. \A n \in 3 .. 5 : Whole * n \in Nat /\ Whole * n > 0 /\ n * Whole = Whole * n
  BY ReadyBounds
<1> QED BY <1>2, <1>3, <1>4, <1>5, <1>6

\* Full marks leave no part more than a fortieth of a whole behind.
LEMMA FullMarksAre ==
    ASSUME Stored, Percent = 100
    PROVE  \A c \in Counted : 40 * (Whole - ScoreOf(c)) <= Whole
<1> SUFFICES ASSUME NEW c \in Counted PROVE 40 * (Whole - ScoreOf(c)) <= Whole
  OBVIOUS
<1> DEFINE n == Cardinality(Counted)
           s == SumOver(Marks, Counted)
           R == Counted \ {c}
<1>1. /\ IsFiniteSet(Counted) /\ n \in 3 .. 5 /\ s \in 0 .. Whole * n
      /\ Whole * n \in Nat /\ Whole * n > 0 /\ Percent = Rounded(s, Whole * n)
      /\ \A x \in Counted : Marks[x] = ScoreOf(x) /\ Marks[x] \in 0 .. Whole
  BY PercentIs
<1>2. /\ Whole \in Nat /\ \A x \in Counted : Marks[x] \in Nat /\ Marks[x] <= Whole
  BY <1>1, ReadyBounds
<1>3. s = Marks[c] + SumOver(Marks, R)
  BY <1>1, <1>2, SumOfAny
<1>4. IsFiniteSet(R) /\ Cardinality(R) = n - 1
  BY <1>1, FS_RemoveElement
<1>5. SumOver(Marks, R) \in Nat /\ SumOver(Marks, R) <= Cardinality(R) * Whole
  BY <1>2, <1>4, SumType, SumAtMost
<1> HIDE DEF s, n, R
<1>6. 200 * s >= 199 * (Whole * n)
  BY <1>1, RoundedIs
<1>7. \A k \in 3 .. 5 : \A m, r, w \in Nat :
        m <= w /\ r <= (k - 1) * w /\ 200 * (m + r) >= 199 * (w * k) => 40 * (w - m) <= w
  <2>1. ASSUME NEW m \in Nat, NEW r \in Nat, NEW w \in Nat
        PROVE  /\ r <= (3 - 1) * w /\ 200 * (m + r) >= 199 * (w * 3) => 40 * (w - m) <= w
               /\ r <= (4 - 1) * w /\ 200 * (m + r) >= 199 * (w * 4) => 40 * (w - m) <= w
               /\ r <= (5 - 1) * w /\ 200 * (m + r) >= 199 * (w * 5) => 40 * (w - m) <= w
    OBVIOUS
  <2>2. \A k \in 3 .. 5 : k = 3 \/ k = 4 \/ k = 5
    OBVIOUS
  <2> QED BY <2>1, <2>2
<1>8. 40 * (Whole - Marks[c]) <= Whole
  <2>1. Marks[c] \in Nat /\ Marks[c] <= Whole /\ 200 * (Marks[c] + SumOver(Marks, R)) >= 199 * (Whole * n)
    BY <1>2, <1>3, <1>6
  <2> QED BY <1>1, <1>2, <1>4, <1>5, <1>7, <2>1
<1> QED BY <1>1, <1>8

\* What is on the list of blockers.
LEMMA BlockersAre ==
    \A b : b \in Blockers <=>
        \/ b = <<"not eligible", 0>> /\ standing.verdict = "ineligible"
        \/ b = <<"no questions", 0>> /\ Questions = {}
        \/ b = <<"to answer", Cardinality(Questions \ Answered)>> /\ Questions \ Answered # {}
        \/ b = <<"unsupported", Cardinality(Unsupported)>> /\ Unsupported # {}
        \/ b = <<"no budget", 0>> /\ lines = {}
        \/ b = <<"budget errors", 0>> /\ lines # {} /\ ~Submittable
        \/ b = <<"no outcomes", 0>> /\ outcomes = 0
        \/ b = <<"over the limit", Cardinality(OverLimit)>> /\ OverLimit # {}
  BY DEF Blockers, Blocked

LEMMA FullMarksEarned == ASSUME Stored PROVE FullMarksAreEarned
<1> SUFFICES ASSUME Percent = 100, NEW b \in Blockers, b[1] # "unsupported"
             PROVE  b[1] = "to answer" /\ 40 * b[2] <= Cardinality(Questions)
  BY DEF FullMarksAreEarned
<1>1. /\ \A c \in Counted : 40 * (Whole - ScoreOf(c)) <= Whole
      /\ {"questions", "budget", "outcomes"} \subseteq Counted
  BY FullMarksAre, ScoresAre
<1>2. /\ ScoreOf("eligibility") = EligibilityScore /\ ScoreOf("questions") = QuestionsScore
      /\ ScoreOf("budget") = BudgetScore
      /\ ScoreOf("outcomes") = IF outcomes > 0 THEN Whole ELSE 0
      /\ ScoreOf("compliance") = ComplianceScore
  BY DEF ScoreOf
<1>3. Whole \in Nat /\ Whole > 0 /\ ~(40 * (Whole - 0) <= Whole)
      /\ ~(40 * (Whole - Whole \div 2) <= Whole) /\ 0 # NoScore
  BY ReadyBounds
<1>4. standing.verdict # "ineligible"
  <2> SUFFICES ASSUME standing.verdict = "ineligible" PROVE FALSE
    OBVIOUS
  <2>1. ScoreOf("eligibility") = 0
    BY <1>2 DEF EligibilityScore
  <2>2. "eligibility" \in Counted
    BY <1>3, <2>1 DEF Counted, Components
  <2> QED BY <1>1, <1>3, <2>1, <2>2
<1>5. Questions # {}
  BY <1>1, <1>2, <1>3 DEF QuestionsScore
<1>6. lines # {} /\ Submittable
  BY <1>1, <1>2, <1>3 DEF BudgetScore
<1>7. outcomes # 0
  BY <1>1, <1>2, <1>3
<1>8. OverLimit = {}
  <2> SUFFICES ASSUME OverLimit # {} PROVE FALSE
    OBVIOUS
  <2>1. Answered # {}
    BY DEF Answered, OverLimit
  <2>2. ScoreOf("compliance") = 0
    BY <1>2, <2>1 DEF ComplianceScore
  <2>3. "compliance" \in Counted
    BY <1>3, <2>2 DEF Counted, Components
  <2> QED BY <1>1, <1>3, <2>2, <2>3
<1>9. b = <<"to answer", Cardinality(Questions \ Answered)>>
  <2>1. \/ b = <<"not eligible", 0>> /\ standing.verdict = "ineligible"
        \/ b = <<"no questions", 0>> /\ Questions = {}
        \/ b = <<"to answer", Cardinality(Questions \ Answered)>> /\ Questions \ Answered # {}
        \/ b = <<"unsupported", Cardinality(Unsupported)>> /\ Unsupported # {}
        \/ b = <<"no budget", 0>> /\ lines = {}
        \/ b = <<"budget errors", 0>> /\ lines # {} /\ ~Submittable
        \/ b = <<"no outcomes", 0>> /\ outcomes = 0
        \/ b = <<"over the limit", Cardinality(OverLimit)>> /\ OverLimit # {}
    BY BlockersAre, Zenon
  <2>2. b # <<"unsupported", Cardinality(Unsupported)>>
    OBVIOUS
  <2> QED BY <1>4, <1>5, <1>6, <1>7, <1>8, <2>1, <2>2
<1>10. 40 * Cardinality(Questions \ Answered) <= Cardinality(Questions)
  <2> DEFINE n == Cardinality(Questions)
             k == Cardinality(Answered)
             r == Ratio(k, n)
  <2>1. n \in 1 .. MaxSheet /\ k \in 0 .. n /\ Cardinality(Questions \ Answered) = n - k
    BY <1>5, SheetIs
  <2>2. r \in 0 .. Whole /\ n * r = Whole * k
    BY <2>1, ShareIs
  <2>3. 40 * (Whole - r) <= Whole
    BY <1>1, <1>2, <1>5 DEF QuestionsScore
  <2> HIDE DEF n, k, r
  <2>4. \A x, w, y, z \in Nat : 0 < w /\ y <= w /\ z <= x /\ 40 * (w - y) <= w /\ x * y = w * z
                          => 40 * (x - z) <= x
    <3> SUFFICES ASSUME NEW x \in Nat, NEW w \in Nat, NEW y \in Nat, NEW z \in Nat,
                        0 < w, y <= w, z <= x, 40 * (w - y) <= w, x * y = w * z
                 PROVE  40 * (x - z) <= x
      OBVIOUS
    <3>1. PICK d \in Nat : w = y + d
      <4>1. w - y \in Nat /\ w = y + (w - y)
        OBVIOUS
      <4> QED BY <4>1
    <3>2. PICK e \in Nat : x = z + e
      <4>1. x - z \in Nat /\ x = z + (x - z)
        OBVIOUS
      <4> QED BY <4>1
    <3>3. x * d = w * e
      <4>1. x * w = x * y + x * d /\ w * x = w * z + w * e /\ x * w = w * x
        BY <3>1, <3>2
      <4>2. x * y \in Nat /\ x * d \in Nat /\ w * z \in Nat /\ w * e \in Nat /\ x * w \in Nat
        BY <3>1, <3>2
      <4> QED BY <4>1, <4>2
    <3>4. x * (40 * d) <= x * w
      <4>1. 40 * d <= w
        BY <3>1
      <4>2. PICK f \in Nat : w = 40 * d + f
        <5>1. w - 40 * d \in Nat /\ w = 40 * d + (w - 40 * d)
          BY <4>1
        <5> QED BY <5>1
      <4>3. x * w = x * (40 * d) + x * f /\ x * f \in Nat /\ x * (40 * d) \in Nat
        BY <4>2
      <4> QED BY <4>3
    <3>5. w * (40 * e) <= w * x
      <4>1. x * (40 * d) = 40 * (x * d) /\ w * (40 * e) = 40 * (w * e) /\ x * w = w * x
        OBVIOUS
      <4> QED BY <3>3, <3>4, <4>1
    <3>6. ~(40 * e > x)
      <4> SUFFICES ASSUME 40 * e > x PROVE FALSE
        OBVIOUS
      <4>1. PICK f \in Nat : 40 * e = x + 1 + f
        <5>1. 40 * e - x - 1 \in Nat /\ 40 * e = x + 1 + (40 * e - x - 1)
          OBVIOUS
        <5> QED BY <5>1
      <4>2. w * (40 * e) = w * x + w + w * f /\ w * f \in Nat /\ w * x \in Nat
        BY <4>1
      <4> QED BY <3>5, <4>2
    <3> QED BY <3>2, <3>6
  <2>5. n \in Nat /\ k \in Nat /\ k <= n /\ r \in Nat /\ r <= Whole
    BY <1>3, <2>1, <2>2
  <2>6. 40 * (n - k) <= n
    BY <1>3, <2>2, <2>3, <2>4, <2>5
  <2> QED BY <2>1, <2>6 DEF n
<1> QED BY <1>9, <1>10

\* A percentage of the marks in C.
Of(m, C) == Rounded(SumOver(m, C), Whole * Cardinality(C))

\* No mark falls, and the percentage does not.
LEMMA MarksRise ==
    ASSUME NEW C, IsFiniteSet(C), Cardinality(C) \in 3 .. 5, NEW m, NEW v,
           \A c \in C : m[c] \in 0 .. Whole /\ v[c] \in 0 .. Whole /\ m[c] <= v[c]
    PROVE  Of(m, C) <= Of(v, C)
<1>1. \A c \in C : m[c] \in Nat /\ v[c] \in Nat /\ m[c] <= v[c]
  BY ReadyBounds
<1>2. /\ SumOver(m, C) \in Nat /\ SumOver(v, C) \in Nat /\ SumOver(m, C) <= SumOver(v, C)
  BY <1>1, SumType, SumOfLess
<1>3. \A n \in 3 .. 5 : Whole * n \in Nat /\ Whole * n > 0
  BY ReadyBounds
<1> QED BY <1>2, <1>3, RoundedGrows DEF Of

\* One more part, complete.
LEMMA MarksJoin ==
    ASSUME NEW C, IsFiniteSet(C), Cardinality(C) \in 3 .. 5, NEW m, NEW v, NEW e, e \notin C,
           \A c \in C : m[c] \in 0 .. Whole /\ v[c] \in 0 .. Whole /\ m[c] <= v[c],
           v[e] = Whole, NEW D, D = C \cup {e}
    PROVE  Of(m, C) <= Of(v, D)
<1>1. /\ \A c \in C : m[c] \in Nat /\ m[c] <= Whole /\ v[c] \in Nat /\ m[c] <= v[c]
      /\ Whole \in Nat /\ Whole > 0
  BY ReadyBounds
<1>2. \A c \in D : v[c] \in Nat
  BY <1>1
<1>3. IsFiniteSet(D) /\ Cardinality(D) = Cardinality(C) + 1 /\ D \ {e} = C /\ e \in D
  BY FS_AddElement
<1>4. /\ SumOver(m, C) \in Nat /\ SumOver(v, C) \in Nat /\ SumOver(m, C) <= SumOver(v, C)
      /\ SumOver(m, C) <= Cardinality(C) * Whole
  BY <1>1, SumType, SumOfLess, SumAtMost
<1>5. SumOver(v, D) = Whole + SumOver(v, C)
  BY <1>2, <1>3, SumOfAny
<1>6. \A n \in 3 .. 5 : /\ Whole * n \in Nat /\ Whole * n > 0 /\ n * Whole = Whole * n
                        /\ Whole * (n + 1) = Whole * n + Whole
  BY <1>1
<1> DEFINE t == Whole * Cardinality(C)
           s == SumOver(m, C)
           r == SumOver(v, D)
<1>7. t \in Nat /\ t > 0 /\ s \in Nat /\ s <= t /\ Whole * Cardinality(D) = t + Whole
      /\ r \in Nat /\ s + Whole <= r
  BY <1>1, <1>3, <1>4, <1>5, <1>6
<1> HIDE DEF t, s, r
<1>8. Rounded(s, t) <= Rounded(s + Whole, t + Whole)
  BY <1>1, <1>7, RoundedGains
<1>9. Rounded(s + Whole, t + Whole) <= Rounded(r, t + Whole)
  <2>1. s + Whole \in Nat /\ t + Whole \in Nat /\ t + Whole > 0
    BY <1>1, <1>7
  <2> QED BY <1>7, <2>1, RoundedGrows
<1>10. /\ Rounded(s, t) \in Int /\ Rounded(s + Whole, t + Whole) \in Int
       /\ Rounded(r, t + Whole) \in Int
  <2>1. \A x, y \in Nat : y > 0 => Rounded(x, y) \in Int
    BY Divides DEF Rounded
  <2> QED BY <1>1, <1>7, <2>1
<1> QED BY <1>7, <1>8, <1>9, <1>10 DEF Of, s, t, r

\* One part less, of which nothing was done.
LEMMA MarksDrop ==
    ASSUME NEW D, IsFiniteSet(D), Cardinality(D) \in 3 .. 5, NEW m, NEW v, NEW e, e \notin D,
           \A c \in D : m[c] \in 0 .. Whole /\ v[c] = m[c],
           m[e] = 0, NEW C, C = D \cup {e}
    PROVE  Of(m, C) <= Of(v, D)
<1>1. /\ \A c \in D : m[c] \in Nat /\ m[c] <= Whole
      /\ Whole \in Nat /\ Whole > 0
  BY ReadyBounds
<1>2. \A c \in C : m[c] \in Nat
  BY <1>1
<1>3. IsFiniteSet(C) /\ Cardinality(C) = Cardinality(D) + 1 /\ C \ {e} = D /\ e \in C
  BY FS_AddElement
<1>4. /\ SumOver(m, D) \in Nat /\ SumOver(v, D) = SumOver(m, D)
      /\ SumOver(m, D) <= Cardinality(D) * Whole
  BY <1>1, SumType, SumOfEquals, SumAtMost
<1>5. SumOver(m, C) = SumOver(m, D)
  <2>1. SumOver(m, C) = 0 + SumOver(m, D)
    BY <1>2, <1>3, SumOfAny
  <2> QED BY <1>4, <2>1
<1>6. \A n \in 3 .. 5 : /\ Whole * n \in Nat /\ Whole * n > 0 /\ n * Whole = Whole * n
                        /\ Whole * (n + 1) = Whole * n + Whole
  BY <1>1
<1> DEFINE t == Whole * Cardinality(D)
           s == SumOver(m, D)
<1>7. t \in Nat /\ t > 0 /\ s \in Nat /\ s <= t /\ Whole * Cardinality(C) = t + Whole
  BY <1>1, <1>3, <1>4, <1>6
<1> HIDE DEF t, s
<1>8. Rounded(s, t + Whole) <= Rounded(s, t)
  BY <1>1, <1>7, RoundedGains
<1> QED BY <1>4, <1>5, <1>7, <1>8 DEF Of, s, t

\* What follows from what is stored, before a step and after it.
ReadyFacts ==
    /\ \A c \in Components : ScoreOf(c) \in 0 .. Whole \/ ScoreOf(c) = NoScore
    /\ Counted \subseteq Parts /\ {"questions", "budget", "outcomes"} \subseteq Counted
    /\ IsFiniteSet(Counted) /\ Cardinality(Counted) \in 3 .. 5
    /\ \A c \in Counted : Marks[c] = ScoreOf(c) /\ Marks[c] \in 0 .. Whole
    /\ Percent = Of(Marks, Counted) /\ Percent \in 0 .. 100
LEMMA FactsHold == Stored => ReadyFacts
<1> SUFFICES ASSUME Stored PROVE ReadyFacts
  OBVIOUS
<1> DEFINE s == SumOver(Marks, Counted)
           t == Whole * Cardinality(Counted)
<1>1. /\ IsFiniteSet(Counted) /\ Cardinality(Counted) \in 3 .. 5
      /\ \A c \in Counted : Marks[c] = ScoreOf(c) /\ Marks[c] \in 0 .. Whole
      /\ s \in 0 .. t /\ Percent = Rounded(s, t) /\ t \in Nat /\ t > 0
  BY PercentIs
<1>2. Percent = Of(Marks, Counted)
  BY <1>1 DEF Of
<1> HIDE DEF s, t
<1>3. Percent \in 0 .. 100
  BY <1>1, RoundedIs
<1> QED BY <1>1, <1>2, <1>3, ScoresAre DEF ReadyFacts

LEMMA InitReady == ASSUME ReadyInit PROVE Stored
<1>1. lines \subseteq Lines /\ outcomes \in 0 .. MaxOutcomes
  BY ReadyBounds DEF ReadyInit
<1>2. Questions = {} /\ Cardinality(Questions) = 0
  BY FS_EmptySet DEF ReadyInit, Questions
<1>3. sheet \in [Questions -> Answers] /\ Questions = 1 .. Cardinality(Questions)
  BY <1>2 DEF ReadyInit, Questions
<1>4. rules \in Rules
  BY DEF ReadyInit, Rules, NothingKnown
<1>5. standing \in Standings /\ requested \in Sums \cup {NoSum}
  BY DEF ReadyInit, Standings, Verdicts
<1> QED BY <1>1, <1>2, <1>3, <1>4, <1>5, ReadyBounds DEF Stored

LEMMA AddQuestionKeeps ==
    ASSUME Stored, AddQuestion
    PROVE  Stored' /\ Cardinality(Questions') = Cardinality(Questions) + 1 /\ Answered' = Answered
<1> DEFINE n == Cardinality(Questions)
<1>1. /\ n \in Nat /\ n < MaxSheet /\ Questions = 1 .. n /\ sheet \in [Questions -> Answers]
      /\ sheet' = [q \in 1 .. n + 1 |-> IF q \in Questions THEN sheet[q] ELSE NotWritten]
      /\ UNCHANGED <<lines, outcomes, rules, standing, requested>>
  BY ReadyBounds DEF AddQuestion, Stored
<1>2. Questions' = 1 .. n + 1
  BY <1>1 DEF Questions
<1>3. Cardinality(1 .. n + 1) = n + 1
  <2>1. n + 1 \in Int /\ 1 \in Int /\ ~(1 > n + 1) /\ n + 1 - 1 + 1 = n + 1
    BY <1>1
  <2> QED BY <2>1, FS_Interval
<1> HIDE DEF n
<1>4. Cardinality(Questions') = n + 1 /\ Questions' = 1 .. Cardinality(Questions')
  BY <1>2, <1>3
<1>5. NotWritten \in Answers
  BY DEF NotWritten, Answers
<1>6. sheet' \in [Questions' -> Answers]
  BY <1>1, <1>2, <1>5
<1>7. Cardinality(Questions') \in 0 .. MaxSheet
  BY <1>1, <1>4, ReadyBounds
<1>8. Stored'
  BY <1>1, <1>4, <1>6, <1>7 DEF Stored
<1>9. Answered' = Answered
  <2>1. \A q : q \in Answered' <=> q \in Answered
    BY <1>1, <1>2 DEF Answered, NotWritten
  <2> QED BY <2>1
<1> QED BY <1>4, <1>8, <1>9 DEF n

LEMMA AnswerKeeps ==
    ASSUME Stored, NEW q \in Questions, NEW answer \in Answers \ {NotWritten}, Answer(q, answer)
    PROVE  Stored' /\ Questions' = Questions
<1>1. sheet \in [Questions -> Answers]
      /\ sheet' = [sheet EXCEPT ![q] = answer]
      /\ UNCHANGED <<lines, outcomes, rules, standing, requested>>
  BY DEF Answer, Stored
<1>2. Questions' = Questions
  BY <1>1 DEF Questions
<1>3. sheet' \in [Questions -> Answers]
  BY <1>1
<1> QED BY <1>1, <1>2, <1>3 DEF Stored

\* A step that leaves the form alone, and writes what is of its type.
LEMMA RestOfReadyKeeps ==
    ASSUME Stored, sheet' = sheet, requested' = requested, lines' \subseteq Lines,
           outcomes' \in 0 .. MaxOutcomes, rules' \in Rules, standing' \in Standings
    PROVE  Stored'
<1>1. Questions' = Questions
  BY DEF Questions
<1> QED BY <1>1 DEF Stored

LEMMA NextReady ==
    ASSUME Stored, [ReadyNext]_readyVars
    PROVE  /\ Stored'
           /\ \/ standing' = standing /\ Questions' = Questions
              \/ standing' = standing /\ Cardinality(Questions') = Cardinality(Questions) + 1
                    /\ Answered' = Answered
              \/ UNCHANGED <<lines, outcomes, sheet, rules, requested>>
<1>0. /\ lines \subseteq Lines /\ outcomes \in 0 .. MaxOutcomes /\ rules \in Rules
      /\ standing \in Standings
  BY DEF Stored
<1>q. sheet' = sheet => Questions' = Questions
  BY DEF Questions
<1>1. CASE UNCHANGED readyVars
  BY <1>0, <1>1, <1>q, RestOfReadyKeeps DEF readyVars
<1>2. ASSUME NEW id \in 1 .. MaxLines, NEW category \in Categories, NEW tenths \in TypedSums,
             AddBudgetLine(id, category, tenths)
      PROVE  Stored' /\ standing' = standing /\ Questions' = Questions
  <2>1. ToPence(tenths) \in Nat
    <3>1. tenths \in Nat
      BY ReadinessAssumption
    <3> QED BY <3>1 DEF ToPence
  <2>2. lines' \subseteq Lines /\ UNCHANGED <<outcomes, sheet, rules, standing, requested>>
    BY <1>0, <1>2, <2>1 DEF AddBudgetLine, Lines
  <2> QED BY <1>0, <1>q, <2>2, RestOfReadyKeeps
<1>3. ASSUME NEW line \in lines, RemoveBudgetLine(line)
      PROVE  Stored' /\ standing' = standing /\ Questions' = Questions
  BY <1>0, <1>3, <1>q, RestOfReadyKeeps DEF RemoveBudgetLine
<1>4. ASSUME AddOutcome \/ RemoveOutcome
      PROVE  Stored' /\ standing' = standing /\ Questions' = Questions
  <2>1. outcomes' \in 0 .. MaxOutcomes /\ UNCHANGED <<lines, sheet, rules, standing, requested>>
    BY <1>0, <1>4, ReadyBounds DEF AddOutcome, RemoveOutcome
  <2> QED BY <1>0, <1>q, <2>1, RestOfReadyKeeps
<1>5. ASSUME NEW funder \in Funders \ {rules}, LearnRules(funder)
      PROVE  Stored' /\ standing' = standing /\ Questions' = Questions
  <2>1. funder \in Rules
    BY ReadinessAssumption
  <2> QED BY <1>0, <1>5, <1>q, <2>1, RestOfReadyKeeps DEF LearnRules
<1>6. ASSUME NEW verdict \in Verdicts, NEW measured \in BOOLEAN, Judge(verdict, measured)
      PROVE  Stored' /\ UNCHANGED <<lines, outcomes, sheet, rules, requested>>
  <2>1. standing' \in Standings /\ UNCHANGED <<lines, outcomes, sheet, rules, requested>>
    BY <1>6 DEF Judge, Standings
  <2> QED BY <1>0, <2>1, RestOfReadyKeeps
<1>7. CASE AddQuestion
  BY <1>7, AddQuestionKeeps DEF AddQuestion
<1>8. ASSUME NEW q \in Questions, NEW answer \in Answers \ {NotWritten}, Answer(q, answer)
      PROVE  Stored' /\ standing' = standing /\ Questions' = Questions
  <2>1. standing' = standing
    BY <1>8 DEF Answer
  <2> QED BY <1>8, <2>1, AnswerKeeps
<1> QED BY <1>1, <1>2, <1>3, <1>4, <1>5, <1>6, <1>7, <1>8 DEF ReadyNext

\* What a blocker of each name says, and which are on the list.
BlockersSay ==
    /\ \A c \in Blockers :
         /\ c[1] = "not eligible" => standing.verdict = "ineligible"
         /\ c[1] = "no questions" => Questions = {}
         /\ c[1] = "to answer" => /\ Questions \ Answered # {}
                                  /\ c[2] = Cardinality(Questions \ Answered)
         /\ c[1] = "no budget" => lines = {}
         /\ c[1] = "budget errors" => lines # {} /\ ~Submittable
         /\ c[1] = "no outcomes" => outcomes = 0
         /\ c[1] = "over the limit" => OverLimit # {}
    /\ standing.verdict = "ineligible" => <<"not eligible", 0>> \in Blockers
    /\ Questions = {} => <<"no questions", 0>> \in Blockers
    /\ Questions \ Answered # {} => <<"to answer", Cardinality(Questions \ Answered)>> \in Blockers
    /\ lines = {} => <<"no budget", 0>> \in Blockers
    /\ lines # {} /\ ~Submittable => <<"budget errors", 0>> \in Blockers
    /\ outcomes = 0 => <<"no outcomes", 0>> \in Blockers
    /\ OverLimit # {} => <<"over the limit", Cardinality(OverLimit)>> \in Blockers
LEMMA BlockersDoSay == BlockersSay
<1>1. ASSUME NEW c \in Blockers
      PROVE  /\ c[1] = "not eligible" => standing.verdict = "ineligible"
             /\ c[1] = "no questions" => Questions = {}
             /\ c[1] = "to answer" => /\ Questions \ Answered # {}
                                      /\ c[2] = Cardinality(Questions \ Answered)
             /\ c[1] = "no budget" => lines = {}
             /\ c[1] = "budget errors" => lines # {} /\ ~Submittable
             /\ c[1] = "no outcomes" => outcomes = 0
             /\ c[1] = "over the limit" => OverLimit # {}
  <2>1. \/ c = <<"not eligible", 0>> /\ standing.verdict = "ineligible"
        \/ c = <<"no questions", 0>> /\ Questions = {}
        \/ c = <<"to answer", Cardinality(Questions \ Answered)>> /\ Questions \ Answered # {}
        \/ c = <<"unsupported", Cardinality(Unsupported)>> /\ Unsupported # {}
        \/ c = <<"no budget", 0>> /\ lines = {}
        \/ c = <<"budget errors", 0>> /\ lines # {} /\ ~Submittable
        \/ c = <<"no outcomes", 0>> /\ outcomes = 0
        \/ c = <<"over the limit", Cardinality(OverLimit)>> /\ OverLimit # {}
    BY BlockersAre, Zenon
  <2>0. \A n, k : c = <<n, k>> => c[1] = n /\ c[2] = k
    OBVIOUS
  <2>9. \/ c[1] = "not eligible" /\ standing.verdict = "ineligible"
        \/ c[1] = "no questions" /\ Questions = {}
        \/ /\ c[1] = "to answer" /\ c[2] = Cardinality(Questions \ Answered)
           /\ Questions \ Answered # {}
        \/ c[1] = "unsupported"
        \/ c[1] = "no budget" /\ lines = {}
        \/ c[1] = "budget errors" /\ lines # {} /\ ~Submittable
        \/ c[1] = "no outcomes" /\ outcomes = 0
        \/ c[1] = "over the limit" /\ OverLimit # {}
    BY <2>0, <2>1, Zenon
  <2>2. c[1] = "not eligible" => standing.verdict = "ineligible"
    BY <2>9
  <2>3. c[1] = "no questions" => Questions = {}
    BY <2>9
  <2>4. c[1] = "to answer" => Questions \ Answered # {} /\ c[2] = Cardinality(Questions \ Answered)
    BY <2>9
  <2>5. c[1] = "no budget" => lines = {}
    BY <2>9
  <2>6. c[1] = "budget errors" => lines # {} /\ ~Submittable
    BY <2>9
  <2>7. c[1] = "no outcomes" => outcomes = 0
    BY <2>9
  <2>8. c[1] = "over the limit" => OverLimit # {}
    BY <2>9
  <2> QED BY <2>2, <2>3, <2>4, <2>5, <2>6, <2>7, <2>8
<1>2. /\ standing.verdict = "ineligible" => <<"not eligible", 0>> \in Blockers
      /\ Questions = {} => <<"no questions", 0>> \in Blockers
      /\ Questions \ Answered # {} => <<"to answer", Cardinality(Questions \ Answered)>> \in Blockers
      /\ lines = {} => <<"no budget", 0>> \in Blockers
      /\ lines # {} /\ ~Submittable => <<"budget errors", 0>> \in Blockers
      /\ outcomes = 0 => <<"no outcomes", 0>> \in Blockers
      /\ OverLimit # {} => <<"over the limit", Cardinality(OverLimit)>> \in Blockers
  BY BlockersAre, Zenon
<1> QED BY <1>1, <1>2, Zenon DEF BlockersSay

\* A list that is eased puts up nothing new.
Eased == \A b \in Blockers' : \E c \in Blockers : c[1] = b[1] /\ c[2] >= b[2]
LEMMA EasedIs ==
    ASSUME Eased
    PROVE  /\ standing'.verdict = "ineligible" => standing.verdict = "ineligible"
           /\ Questions' = {} => Questions = {}
           /\ (Questions' \ Answered') # {} =>
                /\ Questions \ Answered # {}
                /\ Cardinality(Questions \ Answered) >= Cardinality(Questions' \ Answered')
           /\ lines' = {} => lines = {}
           /\ lines' # {} /\ ~Submittable' => lines # {} /\ ~Submittable
           /\ outcomes' = 0 => outcomes = 0
           /\ OverLimit' # {} => OverLimit # {}
<1>1. BlockersSay'
  BY BlockersDoSay, PTL
<1>2. BlockersSay
  BY BlockersDoSay
<1>3. \A n, k : <<n, k>> \in Blockers' => \E c \in Blockers : c[1] = n /\ c[2] >= k
  <2>1. \A n, k : <<n, k>>[1] = n /\ <<n, k>>[2] = k
    OBVIOUS
  <2> QED BY <2>1 DEF Eased
<1>4. standing'.verdict = "ineligible" => standing.verdict = "ineligible"
  BY <1>1, <1>2, <1>3 DEF BlockersSay
<1>5. Questions' = {} => Questions = {}
  BY <1>1, <1>2, <1>3 DEF BlockersSay
<1>6. (Questions' \ Answered') # {} =>
         /\ Questions \ Answered # {}
         /\ Cardinality(Questions \ Answered) >= Cardinality(Questions' \ Answered')
  BY <1>1, <1>2, <1>3 DEF BlockersSay
<1>7. /\ lines' = {} => lines = {}
      /\ lines' # {} /\ ~Submittable' => lines # {} /\ ~Submittable
  BY <1>1, <1>2, <1>3 DEF BlockersSay
<1>8. outcomes' = 0 => outcomes = 0
  BY <1>1, <1>2, <1>3 DEF BlockersSay
<1>9. OverLimit' # {} => OverLimit # {}
  BY <1>1, <1>2, <1>3 DEF BlockersSay
<1> QED BY <1>4, <1>5, <1>6, <1>7, <1>8, <1>9

\* What is counted of the form.
SheetShape ==
    /\ Cardinality(Questions) \in 0 .. MaxSheet
    /\ Cardinality(Answered) \in 0 .. Cardinality(Questions)
    /\ Cardinality(Questions \ Answered) = Cardinality(Questions) - Cardinality(Answered)
    /\ (Questions = {} <=> Cardinality(Questions) = 0)
    /\ (Answered = {} <=> Cardinality(Answered) = 0)
    /\ (Questions \ Answered = {} <=> Cardinality(Questions) = Cardinality(Answered))
LEMMA SheetHasShape == Stored => SheetShape
  BY SheetIs DEF SheetShape

\* More answers are a larger share.
LEMMA ShareGrows ==
    ASSUME NEW n \in 1 .. MaxSheet, NEW k \in 0 .. n, NEW m \in 0 .. n, k <= m
    PROVE  Ratio(m, n) >= Ratio(k, n)
<1>1. /\ Ratio(k, n) \in 0 .. Whole /\ n * Ratio(k, n) = Whole * k
      /\ Ratio(m, n) \in 0 .. Whole /\ n * Ratio(m, n) = Whole * m
      /\ Whole \in Nat /\ n \in Nat /\ n > 0 /\ k \in Nat /\ m \in Nat
  BY ShareIs, ReadyBounds
<1> DEFINE r == Ratio(k, n)
           s == Ratio(m, n)
<1>2. PICK d \in Nat : m = k + d
  <2>1. m - k \in Nat /\ m = k + (m - k)
    BY <1>1
  <2> QED BY <2>1
<1>3. Whole * m = Whole * k + Whole * d /\ Whole * d \in Nat /\ Whole * k \in Nat
  BY <1>1, <1>2
<1>4. r \in Nat /\ s \in Nat /\ n * r <= n * s
  BY <1>1, <1>3
<1> HIDE DEF r, s
<1>5. ASSUME r > s PROVE FALSE
  <2>1. PICK e \in Nat : r = s + 1 + e
    <3>1. r - s - 1 \in Nat /\ r = s + 1 + (r - s - 1)
      BY <1>4, <1>5
    <3> QED BY <3>1
  <2>2. n * r = n * s + n + n * e /\ n * e \in Nat /\ n * s \in Nat
    BY <1>1, <1>4, <2>1
  <2> QED BY <1>1, <1>4, <2>2
<1> QED BY <1>4, <1>5 DEF r, s

\* While the verdict and the form stay, an eased list lowers no mark.
LEMMA MarksHold ==
    ASSUME Stored, Stored', Eased, standing' = standing, Questions' = Questions
    PROVE  /\ EligibilityScore' = EligibilityScore
           /\ QuestionsScore' >= QuestionsScore
           /\ BudgetScore' >= BudgetScore
           /\ outcomes > 0 => outcomes' > 0
           /\ ComplianceScore # NoScore => /\ ComplianceScore' # NoScore
                                           /\ ComplianceScore' >= ComplianceScore
           /\ ComplianceScore' # NoScore /\ ComplianceScore = NoScore => ComplianceScore' = Whole
<1>1. EligibilityScore' = EligibilityScore
  BY DEF EligibilityScore
<1> DEFINE n == Cardinality(Questions)
           k == Cardinality(Answered)
           m == Cardinality(Answered')
<1>2. /\ n \in 0 .. MaxSheet /\ k \in 0 .. n /\ Cardinality(Questions \ Answered) = n - k
      /\ (Questions = {} <=> n = 0) /\ (Answered = {} <=> k = 0)
      /\ (Questions \ Answered = {} <=> n = k)
  BY SheetHasShape DEF SheetShape
<1>3. /\ m \in 0 .. n /\ Cardinality(Questions' \ Answered') = n - m
      /\ (Answered' = {} <=> m = 0) /\ (Questions' \ Answered' = {} <=> n = m)
  <2>1. SheetShape'
    BY SheetHasShape, PTL
  <2> QED BY <2>1 DEF SheetShape
<1>4. Questions' \ Answered' # {} => Cardinality(Questions \ Answered) >= Cardinality(Questions' \ Answered')
  BY EasedIs
<1> HIDE DEF n, k, m
<1>5. k <= m /\ n \in Nat /\ k \in Nat /\ m \in Nat
  <2>1. n \in Nat
    BY <1>2
  <2> QED BY <1>2, <1>3, <1>4, <2>1
<1>6. QuestionsScore' >= QuestionsScore
  <2>1. CASE n = 0
    <3>1. QuestionsScore' = 0 /\ QuestionsScore = 0
      BY <1>2, <2>1 DEF QuestionsScore
    <3> QED BY <3>1
  <2>2. CASE n # 0
    <3>1. n \in 1 .. MaxSheet
      BY <1>2, <2>2
    <3>2. QuestionsScore = Ratio(k, n) /\ QuestionsScore' = Ratio(m, n)
      BY <1>2, <2>2 DEF QuestionsScore, Ratio, n, k, m
    <3> QED BY <1>2, <1>3, <1>5, <3>1, <3>2, ShareGrows
  <2> QED BY <2>1, <2>2
<1>7. BudgetScore' >= BudgetScore
  <2>1. /\ lines' = {} => lines = {}
        /\ ~(lines' = {}) /\ ~Submittable' => ~(lines = {}) /\ ~Submittable
    BY EasedIs, Zenon
  <2>2. Whole \in Nat /\ Whole \div 2 \in 0 .. Whole
    BY ReadyBounds
  <2>3. BudgetScore \in 0 .. Whole
    BY <2>2 DEF BudgetScore
  <2>4. CASE lines' = {}
    <3>1. BudgetScore = 0 /\ BudgetScore' = 0
      BY <2>1, <2>4 DEF BudgetScore
    <3> QED BY <3>1
  <2>5. CASE lines' # {} /\ Submittable'
    <3>1. BudgetScore' = Whole
      BY <2>5 DEF BudgetScore
    <3> QED BY <2>2, <2>3, <3>1
  <2>6. CASE ~(lines' = {}) /\ ~Submittable'
    <3>1. BudgetScore' = Whole \div 2 /\ BudgetScore = Whole \div 2
      BY <2>1, <2>6, Zenon DEF BudgetScore
    <3> QED BY <2>2, <3>1
  <2> QED BY <2>4, <2>5, <2>6
<1>8. outcomes > 0 => outcomes' > 0
  <2>1. outcomes' = 0 => outcomes = 0
    BY EasedIs
  <2>2. outcomes \in Nat /\ outcomes' \in Nat
    BY ReadyBounds DEF Stored
  <2> QED BY <2>1, <2>2
<1>9. /\ ComplianceScore # NoScore => ComplianceScore' # NoScore /\ ComplianceScore' >= ComplianceScore
      /\ ComplianceScore' # NoScore /\ ComplianceScore = NoScore => ComplianceScore' = Whole
  <2>1. OverLimit' # {} => OverLimit # {}
    BY EasedIs
  <2>2. OverLimit \subseteq Answered /\ OverLimit' \subseteq Answered'
    BY DEF OverLimit, Answered
  <2>3. Answered' = {} => Answered = {}
    BY <1>2, <1>3, <1>5
  <2>4. Whole \in Nat /\ Whole # NoScore /\ 0 # NoScore
    BY ReadyBounds
  <2> QED BY <2>1, <2>2, <2>3, <2>4 DEF ComplianceScore
<1> QED BY <1>1, <1>6, <1>7, <1>8, <1>9

\* A question more in the form makes the list no easier.
LEMMA QuestionsBurden ==
    ASSUME Stored, Stored', Cardinality(Questions') = Cardinality(Questions) + 1,
           Answered' = Answered
    PROVE  ~Eased
<1> SUFFICES ASSUME Eased PROVE FALSE
  OBVIOUS
<1>1. SheetShape'
  BY SheetHasShape, PTL
<1>2. SheetShape
  BY SheetHasShape
<1> DEFINE n == Cardinality(Questions)
           k == Cardinality(Answered)
<1>3. /\ n \in Nat /\ k \in 0 .. n /\ Cardinality(Questions \ Answered) = n - k
      /\ Cardinality(Questions' \ Answered') = n + 1 - k
      /\ (Questions' \ Answered' = {} <=> n + 1 = k)
  BY <1>1, <1>2, ReadyBounds DEF SheetShape
<1>4. (Questions' \ Answered') # {} =>
         Cardinality(Questions \ Answered) >= Cardinality(Questions' \ Answered')
  BY EasedIs
<1> HIDE DEF n, k
<1> QED BY <1>3, <1>4

\* While the verdict and the form stay, an eased list lowers no percentage.
LEMMA EasingPays ==
    ASSUME Stored, Stored', Eased, standing' = standing, Questions' = Questions
    PROVE  Percent' >= Percent
<1>1. ReadyFacts /\ ReadyFacts'
  BY FactsHold, PTL
<1> DEFINE C == Counted
           D == Counted'
           m == Marks
           v == Marks'
<1>2. /\ IsFiniteSet(C) /\ Cardinality(C) \in 3 .. 5 /\ C \subseteq Parts /\ Percent = Of(m, C)
      /\ {"questions", "budget", "outcomes"} \subseteq C
      /\ \A c \in C : m[c] = ScoreOf(c) /\ m[c] \in 0 .. Whole
      /\ Percent \in 0 .. 100
  BY <1>1 DEF ReadyFacts
<1>3. /\ IsFiniteSet(D) /\ Cardinality(D) \in 3 .. 5 /\ D \subseteq Parts /\ Percent' = Of(v, D)
      /\ {"questions", "budget", "outcomes"} \subseteq D
      /\ \A c \in D : v[c] = ScoreOf(c)' /\ v[c] \in 0 .. Whole
      /\ Percent' \in 0 .. 100
  BY <1>1 DEF ReadyFacts, Of
<1>4. /\ ScoreOf("eligibility") = EligibilityScore /\ ScoreOf("eligibility")' = EligibilityScore'
      /\ ScoreOf("questions") = QuestionsScore /\ ScoreOf("questions")' = QuestionsScore'
      /\ ScoreOf("budget") = BudgetScore /\ ScoreOf("budget")' = BudgetScore'
      /\ ScoreOf("outcomes") = (IF outcomes > 0 THEN Whole ELSE 0)
      /\ ScoreOf("outcomes")' = (IF outcomes' > 0 THEN Whole ELSE 0)
      /\ ScoreOf("compliance") = ComplianceScore /\ ScoreOf("compliance")' = ComplianceScore'
  BY DEF ScoreOf
<1>5. /\ EligibilityScore' = EligibilityScore
      /\ QuestionsScore' >= QuestionsScore
      /\ BudgetScore' >= BudgetScore
      /\ outcomes > 0 => outcomes' > 0
      /\ ComplianceScore # NoScore => ComplianceScore' # NoScore /\ ComplianceScore' >= ComplianceScore
      /\ ComplianceScore' # NoScore /\ ComplianceScore = NoScore => ComplianceScore' = Whole
  BY MarksHold
<1>6. /\ "eligibility" \in C <=> ScoreOf("eligibility") # NoScore
      /\ "compliance" \in C <=> ScoreOf("compliance") # NoScore
      /\ "eligibility" \in D <=> ScoreOf("eligibility")' # NoScore
      /\ "compliance" \in D <=> ScoreOf("compliance")' # NoScore
  BY DEF Counted, Components
<1>7. Whole \in Nat /\ Whole > 0
  BY ReadyBounds
<1> HIDE DEF C, D, m, v
<1>8. /\ C \subseteq D /\ D \subseteq C \cup {"compliance"}
      /\ "compliance" \in D /\ "compliance" \notin C => v["compliance"] = Whole
  BY <1>2, <1>3, <1>4, <1>5, <1>6 DEF Parts
<1>9. \A c \in C : m[c] \in 0 .. Whole /\ v[c] \in 0 .. Whole /\ m[c] <= v[c]
  <2> SUFFICES ASSUME NEW c \in C PROVE m[c] <= v[c]
    BY <1>2, <1>3, <1>8
  <2>0. c \in D /\ c \in Parts /\ m[c] = ScoreOf(c) /\ m[c] \in 0 .. Whole /\ v[c] = ScoreOf(c)'
        /\ v[c] \in 0 .. Whole
    BY <1>2, <1>3, <1>8
  <2>1. CASE c = "eligibility"
    BY <1>4, <1>5, <2>0, <2>1
  <2>2. CASE c = "questions"
    BY <1>4, <1>5, <2>0, <2>2
  <2>3. CASE c = "budget"
    BY <1>4, <1>5, <2>0, <2>3
  <2>4. CASE c = "outcomes"
    BY <1>4, <1>5, <1>7, <2>0, <2>4
  <2>5. CASE c = "compliance"
    BY <1>4, <1>5, <1>6, <2>0, <2>5
  <2> QED BY <2>0, <2>1, <2>2, <2>3, <2>4, <2>5 DEF Parts
<1>10. CASE D = C
  <2>1. Of(m, C) <= Of(v, C)
    BY <1>2, <1>9, MarksRise
  <2> QED BY <1>2, <1>3, <1>10, <2>1
<1>11. CASE D # C
  <2>1. D = C \cup {"compliance"} /\ "compliance" \notin C /\ v["compliance"] = Whole
    BY <1>8, <1>11
  <2>2. Of(m, C) <= Of(v, D)
    BY <1>2, <1>9, <2>1, MarksJoin
  <2> QED BY <1>2, <1>3, <2>2
<1> QED BY <1>10, <1>11

\* A verdict that eases the list takes back a no, and lowers no percentage.
LEMMA AcquittalPays ==
    ASSUME Stored, Stored', Eased, Blockers' # Blockers,
           UNCHANGED <<lines, outcomes, sheet, rules, requested>>
    PROVE  Percent' >= Percent
<1>0. /\ Questions' = Questions /\ Answered' = Answered /\ OverLimit' = OverLimit
      /\ Unsupported' = Unsupported /\ Submittable' = Submittable
  BY DEF Questions, Answered, OverLimit, Unsupported, Submittable
<1>1. standing.verdict = "ineligible"
  <2> SUFFICES ASSUME standing.verdict # "ineligible" PROVE FALSE
    OBVIOUS
  <2>1. standing'.verdict # "ineligible"
    BY EasedIs
  <2>2. Blockers' = Blockers
    BY <1>0, <2>1 DEF Blockers, Blocked
  <2> QED BY <2>2
<1>2. ReadyFacts /\ ReadyFacts'
  BY FactsHold, PTL
<1> DEFINE e == "eligibility"
           C == Counted
           D == Counted'
           m == Marks
           v == Marks'
<1>3. /\ IsFiniteSet(C) /\ Cardinality(C) \in 3 .. 5 /\ C \subseteq Parts /\ Percent = Of(m, C)
      /\ \A c \in C : m[c] = ScoreOf(c) /\ m[c] \in 0 .. Whole
      /\ Percent \in 0 .. 100
  BY <1>2 DEF ReadyFacts
<1>4. /\ IsFiniteSet(D) /\ Cardinality(D) \in 3 .. 5 /\ D \subseteq Parts /\ Percent' = Of(v, D)
      /\ \A c \in D : v[c] = ScoreOf(c)' /\ v[c] \in 0 .. Whole
      /\ Percent' \in 0 .. 100
  BY <1>2 DEF ReadyFacts, Of
<1>5. \A c \in Parts : c # e => ScoreOf(c)' = ScoreOf(c)
  <2>1. QuestionsScore' = QuestionsScore
    BY <1>0 DEF QuestionsScore, Ratio
  <2>2. BudgetScore' = BudgetScore
    BY <1>0 DEF BudgetScore
  <2>3. ComplianceScore' = ComplianceScore
    BY <1>0 DEF ComplianceScore
  <2>4. outcomes' = outcomes
    OBVIOUS
  <2> QED BY <2>1, <2>2, <2>3, <2>4 DEF Parts, ScoreOf
<1>6. \A c \in Parts : (c \in C <=> ScoreOf(c) # NoScore) /\ (c \in D <=> ScoreOf(c)' # NoScore)
  BY DEF Parts, Counted, Components
<1>7. ScoreOf(e) = 0 /\ 0 # NoScore
  BY <1>1, ReadyBounds DEF ScoreOf, EligibilityScore
<1>8. e \in C /\ m[e] = 0
  BY <1>3, <1>6, <1>7 DEF Parts
<1> HIDE DEF e, C, D, m, v
<1>9. (D = C \/ (C = D \cup {e} /\ e \notin D)) /\ \A c \in C : c # e => c \in D /\ v[c] = m[c]
  BY <1>3, <1>4, <1>5, <1>6, <1>8
<1>10. CASE D = C
  <2>1. \A c \in C : m[c] \in 0 .. Whole /\ v[c] \in 0 .. Whole /\ m[c] <= v[c]
    BY <1>3, <1>4, <1>8, <1>9, <1>10, ReadyBounds
  <2>2. Of(m, C) <= Of(v, C)
    BY <1>3, <2>1, MarksRise
  <2> QED BY <1>3, <1>4, <1>10, <2>2
<1>11. CASE C = D \cup {e} /\ e \notin D
  <2>1. \A c \in D : m[c] \in 0 .. Whole /\ v[c] = m[c]
    BY <1>3, <1>9, <1>11
  <2>2. Of(m, C) <= Of(v, D)
    BY <1>4, <1>8, <1>11, <2>1, MarksDrop
  <2> QED BY <1>3, <1>4, <2>2
<1> QED BY <1>9, <1>10, <1>11

(* The form, the budget, the outcomes and the funder's rules keep their      *)
(* types, and what is worked out from them is in range: a percentage is one. *)
THEOREM SpecReadyTypeOK == ReadySpec => []ReadyTypeOK
<1>1. ReadySpec => []Stored
  BY InitReady, NextReady, PTL DEF ReadySpec
<1>2. Stored => ReadyTypeOK
  BY FactsHold DEF Stored, ReadyTypeOK, ReadyFacts
<1> QED BY <1>1, <1>2, PTL

(* Full marks leave no more open than one question in forty, and no work     *)
(* costs marks, for any form, any budget and any rules on money.             *)
THEOREM SpecScoreIsFair == ReadySpec => ScoreIsFair
<1>1. ReadySpec => []Stored
  BY InitReady, NextReady, PTL DEF ReadySpec
<1>2. Stored => FullMarksAreEarned
  BY FullMarksEarned
<1>3. Stored /\ [ReadyNext]_readyVars
        => [Blockers' # Blockers
              /\ (\A b \in Blockers' : \E c \in Blockers : c[1] = b[1] /\ c[2] >= b[2])
            => Percent' >= Percent]_readyVars
  <2> SUFFICES ASSUME Stored, [ReadyNext]_readyVars, Blockers' # Blockers, Eased
               PROVE  Percent' >= Percent
    BY DEF Eased
  <2>1. Stored'
        /\ \/ standing' = standing /\ Questions' = Questions
           \/ standing' = standing /\ Cardinality(Questions') = Cardinality(Questions) + 1
                 /\ Answered' = Answered
           \/ UNCHANGED <<lines, outcomes, sheet, rules, requested>>
    BY NextReady
  <2> QED BY <2>1, EasingPays, AcquittalPays, QuestionsBurden
<1>4. ReadySpec => WorkNeverCosts
  BY <1>1, <1>3, PTL DEF ReadySpec, WorkNeverCosts
<1> QED BY <1>1, <1>2, <1>4, PTL DEF ScoreIsFair

-----------------------------------------------------------------------------
(* The workbench: the five parts share no state, and what holds of one holds *)
(* of them side by side.                                                    *)

(* Every behaviour of the workbench is a behaviour of each of its parts.    *)
THEOREM BenchHasParts ==
    BenchSpec => SearchSpec /\ DraftSpec /\ ReadySpec /\ TrackSpec /\ CatalogueSpec
<1>1. BenchInit => SearchInit /\ DraftInit /\ ReadyInit /\ TrackInit /\ CatalogueInit
  BY DEF BenchInit
<1>2. [BenchNext]_benchVars => [SearchNext]_searchVars
  BY DEF BenchNext, SearchStep, DraftStep, ReadyStep, TrackStep, FundStep, benchVars
<1>3. [BenchNext]_benchVars => [DraftNext]_draftVars
  BY DEF BenchNext, SearchStep, DraftStep, ReadyStep, TrackStep, FundStep, benchVars
<1>4. [BenchNext]_benchVars => [ReadyNext]_readyVars
  BY DEF BenchNext, SearchStep, DraftStep, ReadyStep, TrackStep, FundStep, benchVars
<1>5. [BenchNext]_benchVars => [TrackNext]_trackVars
  BY DEF BenchNext, SearchStep, DraftStep, ReadyStep, TrackStep, FundStep, benchVars
<1>6. [BenchNext]_benchVars => [CatalogueNext]_catalogueVars
  BY DEF BenchNext, SearchStep, DraftStep, ReadyStep, TrackStep, FundStep, benchVars
<1> QED
  BY <1>1, <1>2, <1>3, <1>4, <1>5, <1>6, PTL
  DEF BenchSpec, SearchSpec, DraftSpec, ReadySpec, TrackSpec, CatalogueSpec

(* The workbench keeps its types, for every value of the constants.          *)
THEOREM BenchTypesOK == BenchSpec => []TypesOK
<1>1. SearchSpec => []SearchInv
  BY InitSearch, NextSearch, PTL DEF SearchSpec
<1>2. DraftSpec => []DraftInv
  BY InitDraft, NextDraft, PTL DEF DraftSpec
<1>3. TrackSpec => []TrackTypeOK
  BY InitTrack, NextTrack, PTL DEF TrackSpec
<1>4. SearchInv /\ DraftInv /\ ReadyTypeOK /\ TrackTypeOK /\ CatalogueInv => TypesOK
  BY DEF SearchInv, DraftInv, CatalogueInv, TypesOK
<1> QED BY <1>1, <1>2, <1>3, <1>4, SpecReadyTypeOK, SpecCatalogueInv, BenchHasParts, PTL

(* What is promised of each part holds of the workbench.                    *)
THEOREM BenchKeepsItsPromises ==
    BenchSpec => /\ [](SearchIsHonest /\ OneWorkUnderReview /\ SurfacesAgree)
                 /\ ScoreIsFair /\ UrgencyIsFair /\ FundsAreKept
  BY BenchHasParts, SpecSearchIsHonest, SpecOneWorkUnderReview, SpecSurfacesAgree,
     SpecScoreIsFair, SpecUrgencyIsFair, SpecFundsAreKept, PTL
=============================================================================
