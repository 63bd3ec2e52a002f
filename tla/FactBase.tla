------------------------------- MODULE FactBase -------------------------------
(***************************************************************************)
(* The facts an organisation may be quoted on, and the answer that quotes  *)
(* them.  Six writers touch the facts table: a person typing a fact, the   *)
(* company register, a reading of the organisation's website, an uploaded  *)
(* document, a person confirming, and a person correcting                  *)
(* (src/db/workspace.ts, src/db/onboarding.ts, src/db/documents.ts).       *)
(*                                                                         *)
(* The slow operations (a page or a document read by a model, an answer    *)
(* drafted by one, a person looking at a page before clicking) read the    *)
(* facts in one transaction and act in a later one; whatever commits in    *)
(* between is not seen.  A correction also reads and writes apart, within  *)
(* one READ COMMITTED transaction.                                         *)
(*                                                                         *)
(* One organisation, one question.  A fact is its claim and its value; the *)
(* seen field of a row is history: what the person who confirmed it had    *)
(* before their eyes, or typed.                                            *)
(***************************************************************************)
EXTENDS Integers, FiniteSets, Sequences

CONSTANTS
    Claims,     \* what facts are about
    Values,     \* what they say of it
    People,     \* members with a page open
    Docs,       \* bound: documents uploaded, each once
    Slots,      \* bound: facts proposed by one reading of the website
    MaxFixes,   \* bound: corrections made
    MaxCited,   \* bound: sentences of a draft that cite a fact
    MaxBusy,    \* bound: slow operations under way at one moment
    None        \* NULL, no row, nobody, nothing in progress

ASSUME BoundsAssumption ==
    Slots \in Nat /\ MaxFixes \in Nat /\ MaxCited \in Nat /\ MaxBusy \in Nat
ASSUME DocsAssumption == Docs \cap {"typed", "register", "page"} = {}

\* The primary keys: by claim for what is typed and registered, by position
\* on the page for the website, fresh for documents and corrections.
Self(c) == <<"self", c>>
Register(c) == <<"register", c>>
Web(n) == <<"web", n>>
Doc(d) == <<"document", d>>
Fix(k) == <<"correction", k>>
Ids == {Self(c) : c \in Claims} \cup {Register(c) : c \in Claims}
         \cup {Web(n) : n \in 1 .. Slots} \cup {Doc(d) : d \in Docs}
         \cup {Fix(k) : k \in 1 .. MaxFixes}

Pairs == Claims \X Values
Refs == {"typed", "register", "page"} \cup Docs

Rows == [pair : Pairs, confirmed : BOOLEAN, next : Ids \cup {None},
         ref : Refs, seen : Pairs \cup {None}]

ASSUME NoneAssumption ==
    /\ None \notin Ids /\ None \notin Pairs /\ None \notin Rows

VARIABLES
    facts,    \* the facts table
    desk,     \* per person: the fact they look at, or the correction they make
    reading,  \* what a website being read will propose, in order, or None
    upload,   \* per document: how far it is, and what it will propose
    draft,    \* what the Writer, of what it was given, will cite, or None
    answer    \* what the stored answer's sentences cite: fact and pair

vars == <<facts, desk, reading, upload, draft, answer>>

Proposals == Pairs \cup {None}
Uploads == [state : {"new", "reading", "stored", "removed"}, proposal : Proposals]
NoUpload == [state |-> "new", proposal |-> None]
Idle == [pc |-> "idle"]
Looking == [pc : {"looking"}, fact : Ids, pair : Pairs]
Correcting == [pc : {"correcting"}, fact : Ids, pair : Pairs, ref : Refs]
Citations == Ids \X Pairs

Exists(i) == facts[i] # None
Current(i) == Exists(i) /\ facts[i].next = None
\* isUsableForGeneration: confirmed and not superseded.
Usable(i) == Current(i) /\ facts[i].confirmed

\* The pairs a reading is compared with (loadFacts, then reconcile).
KnownPairs == {facts[i].pair : i \in {j \in Ids : Current(j)}}

\* What reconcile leaves to propose of the n-th claim found: nothing, where it
\* was held when the reading began or was found earlier in the same text.
Proposal(found, n) ==
    IF found[n] \in KnownPairs \/ \E m \in 1 .. n - 1 : found[m] = found[n]
    THEN None ELSE found[n]

\* How many people, readings and drafts are between their read and their write.
UnderWay ==
    Cardinality({p \in People : desk[p] # Idle})
      + Cardinality({d \in Docs : upload[d].state = "reading"})
      + Cardinality({x \in {1} : reading # None}) + Cardinality({x \in {1} : draft # None})
Free == UnderWay < MaxBusy

Init ==
    /\ facts = [i \in Ids |-> None]
    /\ desk = [p \in People |-> Idle]
    /\ reading = None
    /\ upload = [d \in Docs |-> NoUpload]
    /\ draft = None
    /\ answer = {}

-----------------------------------------------------------------------------
(* Plausible wrong versions of the rows written and of the guards.         *)

CandidateConfirmed(pair, ref) ==
    [pair |-> pair, confirmed |-> TRUE, next |-> None, ref |-> ref, seen |-> None]
DeletableByRef(i, d) == Exists(i) /\ facts[i].ref = d
EditedInPlace(f, k, row) ==
    [facts EXCEPT ![f] = IF @ = None THEN None ELSE [@ EXCEPT !.pair = row.pair]]
\* One replacement's id for all corrections made at once, written over.
SupersededInOnePlace(f, k, row) ==
    [facts EXCEPT ![Fix(1)] = row,
                  ![f] = IF @ = None THEN None ELSE [@ EXCEPT !.next = Fix(1)]]
\* A new value read makes the row current again.
RefreshedAnew(old, pair, ref) ==
    IF old = None
    THEN [pair |-> pair, confirmed |-> FALSE, next |-> None, ref |-> ref, seen |-> None]
    ELSE [old EXCEPT !.pair = pair,
                     !.ref = ref,
                     !.confirmed = @ /\ old.pair[2] = pair[2],
                     !.next = IF old.pair[2] = pair[2] THEN @ ELSE None,
                     !.seen = IF old.pair[2] = pair[2] THEN @ ELSE None]

-----------------------------------------------------------------------------
(* Rows.                                                                   *)

\* A proposal of a machine: nobody has confirmed it.
Candidate(pair, ref) ==
    [pair |-> pair, confirmed |-> FALSE, next |-> None, ref |-> ref, seen |-> None]

\* What a person typed is confirmed by their typing it.
Asserted(pair, ref) ==
    [pair |-> pair, confirmed |-> TRUE, next |-> None, ref |-> ref, seen |-> pair]

\* ON CONFLICT DO UPDATE of a register or website row: the value decides
\* whether the confirmation is kept; superseded_by is not among the columns set.
Refreshed(old, pair, ref) ==
    IF old = None THEN Candidate(pair, ref)
    ELSE [old EXCEPT !.pair = pair,
                     !.ref = ref,
                     !.confirmed = @ /\ old.pair[2] = pair[2],
                     !.seen = IF old.pair[2] = pair[2] THEN @ ELSE None]

\* ON CONFLICT DO UPDATE of a typed row: value and confirmation only.
Retyped(old, pair) ==
    IF old = None THEN Asserted(pair, "typed")
    ELSE [old EXCEPT !.pair = pair, !.confirmed = TRUE, !.seen = pair]

\* The unconfirmed, current proposals of a document (deleteDocument).
Deletable(i, d) ==
    Exists(i) /\ facts[i].ref = d /\ ~facts[i].confirmed /\ facts[i].next = None

-----------------------------------------------------------------------------
(* What people type, look at, confirm and correct.                         *)

\* recordSelfDeclaredFact, and saveSelfDeclaredProfile for each field.
TypeFact(c, v) ==
    /\ facts' = [facts EXCEPT ![Self(c)] = Retyped(@, <<c, v>>)]
    /\ UNCHANGED <<desk, reading, upload, draft, answer>>

\* A page is drawn: it lists the current facts as they are now.
LookAt(p, i) ==
    /\ Free
    /\ desk[p] = Idle
    /\ Current(i)
    /\ desk' = [desk EXCEPT ![p] = [pc |-> "looking", fact |-> i, pair |-> facts[i].pair]]
    /\ UNCHANGED <<facts, reading, upload, draft, answer>>

\* confirmFact: the form carries the fact's id and nothing of what was shown.
ConfirmFact(p) ==
    /\ desk[p].pc = "looking"
    /\ LET i == desk[p].fact
       IN facts' = IF Exists(i) /\ ~facts[i].confirmed
                   THEN [facts EXCEPT ![i].confirmed = TRUE, ![i].seen = desk[p].pair]
                   ELSE facts
    /\ desk' = [desk EXCEPT ![p] = Idle]
    /\ UNCHANGED <<reading, upload, draft, answer>>

\* correctFact reads the original: its claim is copied, its value replaced.
\* An original that is gone ends the correction.
ReadOriginal(p, v) ==
    /\ desk[p].pc = "looking"
    /\ LET i == desk[p].fact
       IN desk' = [desk EXCEPT ![p] =
                     IF Exists(i)
                     THEN [pc |-> "correcting", fact |-> i,
                           pair |-> <<facts[i].pair[1], v>>, ref |-> facts[i].ref]
                     ELSE Idle]
    /\ UNCHANGED <<facts, reading, upload, draft, answer>>

\* The facts after the replacement is inserted and the original marked.
Superseded(f, k, row) ==
    [facts EXCEPT ![Fix(k)] = row,
                  ![f] = IF @ = None THEN None ELSE [@ EXCEPT !.next = Fix(k)]]

\* Its INSERT and UPDATE: nothing asks whether the original is still current.
CorrectFact(p) ==
    /\ desk[p].pc = "correcting"
    /\ \E k \in 1 .. MaxFixes :
        /\ ~Exists(Fix(k))
        /\ \A j \in 1 .. k - 1 : Exists(Fix(j))
        /\ facts' = Superseded(desk[p].fact, k, Asserted(desk[p].pair, desk[p].ref))
    /\ desk' = [desk EXCEPT ![p] = Idle]
    /\ UNCHANGED <<reading, upload, draft, answer>>

-----------------------------------------------------------------------------
(* What machines read.                                                     *)

\* saveRegisterProfile, for the claims the register answers.
ReadRegister(c, v) ==
    /\ facts' = [facts EXCEPT ![Register(c)] = Refreshed(@, <<c, v>>, "register")]
    /\ UNCHANGED <<desk, reading, upload, draft, answer>>

\* readWebsiteAction reads the facts, then the page and the model are awaited.
\* What the page says is chosen here: only the facts read now matter to it.
FetchWebsite ==
    /\ Free
    /\ reading = None
    /\ \E length \in 0 .. Slots : \E found \in [1 .. length -> Pairs] :
         reading' = [n \in 1 .. length |-> Proposal(found, n)]
    /\ UNCHANGED <<facts, desk, upload, draft, answer>>

\* saveWebsiteFacts: the n-th proposal goes into the n-th row of the page.
SaveWebsite ==
    /\ reading # None
    /\ facts' = [i \in Ids |->
                   IF \E n \in DOMAIN reading : i = Web(n) /\ reading[n] # None
                   THEN Refreshed(facts[i], reading[i[2]], "page")
                   ELSE facts[i]]
    /\ reading' = None
    /\ UNCHANGED <<desk, upload, draft, answer>>

\* The page cannot be fetched or read, or the model fails: nothing is saved.
AbandonWebsite ==
    /\ reading # None
    /\ reading' = None
    /\ UNCHANGED <<facts, desk, upload, draft, answer>>

\* uploadDocumentAction reads the facts, then parses and awaits the model.
Upload(d, pair) ==
    /\ Free
    /\ upload[d].state = "new"
    /\ upload' = [upload EXCEPT ![d] =
                    [state |-> "reading", proposal |-> Proposal(<<pair>>, 1)]]
    /\ UNCHANGED <<facts, desk, reading, draft, answer>>

\* One transaction stores the document, its text and its candidate.
SaveDocument(d) ==
    /\ upload[d].state = "reading"
    /\ upload' = [upload EXCEPT ![d] = [state |-> "stored", proposal |-> None]]
    /\ facts' = IF upload[d].proposal = None THEN facts
                ELSE [facts EXCEPT ![Doc(d)] = Candidate(upload[d].proposal, d)]
    /\ UNCHANGED <<desk, reading, draft, answer>>

\* The document cannot be read or saved: no row of it is left.
AbandonUpload(d) ==
    /\ upload[d].state = "reading"
    /\ upload' = [upload EXCEPT ![d] = [state |-> "removed", proposal |-> None]]
    /\ UNCHANGED <<facts, desk, reading, draft, answer>>

\* deleteDocument.  A row that an answer cites or that replaced another
\* cannot be deleted under the foreign keys: the transaction would fail.
DeleteDocument(d) ==
    /\ upload[d].state = "stored"
    /\ \A i \in Ids : Deletable(i, d) =>
        /\ \A cited \in answer : cited[1] # i
        /\ \A j \in Ids : Exists(j) => facts[j].next # i
    /\ upload' = [upload EXCEPT ![d] = [state |-> "removed", proposal |-> None]]
    /\ facts' = [i \in Ids |-> IF Deletable(i, d) THEN None ELSE facts[i]]
    /\ UNCHANGED <<desk, reading, draft, answer>>

-----------------------------------------------------------------------------
(* The answer.                                                             *)

\* draftAnswerAction reads the usable facts, and awaits the Writer.  A draft
\* citing anything it was not given is refused (see DropDraft).
AskWriter ==
    /\ Free
    /\ draft = None
    /\ LET given == {<<i, facts[i].pair>> : i \in {j \in Ids : Usable(j)}}
       IN  /\ given # {}
           /\ \E cited \in SUBSET given :
                /\ Cardinality(cited) <= MaxCited
                /\ draft' = cited
    /\ UNCHANGED <<facts, desk, reading, upload, answer>>

\* The cited facts are not looked at again.  saveAnswer replaces text and
\* citations under the answer's row lock; a cited row that no longer exists
\* fails the foreign key and with it the save.
SaveDraft ==
    /\ draft # None
    /\ \A c \in draft : Exists(c[1])
    /\ answer' = draft
    /\ draft' = None
    /\ UNCHANGED <<facts, desk, reading, upload>>

\* The Writer fails, or cites a source it was never given.
DropDraft ==
    /\ draft # None
    /\ draft' = None
    /\ UNCHANGED <<facts, desk, reading, upload, answer>>

\* saveOwnAnswerAction: a person's own words carry no citations.
WriteOwnAnswer ==
    /\ answer # {}
    /\ answer' = {}
    /\ UNCHANGED <<facts, desk, reading, upload, draft>>

-----------------------------------------------------------------------------
PersonActs(p) ==
    \/ \E i \in Ids : LookAt(p, i)
    \/ ConfirmFact(p)
    \/ \E v \in Values : ReadOriginal(p, v)
    \/ CorrectFact(p)

DocumentActs(d) ==
    \/ \E pair \in Pairs : Upload(d, pair)
    \/ SaveDocument(d)
    \/ AbandonUpload(d)
    \/ DeleteDocument(d)

Next ==
    \/ \E c \in Claims, v \in Values : TypeFact(c, v) \/ ReadRegister(c, v)
    \/ \E p \in People : PersonActs(p)
    \/ FetchWebsite \/ SaveWebsite \/ AbandonWebsite
    \/ \E d \in Docs : DocumentActs(d)
    \/ AskWriter \/ SaveDraft \/ DropDraft \/ WriteOwnAnswer

Spec == Init /\ [][Next]_vars

-----------------------------------------------------------------------------
TypeOK ==
    /\ facts \in [Ids -> Rows \cup {None}]
    /\ desk \in [People -> {Idle} \cup Looking \cup Correcting]
    /\ reading # None => \E length \in 0 .. Slots : reading \in [1 .. length -> Proposals]
    /\ upload \in [Docs -> Uploads]
    /\ draft \in (SUBSET Citations) \cup {None}
    /\ answer \in SUBSET Citations

\* "A fact is not usable until a person has confirmed it" (src/db/workspace.ts:4):
\* whatever a page or the register is read again, corrected or retyped in the
\* meantime, a fact the Writer may use was confirmed by somebody, and unless it
\* came from a source that rewrites its rows, at the claim and value it now has.
CheckedByAPerson ==
    \A i \in Ids : Usable(i) =>
        /\ facts[i].seen # None
        /\ facts[i].ref \notin {"page", "register"} => facts[i].seen = facts[i].pair

\* What a superseded fact leads on to was made later, by a person, about the
\* same claim: going on from it ends at a fact that may be used.  A row of a
\* page may meanwhile have been given another claim.
Replaced(i) == Exists(i) /\ facts[i].next # None
LeadsOn(i) ==
    \E k \in 1 .. MaxFixes :
        /\ facts[i].next = Fix(k)
        /\ Exists(Fix(k)) /\ facts[Fix(k)].confirmed
        /\ \A m \in 1 .. MaxFixes : i = Fix(m) => m < k
        /\ i[1] # "web" => facts[Fix(k)].pair[1] = facts[i].pair[1]
SuccessorsLeadOn == \A i \in Ids : Replaced(i) => LeadsOn(i)

\* What a step may never do to a fact that was corrected, or to a correction.
CorrectionsStay ==
    \A i \in Ids :
        /\ Replaced(i) => Replaced(i)'
        /\ i[1] = "correction" /\ Exists(i) => Exists(i)' /\ facts'[i].pair = facts[i].pair

\* "The original is superseded rather than edited" and "The replacement is
\* confirmed by the person making the correction" (src/db/workspace.ts:81): of
\* two people who correct one fact at once neither loses what they wrote, and
\* no register, page, typed answer or document handled since puts a corrected
\* fact back into use.
CorrectionStands == []SuccessorsLeadOn /\ [][CorrectionsStay]_vars

\* A sentence that cites a document's fact or a correction still rests on
\* the claim and the value it was written from: those rows are never edited,
\* so "an assessor's question can be answered months later" (src/db/workspace.ts:223).
CitedValueStands ==
    \A c \in answer : c[1][1] \in {"document", "correction"} =>
        Exists(c[1]) /\ facts[c[1]].pair = c[2]

\* Every fact the Writer will cite is still there when the draft comes back,
\* so removing a document never makes the save of a draft fail.
CitedFactsExist == draft # None => \A c \in draft : Exists(c[1])

\* What is cited holds, from the draft that is under way to the answer that
\* was stored long ago.
CitationsHold == CitedFactsExist /\ CitedValueStands

-----------------------------------------------------------------------------
(* What comments and messages say that the code does not do.               *)

\* "Anything else would let an application quote a figure nobody ever
\* checked" (src/db/onboarding.ts:237): a usable fact is what the person who
\* confirmed it saw.
ConfirmedWasSeen == \A i \in Ids : Usable(i) => facts[i].seen = facts[i].pair

\* "is confirmed and can be used in an application" (src/app/organisation/actions.ts:130):
\* after a fact is typed, it is usable.
TypedIsUsable ==
    [][\A c \in Claims, v \in Values : TypeFact(c, v) => Usable(Self(c))']_vars
=============================================================================
