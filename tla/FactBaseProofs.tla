---------------------------- MODULE FactBaseProofs ----------------------------
(***************************************************************************)
(* FactBase keeps its type, and its safety properties hold for any number  *)
(* of claims, values, people, documents, proposals and corrections.        *)
(*                                                                         *)
(* What the invariants rest on is which rows can change under whom.  A row *)
(* of a document and a correction are written once: only their             *)
(* confirmation and their successor change, and a confirmed row is never   *)
(* removed.  A person looking at one therefore looks at what it still      *)
(* says, and a draft or an answer citing one cites what it still says.     *)
(* FactsMove says this of a step; it is proved once for every action that  *)
(* writes facts, and the parts of IInv are proved to survive it.           *)
(***************************************************************************)
EXTENDS FactBase, TLAPS

Fixed(i) == i[1] \in {"document", "correction"}

\* What is always true of the row stored under the id i.
AsStored(i, row) ==
    /\ row \in Rows
    /\ row.confirmed => row.seen # None
    /\ row.confirmed /\ i[1] \notin {"web", "register"} => row.seen = row.pair
    /\ i[1] \in {"self", "correction"} => row.confirmed
    /\ i[1] = "web" => row.ref = "page"
    /\ i[1] = "register" => row.ref = "register"
    /\ i[1] \in {"self", "register"} => row.pair[1] = i[2]

RowsKept == \A i \in Ids : Exists(i) => AsStored(i, facts[i])

\* Nothing removes a correction, so the successor of a row is there; and a
\* correction is made when all of a lower number are, so it is the later one.
Chained ==
    /\ SuccessorsLeadOn
    /\ \A k \in 1 .. MaxFixes : Exists(Fix(k)) => \A j \in 1 .. k - 1 : Exists(Fix(j))

\* A document's row appears only with the document.
FreshDocs == \A d \in Docs : upload[d].state \in {"new", "reading"} => ~Exists(Doc(d))

\* What a person looks at: a row written once still says what they see, and
\* any row but a page's is still about what they correct.
Looked ==
    \A p \in People :
        /\ desk[p].pc = "looking" /\ Fixed(desk[p].fact) /\ Exists(desk[p].fact) =>
               facts[desk[p].fact].pair = desk[p].pair
        /\ desk[p].pc = "correcting" /\ desk[p].fact[1] # "web" /\ Exists(desk[p].fact) =>
               facts[desk[p].fact].pair[1] = desk[p].pair[1]
        /\ desk[p].pc # "idle" =>
             /\ \A d \in Docs : desk[p].fact = Doc(d) => upload[d].state \notin {"new", "reading"}
             /\ desk[p].fact[1] # "document" => Exists(desk[p].fact)

\* What is true of a citation, of a draft or of the answer.
Stands(c) ==
    /\ Exists(c[1])
    /\ Fixed(c[1]) => facts[c[1]].confirmed /\ facts[c[1]].pair = c[2]

Cited == /\ draft # None => \A c \in draft : Stands(c)
         /\ \A c \in answer : Stands(c)

FactsType == facts \in [Ids -> Rows \cup {None}]
DeskType == desk \in [People -> {Idle} \cup Looking \cup Correcting]
ReadingType == reading # None =>
                 \E length \in 0 .. Slots : reading \in [1 .. length -> Proposals]
UploadType == upload \in [Docs -> Uploads]
CitationType == draft \in (SUBSET Citations) \cup {None} /\ answer \in SUBSET Citations

IInv ==
    /\ FactsType /\ DeskType /\ ReadingType /\ UploadType /\ CitationType
    /\ RowsKept /\ Chained /\ FreshDocs /\ Looked /\ Cited

\* How the rows may move in one step ...
RowsMove ==
    /\ \A i \in Ids : Exists(i) /\ (facts[i].confirmed \/ i[1] # "document") => Exists(i)'
    /\ \A i \in Ids : Fixed(i) /\ Exists(i) /\ Exists(i)' =>
         /\ facts'[i].pair = facts[i].pair
         /\ facts[i].confirmed => facts'[i].confirmed
    /\ \A i \in Ids : i[1] # "web" /\ Exists(i) /\ Exists(i)' =>
         facts'[i].pair[1] = facts[i].pair[1]
    /\ \A i \in Ids : Replaced(i) => Replaced(i)'

FactsMove == FactsType' /\ RowsKept' /\ Chained' /\ RowsMove

\* ... and how uploads may: forward only, a stored document gaining no row.
DocsMove ==
    \A d \in Docs : upload[d].state \notin {"new", "reading"} =>
        /\ upload'[d].state \notin {"new", "reading"}
        /\ Exists(Doc(d))' => Exists(Doc(d))

-----------------------------------------------------------------------------
(* The rows the writers write.                                             *)

\* A machine's proposal is well formed under any id whose rows may be unconfirmed.
LEMMA CandidateKept ==
    ASSUME NEW i \in Ids, i[1] \in {"web", "register", "document"},
           NEW pair \in Pairs, NEW ref \in Refs,
           i[1] = "web" => ref = "page", i[1] = "register" => ref = "register",
           i[1] = "register" => pair[1] = i[2]
    PROVE  AsStored(i, Candidate(pair, ref)) /\ Candidate(pair, ref).next = None
BY DEF AsStored, Candidate, Rows

\* What a person asserts is well formed under the id of a typed row or a correction.
LEMMA AssertedKept ==
    ASSUME NEW i \in Ids, i[1] \in {"self", "correction"}, NEW pair \in Pairs, NEW ref \in Refs,
           i[1] = "self" => pair[1] = i[2]
    PROVE  AsStored(i, Asserted(pair, ref)) /\ Asserted(pair, ref).next = None
BY NoneAssumption DEF AsStored, Asserted, Rows

\* A refreshed row is well formed and keeps its successor.
LEMMA RefreshedKept ==
    ASSUME NEW i \in Ids, i[1] \in {"web", "register"}, NEW pair \in Pairs, NEW ref \in Refs,
           i[1] = "web" => ref = "page", i[1] = "register" => ref = "register",
           i[1] = "register" => pair[1] = i[2], NEW old, old # None => AsStored(i, old)
    PROVE  LET row == Refreshed(old, pair, ref)
           IN  AsStored(i, row) /\ row.next = IF old = None THEN None ELSE old.next
<1>1. CASE old = None
  BY <1>1, CandidateKept DEF Refreshed
<1>2. CASE old # None
  <2> DEFINE row == [old EXCEPT !.pair = pair, !.ref = ref,
                       !.confirmed = old.confirmed /\ old.pair[2] = pair[2],
                       !.seen = IF old.pair[2] = pair[2] THEN old.seen ELSE None]
  <2>1. Refreshed(old, pair, ref) = row
    BY <1>2 DEF Refreshed
  <2>2. old \in Rows /\ (old.confirmed => old.seen # None)
    BY <1>2 DEF AsStored
  <2>3. row \in Rows
    BY <2>2 DEF Rows
  <2>4. /\ row.pair = pair /\ row.ref = ref /\ row.next = old.next
        /\ row.seen = IF old.pair[2] = pair[2] THEN old.seen ELSE None
    BY <2>2 DEF Rows
  <2>5. row.confirmed => old.confirmed /\ old.pair[2] = pair[2]
    BY <2>2 DEF Rows
  <2> HIDE DEF row
  <2> QED BY <1>2, <2>1, <2>2, <2>3, <2>4, <2>5 DEF AsStored
<1> QED BY <1>1, <1>2

\* A retyped row is well formed and keeps its successor.
LEMMA RetypedKept ==
    ASSUME NEW i \in Ids, i[1] = "self", NEW pair \in Pairs, pair[1] = i[2],
           NEW old, old # None => AsStored(i, old)
    PROVE  LET row == Retyped(old, pair)
           IN  AsStored(i, row) /\ row.next = IF old = None THEN None ELSE old.next
<1>1. CASE old = None
  <2>1. "typed" \in Refs
    BY DEF Refs
  <2> QED BY <1>1, <2>1, AssertedKept DEF Retyped
<1>2. CASE old # None
  <2>1. old \in Rows
    BY <1>2 DEF AsStored
  <2>2. Retyped(old, pair) = [old EXCEPT !.pair = pair, !.confirmed = TRUE, !.seen = pair]
    BY <1>2 DEF Retyped
  <2> QED BY <1>2, <2>1, <2>2, NoneAssumption DEF AsStored, Rows
<1> QED BY <1>1, <1>2

-----------------------------------------------------------------------------
(* Every action moves the facts as FactsMove says.                         *)

\* Rows that move so, none of them newly superseded, stay chained.
LEMMA ChainKept ==
    ASSUME IInv, FactsType', RowsMove,
           \A i \in Ids : Replaced(i)' => Replaced(i) /\ facts'[i].next = facts[i].next,
           \A k \in 1 .. MaxFixes :
               Exists(Fix(k))' => Exists(Fix(k)) \/ \A j \in 1 .. k - 1 : Exists(Fix(j))
    PROVE  Chained'
<1>1. \A k \in 1 .. MaxFixes :
         Fix(k) \in Ids /\ Fix(k)[1] = "correction" /\ (Exists(Fix(k)) => Exists(Fix(k))')
  BY DEF Ids, Fix, RowsMove
<1>2. ASSUME NEW i \in Ids, Replaced(i)'
      PROVE  LeadsOn(i)'
  <2>1. Replaced(i) /\ facts'[i].next = facts[i].next
    BY <1>2
  <2>2. PICK k \in 1 .. MaxFixes :
          /\ facts[i].next = Fix(k)
          /\ Exists(Fix(k)) /\ facts[Fix(k)].confirmed
          /\ \A m \in 1 .. MaxFixes : i = Fix(m) => m < k
          /\ i[1] # "web" => facts[Fix(k)].pair[1] = facts[i].pair[1]
    BY <2>1 DEF IInv, Chained, SuccessorsLeadOn, LeadsOn
  <2>3. Exists(Fix(k))' /\ facts'[Fix(k)].confirmed /\ facts'[Fix(k)].pair = facts[Fix(k)].pair
    BY <1>1, <2>2 DEF RowsMove, Fixed
  <2>4. i[1] # "web" => facts'[i].pair[1] = facts[i].pair[1]
    BY <1>2, <2>1 DEF RowsMove, Replaced
  <2> QED BY <2>1, <2>2, <2>3, <2>4 DEF LeadsOn
<1>3. ASSUME NEW k \in 1 .. MaxFixes, Exists(Fix(k))', NEW j \in 1 .. k - 1
      PROVE  Exists(Fix(j))'
  <2>1. Exists(Fix(j))
    BY <1>3 DEF IInv, Chained
  <2>2. j \in 1 .. MaxFixes
    BY BoundsAssumption
  <2> QED BY <1>1, <2>1, <2>2
<1> QED BY <1>2, <1>3 DEF Chained, SuccessorsLeadOn

\* One row written, as an insertion or an update: the facts move as they may.
LEMMA OneRow ==
    ASSUME IInv, NEW i \in Ids, NEW row, AsStored(i, row),
           facts' = [facts EXCEPT ![i] = row],
           row.next = IF Exists(i) THEN facts[i].next ELSE None,
           Fixed(i) /\ Exists(i) => row.pair = facts[i].pair /\ (facts[i].confirmed => row.confirmed),
           \A k \in 1 .. MaxFixes :
               i = Fix(k) => Exists(i) \/ \A j \in 1 .. k - 1 : Exists(Fix(j))
    PROVE  FactsMove
<1>1. row \in Rows /\ row # None
  BY NoneAssumption DEF AsStored
<1>2. /\ facts' \in [Ids -> Rows \cup {None}]
      /\ facts'[i] = row
      /\ \A j \in Ids : j # i => facts'[j] = facts[j]
  BY <1>1 DEF IInv, FactsType
<1>3. RowsKept'
  BY <1>1, <1>2 DEF IInv, RowsKept, Exists, AsStored
<1>4. \A j \in Ids : Exists(j) => Exists(j)'
  BY <1>1, <1>2 DEF Exists
<1>5. \A j \in Ids : Fixed(j) /\ Exists(j) /\ Exists(j)' =>
         /\ facts'[j].pair = facts[j].pair
         /\ facts[j].confirmed => facts'[j].confirmed
  BY <1>2
<1>6. \A j \in Ids : j[1] # "web" /\ Exists(j) /\ Exists(j)' =>
         facts'[j].pair[1] = facts[j].pair[1]
  <2> TAKE j \in Ids
  <2>1. j[1] \in {"self", "register", "web", "document", "correction"}
    BY DEF Ids, Self, Register, Web, Doc, Fix
  <2>2. Exists(j) => AsStored(j, facts[j])
    BY DEF IInv, RowsKept
  <2> QED BY <1>2, <1>5, <2>1, <2>2 DEF AsStored, Fixed
<1>7. \A j \in Ids : /\ Replaced(j) => Replaced(j)'
                     /\ Replaced(j)' => Replaced(j) /\ facts'[j].next = facts[j].next
  BY <1>1, <1>2 DEF Replaced, Exists
<1>8. RowsMove
  BY <1>4, <1>5, <1>6, <1>7 DEF RowsMove
<1>9. \A k \in 1 .. MaxFixes :
         Exists(Fix(k))' => Exists(Fix(k)) \/ \A j \in 1 .. k - 1 : Exists(Fix(j))
  <2>1. \A k \in 1 .. MaxFixes : Fix(k) \in Ids
    BY DEF Ids
  <2> QED BY <1>2, <2>1 DEF Exists
<1>10. Chained'
  BY <1>2, <1>7, <1>8, <1>9, ChainKept DEF FactsType
<1> QED BY <1>2, <1>3, <1>8, <1>10 DEF FactsMove, FactsType

\* A step that leaves the facts alone.
LEMMA NoRow ==
    ASSUME IInv, UNCHANGED facts
    PROVE  FactsMove
<1>1. FactsType' /\ RowsKept'
  BY DEF IInv, FactsType, RowsKept, Exists, AsStored
<1>2. RowsMove
  BY DEF RowsMove, Replaced, Exists
<1>3. Chained'
  BY <1>1, <1>2, ChainKept DEF Replaced, Exists
<1> QED BY <1>1, <1>2, <1>3 DEF FactsMove

LEMMA TypeFactMoves ==
    ASSUME IInv, NEW c \in Claims, NEW v \in Values, TypeFact(c, v)
    PROVE  FactsMove
<1> DEFINE row == Retyped(facts[Self(c)], <<c, v>>)
<1>1. /\ Self(c) \in Ids /\ Self(c)[1] = "self" /\ <<c, v>> \in Pairs
      /\ <<c, v>>[1] = Self(c)[2] /\ \A k \in 1 .. MaxFixes : Self(c) # Fix(k)
  BY DEF Ids, Self, Pairs, Fix
<1>2. facts[Self(c)] # None => AsStored(Self(c), facts[Self(c)])
  BY <1>1 DEF IInv, RowsKept, Exists
<1>3. AsStored(Self(c), row) /\ row.next = IF Exists(Self(c)) THEN facts[Self(c)].next ELSE None
  BY <1>1, <1>2, RetypedKept DEF Exists
<1>4. facts' = [facts EXCEPT ![Self(c)] = row]
  BY DEF TypeFact
<1> HIDE DEF row
<1> QED BY <1>1, <1>3, <1>4, OneRow DEF Fixed

LEMMA ReadRegisterMoves ==
    ASSUME IInv, NEW c \in Claims, NEW v \in Values, ReadRegister(c, v)
    PROVE  FactsMove
<1> DEFINE row == Refreshed(facts[Register(c)], <<c, v>>, "register")
<1>1. /\ Register(c) \in Ids /\ Register(c)[1] = "register"
      /\ <<c, v>> \in Pairs /\ "register" \in Refs
      /\ <<c, v>>[1] = Register(c)[2] /\ \A k \in 1 .. MaxFixes : Register(c) # Fix(k)
  BY DEF Ids, Register, Pairs, Refs, Fix
<1>2. facts[Register(c)] # None => AsStored(Register(c), facts[Register(c)])
  BY <1>1 DEF IInv, RowsKept, Exists
<1>3. /\ AsStored(Register(c), row)
      /\ row.next = IF Exists(Register(c)) THEN facts[Register(c)].next ELSE None
  BY <1>1, <1>2, RefreshedKept DEF Exists
<1>4. facts' = [facts EXCEPT ![Register(c)] = row]
  BY DEF ReadRegister
<1> HIDE DEF row
<1> QED BY <1>1, <1>3, <1>4, OneRow DEF Fixed

LEMMA ConfirmMoves ==
    ASSUME IInv, NEW p \in People, ConfirmFact(p)
    PROVE  FactsMove
<1> DEFINE i == desk[p].fact
<1>1. desk[p] \in Looking /\ i \in Ids /\ desk[p].pair \in Pairs
  BY DEF IInv, DeskType, ConfirmFact, Idle, Looking, Correcting
<1>2. CASE ~(Exists(i) /\ ~facts[i].confirmed)
  <2>1. UNCHANGED facts
    BY <1>2 DEF ConfirmFact
  <2> QED BY <2>1, NoRow
<1>3. CASE Exists(i) /\ ~facts[i].confirmed
  <2> DEFINE row == [facts[i] EXCEPT !.confirmed = TRUE, !.seen = desk[p].pair]
  <2>1. facts' = [facts EXCEPT ![i] = row]
    BY <1>1, <1>3 DEF ConfirmFact, IInv, FactsType
  <2>2. AsStored(i, facts[i]) /\ facts[i] \in Rows
    BY <1>1, <1>3 DEF IInv, RowsKept, AsStored
  <2>3. /\ row \in Rows /\ row.pair = facts[i].pair /\ row.ref = facts[i].ref
        /\ row.next = facts[i].next /\ row.seen = desk[p].pair /\ row.seen # None /\ row.confirmed
    BY <1>1, <2>2, NoneAssumption DEF Rows
  <2>4. i[1] \notin {"self", "correction"}
    BY <1>3, <2>2 DEF AsStored
  <2>5. i[1] \in {"self", "register", "web", "document", "correction"}
    BY <1>1 DEF Ids, Self, Register, Web, Doc, Fix
  <2>6. i[1] = "document" => facts[i].pair = desk[p].pair
    BY <1>1, <1>3 DEF IInv, Looked, Fixed, Looking
  <2>7. AsStored(i, row)
    BY <2>2, <2>3, <2>4, <2>5, <2>6 DEF AsStored
  <2> HIDE DEF row
  <2> QED BY <1>1, <1>3, <2>1, <2>3, <2>7, OneRow
<1> QED BY <1>2, <1>3

LEMMA CorrectMoves ==
    ASSUME IInv, NEW p \in People, CorrectFact(p)
    PROVE  FactsMove
<1> DEFINE row == Asserted(desk[p].pair, desk[p].ref)
<1>9. desk[p] \in Correcting /\ desk[p].pair \in Pairs /\ desk[p].ref \in Refs
  BY DEF IInv, DeskType, CorrectFact, Idle, Looking, Correcting
<1>1. PICK f \in Ids : f = desk[p].fact
  BY <1>9 DEF Correcting
<1>2. PICK k \in 1 .. MaxFixes :
        /\ ~Exists(Fix(k)) /\ \A j \in 1 .. k - 1 : Exists(Fix(j))
        /\ facts' = Superseded(f, k, row)
  BY <1>1 DEF CorrectFact
<1>3. Fix(k) \in Ids /\ Fix(k)[1] = "correction" /\ f # Fix(k)
  BY <1>1, <1>2, <1>9 DEF Ids, Fix, IInv, Looked, Correcting
<1>8. \A j \in 1 .. MaxFixes : j = k <=> Fix(j) = Fix(k)
  BY DEF Fix
<1>4. AsStored(Fix(k), row) /\ row.next = None /\ row \in Rows /\ row # None
  BY <1>3, <1>9, AssertedKept, NoneAssumption DEF AsStored
<1> HIDE DEF row
<1>5. facts \in [Ids -> Rows \cup {None}]
  BY DEF IInv, FactsType
<1>6. CASE ~Exists(f)
  <2>1. facts' = [facts EXCEPT ![Fix(k)] = row]
    BY <1>1, <1>2, <1>3, <1>5, <1>6 DEF Superseded, Exists
  <2> QED BY <1>2, <1>3, <1>4, <1>8, <2>1, OneRow
<1>7. CASE Exists(f)
  <2> DEFINE old == [facts[f] EXCEPT !.next = Fix(k)]
  <2>1. AsStored(f, facts[f]) /\ facts[f] \in Rows
    BY <1>1, <1>7 DEF IInv, RowsKept, AsStored
  <2>2. /\ old \in Rows /\ old.pair = facts[f].pair /\ old.confirmed = facts[f].confirmed
        /\ old.ref = facts[f].ref /\ old.seen = facts[f].seen /\ old.next = Fix(k)
    BY <1>3, <2>1 DEF Rows
  <2>3. AsStored(f, old) /\ old # None
    BY <2>1, <2>2, NoneAssumption DEF AsStored
  <2>4. facts' = [facts EXCEPT ![Fix(k)] = row, ![f] = old]
    BY <1>1, <1>2, <1>3, <1>5, <1>7 DEF Superseded, Exists
  <2> HIDE DEF old
  <2>5. /\ facts' \in [Ids -> Rows \cup {None}] /\ facts'[f] = old /\ facts'[Fix(k)] = row
        /\ \A j \in Ids : j # f /\ j # Fix(k) => facts'[j] = facts[j]
    BY <1>1, <1>3, <1>4, <1>5, <2>2, <2>4
  <2>6. RowsKept'
    BY <1>4, <2>3, <2>5 DEF IInv, RowsKept, Exists, AsStored
  <2>7. \A j \in Ids : Exists(j) => Exists(j)'
    BY <1>4, <2>3, <2>5 DEF Exists
  <2>8. \A j \in Ids : Fixed(j) /\ Exists(j) /\ Exists(j)' =>
           /\ facts'[j].pair = facts[j].pair
           /\ facts[j].confirmed => facts'[j].confirmed
    <3> TAKE j \in Ids
    <3>1. CASE j = f
      BY <2>2, <2>5, <3>1
    <3>2. CASE j # f
      BY <1>2, <2>5, <3>2
    <3> QED BY <3>1, <3>2
  <2>9. \A j \in Ids : Exists(j) => facts'[j].pair = facts[j].pair
    BY <1>2, <2>2, <2>5
  <2>10. \A j \in Ids : j # f => /\ Replaced(j) => Replaced(j)'
                                 /\ Replaced(j)' => Replaced(j) /\ facts'[j].next = facts[j].next
    BY <1>2, <1>4, <2>5 DEF Replaced, Exists
  <2>11. Replaced(f)' /\ Fix(k) # None
    BY <1>3, <2>2, <2>3, <2>5, NoneAssumption DEF Replaced, Exists
  <2>12. RowsMove
    BY <2>7, <2>8, <2>9, <2>10, <2>11 DEF RowsMove
  <2>13. LeadsOn(f)'
    <3>1. Exists(Fix(k))' /\ facts'[Fix(k)].confirmed /\ facts'[f].next = Fix(k)
      BY <1>3, <1>4, <2>2, <2>5 DEF Exists, AsStored
    <3>2. \A m \in 1 .. MaxFixes : f = Fix(m) => m < k
      <4> SUFFICES ASSUME NEW m \in 1 .. MaxFixes, f = Fix(m), m > k
                   PROVE  FALSE
        BY <1>3, BoundsAssumption
      <4>1. k \in 1 .. m - 1
        BY BoundsAssumption
      <4> QED BY <1>2, <1>7, <4>1 DEF IInv, Chained
    <3>3. f[1] # "web" => facts'[Fix(k)].pair[1] = facts'[f].pair[1]
      <4>1. f[1] # "web" => facts[f].pair[1] = desk[p].pair[1]
        BY <1>1, <1>7, <1>9 DEF IInv, Looked, Correcting
      <4>2. facts'[Fix(k)].pair = desk[p].pair
        BY <2>5 DEF row, Asserted
      <4> QED BY <1>1, <1>7, <2>9, <4>1, <4>2
    <3> QED BY <3>1, <3>2, <3>3 DEF LeadsOn
  <2>14. Chained'
    <3>1. ASSUME NEW j \in Ids, Replaced(j)', j # f
          PROVE  LeadsOn(j)'
      <4>1. Replaced(j) /\ facts'[j].next = facts[j].next
        BY <2>10, <3>1
      <4>2. PICK m \in 1 .. MaxFixes :
              /\ facts[j].next = Fix(m)
              /\ Exists(Fix(m)) /\ facts[Fix(m)].confirmed
              /\ \A n \in 1 .. MaxFixes : j = Fix(n) => n < m
              /\ j[1] # "web" => facts[Fix(m)].pair[1] = facts[j].pair[1]
        BY <4>1 DEF IInv, Chained, SuccessorsLeadOn, LeadsOn
      <4>3. Fix(m) \in Ids /\ Fix(m)[1] = "correction"
        BY DEF Ids, Fix
      <4>4. Exists(Fix(m))' /\ facts'[Fix(m)].confirmed
        BY <2>7, <2>8, <4>2, <4>3 DEF Fixed
      <4>5. facts'[Fix(m)].pair = facts[Fix(m)].pair /\ facts'[j].pair = facts[j].pair
        BY <2>9, <4>1, <4>2, <4>3 DEF Replaced
      <4> QED BY <4>1, <4>2, <4>4, <4>5 DEF LeadsOn
    <3>2. ASSUME NEW m \in 1 .. MaxFixes, Exists(Fix(m))', NEW j \in 1 .. m - 1
          PROVE  Exists(Fix(j))'
      <4>1. Fix(m) \in Ids /\ Fix(j) \in Ids /\ j \in 1 .. MaxFixes
        BY BoundsAssumption DEF Ids
      <4>2. CASE m = k
        BY <1>2, <2>7, <3>2, <4>1, <4>2
      <4>3. CASE m # k
        <5>1. Exists(Fix(m))
          <6>1. Fix(m) # Fix(k)
            BY <1>8, <4>3
          <6>2. CASE Fix(m) = f
            BY <1>7, <6>2
          <6>3. CASE Fix(m) # f
            BY <2>5, <3>2, <4>1, <6>1, <6>3 DEF Exists
          <6> QED BY <6>2, <6>3
        <5>2. Exists(Fix(j))
          BY <3>2, <5>1 DEF IInv, Chained
        <5> QED BY <2>7, <4>1, <5>2
      <4> QED BY <4>2, <4>3
    <3> QED BY <2>13, <3>1, <3>2 DEF Chained, SuccessorsLeadOn
  <2> QED BY <2>5, <2>6, <2>12, <2>14 DEF FactsMove, FactsType
<1> QED BY <1>6, <1>7

LEMMA SaveWebsiteMoves ==
    ASSUME IInv, SaveWebsite
    PROVE  FactsMove
<1> DEFINE Written(i) == \E n \in DOMAIN reading : i = Web(n) /\ reading[n] # None
           row(i) == Refreshed(facts[i], reading[i[2]], "page")
<1>1. facts' = [i \in Ids |-> IF Written(i) THEN row(i) ELSE facts[i]]
  BY DEF SaveWebsite
<1>2. ASSUME NEW i \in Ids, Written(i)
      PROVE  /\ i[1] = "web" /\ row(i) \in Rows /\ row(i) # None /\ AsStored(i, row(i))
             /\ row(i).next = IF Exists(i) THEN facts[i].next ELSE None
  <2>1. i[1] = "web" /\ reading[i[2]] \in Pairs
    BY <1>2 DEF SaveWebsite, IInv, ReadingType, Proposals, Web
  <2>2. facts[i] # None => AsStored(i, facts[i])
    BY <1>2 DEF IInv, RowsKept, Exists
  <2>3. "page" \in Refs
    BY DEF Refs
  <2>4. AsStored(i, row(i)) /\ row(i).next = IF Exists(i) THEN facts[i].next ELSE None
    BY <2>1, <2>2, <2>3, RefreshedKept DEF Exists
  <2> QED BY <2>1, <2>4, NoneAssumption DEF AsStored
<1>3. facts \in [Ids -> Rows \cup {None}]
  BY DEF IInv, FactsType
<1>4. \A i \in Ids : \/ i[1] = "web" /\ facts'[i] \in Rows /\ facts'[i] # None /\ AsStored(i, facts'[i])
                         /\ facts'[i].next = IF Exists(i) THEN facts[i].next ELSE None
                     \/ facts'[i] = facts[i]
  <2> HIDE DEF Written, row
  <2> QED BY <1>1, <1>2
<1>5. FactsType'
  <2>1. \A i \in Ids : facts'[i] \in Rows \cup {None}
    BY <1>3, <1>4
  <2>2. facts' = [i \in Ids |-> facts'[i]]
    <3> HIDE DEF Written, row
    <3> QED BY <1>1
  <2> QED BY <2>1, <2>2 DEF FactsType
<1>6. RowsKept'
  BY <1>4 DEF IInv, RowsKept, Exists, AsStored
<1>7. \A i \in Ids : Exists(i) => Exists(i)'
  BY <1>4 DEF Exists
<1>8. RowsMove
  <2>1. \A i \in Ids : i[1] # "web" => facts'[i] = facts[i]
    BY <1>4
  <2>2. \A i \in Ids : Replaced(i) => Replaced(i)'
    BY <1>4 DEF Replaced, Exists
  <2> QED BY <1>7, <2>1, <2>2 DEF RowsMove, Fixed
<1>9. Chained'
  <2>1. \A i \in Ids : Replaced(i)' => Replaced(i) /\ facts'[i].next = facts[i].next
    BY <1>4 DEF Replaced, Exists
  <2>2. \A k \in 1 .. MaxFixes : Exists(Fix(k))' => Exists(Fix(k))
    <3>1. \A k \in 1 .. MaxFixes : Fix(k) \in Ids /\ Fix(k)[1] # "web"
      BY DEF Ids, Fix
    <3> QED BY <1>4, <3>1 DEF Exists
  <2> QED BY <1>5, <1>8, <2>1, <2>2, ChainKept
<1> QED BY <1>5, <1>6, <1>8, <1>9 DEF FactsMove

LEMMA SaveDocumentMoves ==
    ASSUME IInv, NEW d \in Docs, SaveDocument(d)
    PROVE  FactsMove
<1>1. CASE upload[d].proposal = None
  <2>1. UNCHANGED facts
    BY <1>1 DEF SaveDocument
  <2> QED BY <2>1, NoRow
<1>2. CASE upload[d].proposal # None
  <2> DEFINE row == Candidate(upload[d].proposal, d)
  <2>1. upload[d].proposal \in Pairs
    BY <1>2 DEF IInv, UploadType, Uploads, Proposals
  <2>2. /\ Doc(d) \in Ids /\ Doc(d)[1] = "document" /\ d \in Refs
        /\ \A k \in 1 .. MaxFixes : Doc(d) # Fix(k)
    BY DEF Ids, Doc, Refs, Fix
  <2>3. AsStored(Doc(d), row) /\ row.next = None
    BY <2>1, <2>2, CandidateKept
  <2>4. ~Exists(Doc(d))
    BY DEF SaveDocument, IInv, FreshDocs
  <2>5. facts' = [facts EXCEPT ![Doc(d)] = row]
    BY <1>2 DEF SaveDocument
  <2> HIDE DEF row
  <2> QED BY <2>2, <2>3, <2>4, <2>5, OneRow
<1> QED BY <1>1, <1>2

\* What is removed is unconfirmed and no row of a register or a page, so it
\* is a document's; and nothing it replaced points at it.
LEMMA DeleteDocumentMoves ==
    ASSUME IInv, NEW d \in Docs, DeleteDocument(d)
    PROVE  FactsMove
<1>1. facts' = [i \in Ids |-> IF Deletable(i, d) THEN None ELSE facts[i]]
  BY DEF DeleteDocument
<1>2. facts \in [Ids -> Rows \cup {None}]
  BY DEF IInv, FactsType
<1>3. ASSUME NEW i \in Ids, Deletable(i, d)
      PROVE  i[1] = "document" /\ ~facts[i].confirmed
  <2>1. AsStored(i, facts[i]) /\ facts[i].ref = d /\ ~facts[i].confirmed
    BY <1>3 DEF Deletable, IInv, RowsKept
  <2>2. d \notin {"typed", "register", "page"}
    BY DocsAssumption
  <2>3. i[1] \in {"self", "register", "web", "document", "correction"}
    BY DEF Ids, Self, Register, Web, Doc, Fix
  <2> QED BY <2>1, <2>2, <2>3 DEF AsStored
<1>4. \A i \in Ids : \/ Deletable(i, d) /\ facts'[i] = None
                     \/ ~Deletable(i, d) /\ facts'[i] = facts[i]
  BY <1>1
<1>5. FactsType'
  BY <1>1, <1>2 DEF FactsType
<1>6. RowsKept'
  BY <1>4 DEF IInv, RowsKept, Exists, AsStored
<1>7. \A i \in Ids : Exists(i) /\ (facts[i].confirmed \/ i[1] # "document") => Exists(i)'
  BY <1>3, <1>4 DEF Exists
<1>8. RowsMove
  <2>1. \A i \in Ids : Exists(i)' => facts'[i] = facts[i]
    BY <1>4 DEF Exists
  <2>2. \A i \in Ids : Replaced(i) => Replaced(i)'
    BY <1>4 DEF Replaced, Exists, Deletable
  <2> QED BY <1>7, <2>1, <2>2 DEF RowsMove
<1>9. Chained'
  <2>1. \A i \in Ids : Replaced(i)' => Replaced(i) /\ facts'[i].next = facts[i].next
    BY <1>4 DEF Replaced, Exists
  <2>2. \A k \in 1 .. MaxFixes : Exists(Fix(k))' => Exists(Fix(k))
    <3>1. \A k \in 1 .. MaxFixes : Fix(k) \in Ids
      BY DEF Ids
    <3> QED BY <1>4, <3>1 DEF Exists
  <2> QED BY <1>5, <1>8, <2>1, <2>2, ChainKept
<1> QED BY <1>5, <1>6, <1>8, <1>9 DEF FactsMove

\* Every step moves the facts as FactsMove says.
LEMMA NextMoves ==
    ASSUME IInv, [Next]_vars
    PROVE  FactsMove
<1>1. CASE UNCHANGED facts
  BY <1>1, NoRow
<1>2. CASE \E c \in Claims, v \in Values : TypeFact(c, v) \/ ReadRegister(c, v)
  BY <1>2, TypeFactMoves, ReadRegisterMoves
<1>3. CASE \E p \in People : PersonActs(p)
  <2>1. PICK p \in People : PersonActs(p)
    BY <1>3
  <2>2. ConfirmFact(p) \/ CorrectFact(p) \/ UNCHANGED facts
    BY <2>1 DEF PersonActs, LookAt, ReadOriginal
  <2> QED BY <1>1, <2>2, ConfirmMoves, CorrectMoves
<1>4. CASE \E d \in Docs : DocumentActs(d)
  <2>1. PICK d \in Docs : DocumentActs(d)
    BY <1>4
  <2>2. SaveDocument(d) \/ DeleteDocument(d) \/ UNCHANGED facts
    BY <2>1 DEF DocumentActs, Upload, AbandonUpload
  <2> QED BY <1>1, <2>2, SaveDocumentMoves, DeleteDocumentMoves
<1>5. CASE SaveWebsite
  BY <1>5, SaveWebsiteMoves
<1> QED
  BY <1>1, <1>2, <1>3, <1>4, <1>5
  DEF Next, vars, FetchWebsite, AbandonWebsite, AskWriter, SaveDraft, DropDraft, WriteOwnAnswer

-----------------------------------------------------------------------------
(* The rest of the invariant survives a step that moves the facts so.      *)

\* An upload only moves forward, and a document's row comes with its storing.
LEMMA UploadsKept ==
    ASSUME IInv, [Next]_vars
    PROVE  UploadType' /\ FreshDocs' /\ DocsMove
<1> USE DEF DocsMove, IInv, UploadType, FreshDocs, Uploads, Exists
<1>1. CASE UNCHANGED <<facts, upload>>
  BY <1>1
<1>2. CASE UNCHANGED upload /\ \A d \in Docs : facts'[Doc(d)] # None => facts[Doc(d)] # None
  BY <1>2
<1>3. facts \in [Ids -> Rows \cup {None}] /\ (\A d \in Docs : Doc(d) \in Ids)
  BY DEF FactsType, Ids
<1>4. ASSUME NEW p \in People, ConfirmFact(p) \/ CorrectFact(p)
      PROVE  UNCHANGED upload /\ \A d \in Docs : facts'[Doc(d)] # None => facts[Doc(d)] # None
  <2>1. CASE ConfirmFact(p)
    BY <1>3, <2>1 DEF ConfirmFact
  <2>2. CASE CorrectFact(p)
    BY <1>3, <2>2 DEF CorrectFact, Superseded, Fix, Doc
  <2> QED BY <1>4, <2>1, <2>2
<1>5. ASSUME NEW c \in Claims, NEW v \in Values, TypeFact(c, v) \/ ReadRegister(c, v)
      PROVE  UNCHANGED upload /\ \A d \in Docs : facts'[Doc(d)] # None => facts[Doc(d)] # None
  <2>1. CASE TypeFact(c, v)
    BY <1>3, <2>1 DEF TypeFact, Self, Doc
  <2>2. CASE ReadRegister(c, v)
    BY <1>3, <2>2 DEF ReadRegister, Register, Doc
  <2> QED BY <1>5, <2>1, <2>2
<1>6. ASSUME SaveWebsite
      PROVE  UNCHANGED upload /\ \A d \in Docs : facts'[Doc(d)] # None => facts[Doc(d)] # None
  BY <1>3, <1>6 DEF SaveWebsite, Web, Doc
<1>7. ASSUME NEW d \in Docs, DocumentActs(d)
      PROVE  UploadType' /\ FreshDocs' /\ DocsMove
  <2>1. CASE \E pair \in Pairs : Upload(d, pair)
    <3>1. PICK pair \in Pairs : Upload(d, pair)
      BY <2>1
    <3>2. Proposal(<<pair>>, 1) \in Proposals
      BY DEF Proposal, Proposals
    <3> QED BY <3>1, <3>2 DEF Upload
  <2>2. CASE SaveDocument(d)
    <3>1. None \in Proposals
      BY DEF Proposals
    <3>2. UploadType'
      BY <2>2, <3>1 DEF SaveDocument
    <3>3. \A e \in Docs : e # d => facts'[Doc(e)] = facts[Doc(e)]
      BY <1>3, <2>2 DEF SaveDocument, Doc
    <3> QED BY <2>2, <3>2, <3>3 DEF SaveDocument
  <2>3. CASE AbandonUpload(d)
    <3>1. None \in Proposals
      BY DEF Proposals
    <3> QED BY <2>3, <3>1 DEF AbandonUpload
  <2>4. CASE DeleteDocument(d)
    <3>1. None \in Proposals
      BY DEF Proposals
    <3>2. UploadType'
      BY <2>4, <3>1 DEF DeleteDocument
    <3>3. \A e \in Docs : facts'[Doc(e)] # None => facts[Doc(e)] # None
      BY <1>3, <2>4 DEF DeleteDocument
    <3> QED BY <2>4, <3>2, <3>3 DEF DeleteDocument
  <2> QED BY <1>7, <2>1, <2>2, <2>3, <2>4 DEF DocumentActs
<1>8. CASE \E p \in People : PersonActs(p)
  BY <1>1, <1>2, <1>4, <1>8 DEF PersonActs, LookAt, ReadOriginal
<1> QED
  BY <1>1, <1>2, <1>5, <1>6, <1>7, <1>8
  DEF Next, vars, FetchWebsite, AbandonWebsite, AskWriter, SaveDraft, DropDraft, WriteOwnAnswer

\* What people look at: one desk changes, or none.
LEMMA DesksKept ==
    ASSUME IInv, [Next]_vars
    PROVE  DeskType' /\ Looked'
<1> DEFINE Good(e) ==
        /\ e \in {Idle} \cup Looking \cup Correcting
        /\ e.pc = "looking" /\ Fixed(e.fact) /\ Exists(e.fact) => facts[e.fact].pair = e.pair
        /\ e.pc = "correcting" /\ e.fact[1] # "web" /\ Exists(e.fact) =>
               facts[e.fact].pair[1] = e.pair[1]
        /\ e.pc # "idle" =>
             /\ \A d \in Docs : e.fact = Doc(d) => upload[d].state \notin {"new", "reading"}
             /\ e.fact[1] # "document" => Exists(e.fact)
           GoodNext(e) ==
        /\ e \in {Idle} \cup Looking \cup Correcting
        /\ e.pc = "looking" /\ Fixed(e.fact) /\ facts'[e.fact] # None =>
               facts'[e.fact].pair = e.pair
        /\ e.pc = "correcting" /\ e.fact[1] # "web" /\ facts'[e.fact] # None =>
               facts'[e.fact].pair[1] = e.pair[1]
        /\ e.pc # "idle" =>
             /\ \A d \in Docs : e.fact = Doc(d) => upload'[d].state \notin {"new", "reading"}
             /\ e.fact[1] # "document" => facts'[e.fact] # None
<1>1. FactsMove
  BY NextMoves
<1>2. DocsMove
  BY UploadsKept
<1>3. ASSUME NEW e, Good(e), e.pc # "idle"
      PROVE  GoodNext(e)
  <2>1. e \in Looking \cup Correcting /\ e.fact \in Ids
    BY <1>3 DEF Idle, Looking, Correcting
  <2>2. e.fact[1] # "document" => Exists(e.fact) /\ Exists(e.fact)'
    BY <1>1, <1>3, <2>1 DEF FactsMove, RowsMove
  <2>3. e.fact[1] \in {"self", "register", "web", "document", "correction"}
    BY <2>1 DEF Ids, Self, Register, Web, Doc, Fix
  <2>4. ASSUME Exists(e.fact)'
        PROVE  Exists(e.fact)
    <3>1. CASE e.fact[1] # "document"
      BY <2>2, <3>1
    <3>2. CASE e.fact[1] = "document"
      <4>1. PICK d \in Docs : e.fact = Doc(d)
        BY <2>1, <3>2 DEF Ids, Self, Register, Web, Doc, Fix
      <4>2. upload[d].state \notin {"new", "reading"}
        BY <1>3, <4>1
      <4>3. Exists(Doc(d))' => Exists(Doc(d))
        BY <1>2, <4>2 DEF DocsMove
      <4> QED BY <2>4, <4>1, <4>3
    <3> QED BY <3>1, <3>2
  <2>5. \A d \in Docs : e.fact = Doc(d) => upload'[d].state \notin {"new", "reading"}
    BY <1>2, <1>3 DEF DocsMove
  <2>6. e.pc = "looking" /\ Fixed(e.fact) /\ Exists(e.fact)' => facts'[e.fact].pair = e.pair
    BY <1>1, <1>3, <2>1, <2>4 DEF FactsMove, RowsMove
  <2>7. e.pc = "correcting" /\ e.fact[1] # "web" /\ Exists(e.fact)' =>
          facts'[e.fact].pair[1] = e.pair[1]
    BY <1>1, <1>3, <2>1, <2>4 DEF FactsMove, RowsMove
  <2> QED BY <1>3, <2>2, <2>5, <2>6, <2>7 DEF Exists
<1>4. GoodNext(Idle)
  BY DEF Idle
<1>5. \A p \in People : Good(desk[p])
  BY DEF IInv, DeskType, Looked
<1>6. \A p \in People : desk[p].pc = "idle" => desk[p] = Idle
  BY DEF IInv, DeskType, Looking, Correcting
<1>7. \A p \in People : GoodNext(desk[p])
  <2> HIDE DEF Good, GoodNext
  <2> QED BY <1>3, <1>4, <1>5, <1>6
<1>8. ASSUME NEW p \in People, NEW i \in Ids, LookAt(p, i)
      PROVE  GoodNext([pc |-> "looking", fact |-> i, pair |-> facts[i].pair])
  <2>1. Exists(i) /\ facts[i].pair \in Pairs
    BY <1>8 DEF LookAt, Current, IInv, RowsKept, AsStored, Rows
  <2>2. Good([pc |-> "looking", fact |-> i, pair |-> facts[i].pair])
    BY <2>1 DEF Looking, IInv, FreshDocs
  <2> HIDE DEF Good, GoodNext
  <2> QED BY <1>3, <2>2
<1>9. ASSUME NEW p \in People, NEW v \in Values, ReadOriginal(p, v), Exists(desk[p].fact)
      PROVE  GoodNext([pc |-> "correcting", fact |-> desk[p].fact,
                       pair |-> <<facts[desk[p].fact].pair[1], v>>, ref |-> facts[desk[p].fact].ref])
  <2>1. desk[p].fact \in Ids
    BY <1>9 DEF ReadOriginal, IInv, DeskType, Idle, Looking, Correcting
  <2>2. facts[desk[p].fact].pair \in Pairs /\ facts[desk[p].fact].ref \in Refs
    BY <1>9, <2>1 DEF IInv, RowsKept, AsStored, Rows
  <2>3. Good([pc |-> "correcting", fact |-> desk[p].fact,
              pair |-> <<facts[desk[p].fact].pair[1], v>>, ref |-> facts[desk[p].fact].ref])
    <3>1. \A d \in Docs : desk[p].fact = Doc(d) => upload[d].state \notin {"new", "reading"}
      BY <1>9 DEF ReadOriginal, IInv, Looked
    <3> QED BY <1>9, <2>1, <2>2, <3>1 DEF Correcting, Pairs
  <2> HIDE DEF Good, GoodNext
  <2> QED BY <1>3, <2>3
<1> HIDE DEF Good, GoodNext
<1>10. desk \in [People -> {Idle} \cup Looking \cup Correcting]
  BY DEF IInv, DeskType
<1>11. \/ UNCHANGED desk
       \/ \E p \in People, e \in {Idle} \cup Looking \cup Correcting :
            desk' = [desk EXCEPT ![p] = e] /\ GoodNext(e)
  <2>1. CASE \E p \in People : PersonActs(p)
    <3>1. PICK p \in People : PersonActs(p)
      BY <2>1
    <3>2. CASE \E i \in Ids : LookAt(p, i)
      <4>1. PICK i \in Ids : LookAt(p, i)
        BY <3>2
      <4>2. GoodNext([pc |-> "looking", fact |-> i, pair |-> facts[i].pair])
        BY <1>8, <4>1
      <4>3. [pc |-> "looking", fact |-> i, pair |-> facts[i].pair]
              \in {Idle} \cup Looking \cup Correcting
        BY <4>2 DEF GoodNext
      <4> QED BY <4>1, <4>2, <4>3 DEF LookAt
    <3>3. CASE \E v \in Values : ReadOriginal(p, v)
      <4>1. PICK v \in Values : ReadOriginal(p, v)
        BY <3>3
      <4>2. CASE ~Exists(desk[p].fact)
        BY <1>4, <4>1, <4>2 DEF ReadOriginal
      <4>3. CASE Exists(desk[p].fact)
        <5> DEFINE e == [pc |-> "correcting", fact |-> desk[p].fact,
                         pair |-> <<facts[desk[p].fact].pair[1], v>>, ref |-> facts[desk[p].fact].ref]
        <5>1. GoodNext(e)
          BY <1>9, <4>1, <4>3
        <5>2. e \in {Idle} \cup Looking \cup Correcting
          BY <5>1 DEF GoodNext
        <5>3. desk' = [desk EXCEPT ![p] = e]
          BY <4>1, <4>3 DEF ReadOriginal
        <5> QED BY <5>1, <5>2, <5>3
      <4> QED BY <4>2, <4>3
    <3>4. CASE ConfirmFact(p) \/ CorrectFact(p)
      BY <1>4, <3>4 DEF ConfirmFact, CorrectFact
    <3> QED BY <3>1, <3>2, <3>3, <3>4 DEF PersonActs
  <2>2. CASE \E d \in Docs : DocumentActs(d)
    BY <2>2 DEF DocumentActs, Upload, SaveDocument, AbandonUpload, DeleteDocument
  <2> QED
    BY <2>1, <2>2
    DEF Next, vars, TypeFact, ReadRegister, FetchWebsite, SaveWebsite, AbandonWebsite,
        AskWriter, SaveDraft, DropDraft, WriteOwnAnswer
<1>12. \A p \in People : GoodNext(desk'[p])
  BY <1>7, <1>10, <1>11
<1>13. DeskType'
  BY <1>10, <1>11 DEF DeskType
<1> QED BY <1>12, <1>13 DEF GoodNext, Looked, Exists

\* What a reading proposes is well formed.
LEMMA ReadingKept ==
    ASSUME IInv, [Next]_vars
    PROVE  ReadingType'
<1> USE DEF IInv, ReadingType
<1>1. CASE FetchWebsite
  <2> PICK length \in 0 .. Slots : \E found \in [1 .. length -> Pairs] :
                reading' = [n \in 1 .. length |-> Proposal(found, n)]
    BY <1>1 DEF FetchWebsite
  <2>1. PICK found \in [1 .. length -> Pairs] :
          reading' = [n \in 1 .. length |-> Proposal(found, n)]
    OBVIOUS
  <2>2. \A n \in 1 .. length : Proposal(found, n) \in Proposals
    BY <2>1 DEF Proposal, Proposals
  <2> QED BY <2>1, <2>2
<1>2. CASE SaveWebsite \/ AbandonWebsite
  BY <1>2 DEF SaveWebsite, AbandonWebsite
<1>3. CASE \E p \in People : PersonActs(p)
  BY <1>3 DEF PersonActs, LookAt, ConfirmFact, ReadOriginal, CorrectFact
<1>4. CASE \E d \in Docs : DocumentActs(d)
  BY <1>4 DEF DocumentActs, Upload, SaveDocument, AbandonUpload, DeleteDocument
<1> QED
  BY <1>1, <1>2, <1>3, <1>4
  DEF Next, vars, TypeFact, ReadRegister, AskWriter, SaveDraft, DropDraft, WriteOwnAnswer

\* Citations are of facts that stand, and go on standing.
LEMMA CitationsKept ==
    ASSUME IInv, [Next]_vars
    PROVE  CitationType' /\ Cited'
<1> DEFINE StandsNext(c) ==
        /\ facts'[c[1]] # None
        /\ Fixed(c[1]) => facts'[c[1]].confirmed /\ facts'[c[1]].pair = c[2]
<1>1. FactsMove
  BY NextMoves
<1>2. ASSUME NEW c \in Citations, Stands(c)
      PROVE  StandsNext(c)
  <2>1. c[1] \in Ids /\ Exists(c[1])
    BY <1>2 DEF Citations, Stands
  <2>2. c[1][1] = "document" => facts[c[1]].confirmed
    BY <1>2 DEF Stands, Fixed
  <2>3. Exists(c[1])'
    BY <1>1, <2>1, <2>2 DEF FactsMove, RowsMove
  <2> QED BY <1>1, <1>2, <2>1, <2>3 DEF FactsMove, RowsMove, Stands, Exists
<1>3. /\ draft # None => \A c \in draft : c \in Citations /\ StandsNext(c)
      /\ \A c \in answer : c \in Citations /\ StandsNext(c)
  <2> HIDE DEF StandsNext
  <2> QED BY <1>2 DEF IInv, Cited, CitationType
<1> HIDE DEF StandsNext
<1>4. ASSUME AskWriter
      PROVE  /\ draft' \in SUBSET Citations /\ answer' = answer
             /\ \A c \in draft' : StandsNext(c)
  <2>1. /\ draft' \subseteq {<<i, facts[i].pair>> : i \in {j \in Ids : Usable(j)}}
        /\ answer' = answer
    BY <1>4 DEF AskWriter
  <2>2. ASSUME NEW c \in draft'
        PROVE  c \in Citations /\ Stands(c)
    <3>1. PICK i \in Ids : Usable(i) /\ c = <<i, facts[i].pair>>
      BY <2>1, <2>2
    <3>2. facts[i].pair \in Pairs
      BY <3>1 DEF Usable, Current, IInv, RowsKept, AsStored, Rows
    <3>3. c[1] = i /\ c[2] = facts[i].pair
      BY <3>1
    <3>4. Exists(i) /\ facts[i].confirmed
      BY <3>1 DEF Usable, Current
    <3>5. c \in Citations
      BY <3>1, <3>2 DEF Citations
    <3>6. Stands(c)
      <4> HIDE <3>1
      <4> QED BY <3>3, <3>4 DEF Stands
    <3> QED BY <3>5, <3>6
  <2> QED BY <1>2, <2>1, <2>2
<1>5. \/ draft' = draft /\ answer' = answer
      \/ draft' = None /\ (answer' = answer \/ answer' = {} \/ (draft # None /\ answer' = draft))
      \/ draft' = draft /\ answer' = {}
      \/ AskWriter
  <2>1. CASE \E p \in People : PersonActs(p)
    BY <2>1 DEF PersonActs, LookAt, ConfirmFact, ReadOriginal, CorrectFact
  <2>2. CASE \E d \in Docs : DocumentActs(d)
    BY <2>2 DEF DocumentActs, Upload, SaveDocument, AbandonUpload, DeleteDocument
  <2> QED
    BY <2>1, <2>2
    DEF Next, vars, TypeFact, ReadRegister, FetchWebsite, SaveWebsite, AbandonWebsite,
        SaveDraft, DropDraft, WriteOwnAnswer
<1>6. CitationType'
  <2>1. draft \in (SUBSET Citations) \cup {None} /\ answer \in SUBSET Citations
    BY DEF IInv, CitationType
  <2>2. {} \in SUBSET Citations
    OBVIOUS
  <2>3. draft' \in (SUBSET Citations) \cup {None} /\ answer' \in SUBSET Citations
    <3>1. CASE AskWriter
      BY <1>4, <2>1, <3>1
    <3>2. CASE ~AskWriter
      BY <1>5, <2>1, <2>2, <3>2
    <3> QED BY <3>1, <3>2
  <2> QED BY <2>3 DEF CitationType
<1>7. /\ draft' # None => \A c \in draft' : StandsNext(c)
      /\ \A c \in answer' : StandsNext(c)
  BY <1>3, <1>4, <1>5
<1> QED BY <1>6, <1>7 DEF StandsNext, Cited, Stands, Exists

-----------------------------------------------------------------------------
LEMMA InitIInv == Init => IInv
<1> SUFFICES ASSUME Init PROVE IInv
  OBVIOUS
<1>1. \A i \in Ids : ~Exists(i)
  BY DEF Init, Exists
<1>2. \A d \in Docs : Doc(d) \in Ids
  BY DEF Ids
<1>3. FactsType /\ DeskType
  BY DEF Init, FactsType, DeskType
<1>8. ReadingType
  BY DEF Init, ReadingType
<1>9. CitationType
  <2>1. draft = None /\ answer = {}
    BY DEF Init
  <2> QED BY <2>1 DEF CitationType
<1>4. UploadType
  BY DEF Init, UploadType, Uploads, NoUpload, Proposals
<1>10. \A k \in 1 .. MaxFixes : Fix(k) \in Ids
  BY DEF Ids
<1>5. RowsKept /\ Chained /\ FreshDocs
  BY <1>1, <1>2, <1>10 DEF RowsKept, Chained, SuccessorsLeadOn, Replaced, FreshDocs
<1>6. Looked
  BY DEF Init, Looked, Idle
<1>7. Cited
  BY DEF Init, Cited
<1> QED BY <1>3, <1>4, <1>5, <1>6, <1>7, <1>8, <1>9 DEF IInv

LEMMA StepIInv == IInv /\ [Next]_vars => IInv'
<1> SUFFICES ASSUME IInv, [Next]_vars PROVE IInv'
  OBVIOUS
<1>1. FactsType' /\ RowsKept' /\ Chained'
  BY NextMoves DEF FactsMove
<1>2. UploadType' /\ FreshDocs' /\ DeskType' /\ Looked'
  BY UploadsKept, DesksKept
<1>3. ReadingType' /\ CitationType' /\ Cited'
  BY ReadingKept, CitationsKept
<1> QED BY <1>1, <1>2, <1>3 DEF IInv

LEMMA SpecIInv == Spec => []IInv
BY InitIInv, StepIInv, PTL DEF Spec

\* TypeOK: the facts, the desks, the readings and the citations keep their shape.
THEOREM SpecTypeOK == Spec => []TypeOK
<1>1. IInv => TypeOK
  BY DEF IInv, TypeOK, FactsType, DeskType, ReadingType, UploadType, CitationType
<1> QED BY <1>1, SpecIInv, PTL

\* CheckedByAPerson: whatever readings, corrections and removals happen around
\* it, a fact the Writer may use was confirmed by somebody, as it is unless its
\* source rewrites its rows.
THEOREM SpecCheckedByAPerson == Spec => []CheckedByAPerson
<1>1. IInv => CheckedByAPerson
  BY DEF IInv, RowsKept, AsStored, CheckedByAPerson, Usable, Current
<1> QED BY <1>1, SpecIInv, PTL

\* CorrectionStands: whoever corrects what at once, and whatever is read, typed
\* or removed since, a corrected fact leads on to a usable one about the same
\* claim and never comes back, and no correction is lost or edited.
THEOREM SpecCorrectionStands == Spec => CorrectionStands
<1>1. IInv => SuccessorsLeadOn
  BY DEF IInv, Chained
<1>2. IInv /\ [Next]_vars => [CorrectionsStay]_vars
  <2> SUFFICES ASSUME IInv, [Next]_vars PROVE CorrectionsStay
    OBVIOUS
  <2>1. RowsMove
    BY NextMoves DEF FactsMove
  <2>2. ASSUME NEW i \in Ids, i[1] = "correction", Exists(i)
        PROVE  Exists(i)' /\ facts'[i].pair = facts[i].pair
    BY <2>1, <2>2 DEF RowsMove, Fixed
  <2> QED BY <2>1, <2>2 DEF CorrectionsStay, RowsMove
<1> QED BY <1>1, <1>2, SpecIInv, PTL DEF Spec, CorrectionStands

\* CitedValueStands: an answer citing a document's fact or a correction cites
\* the claim and value that row still has.
THEOREM SpecCitedValueStands == Spec => []CitedValueStands
<1>1. IInv => CitedValueStands
  BY DEF IInv, Cited, Stands, Fixed, CitedValueStands
<1> QED BY <1>1, SpecIInv, PTL

\* CitedFactsExist: a draft coming back finds every fact it cites.
THEOREM SpecCitedFactsExist == Spec => []CitedFactsExist
<1>1. IInv => CitedFactsExist
  BY DEF IInv, Cited, Stands, CitedFactsExist
<1> QED BY <1>1, SpecIInv, PTL

\* CitationsHold: the two together, for a draft under way and for the stored
\* answer.
THEOREM SpecCitationsHold == Spec => []CitationsHold
<1>1. CitationsHold <=> CitedFactsExist /\ CitedValueStands
  BY DEF CitationsHold
<1> QED BY <1>1, SpecCitedFactsExist, SpecCitedValueStands, PTL
=============================================================================
