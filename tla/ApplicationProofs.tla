---------------------------- MODULE ApplicationProofs -----------------------
(***************************************************************************)
(* What is proved of the parts an application is made of: its row, the     *)
(* rules that decide whether it may be made at all, the documents it       *)
(* answers from, and what is said of the fund beforehand.  The parts share *)
(* no variable, so each has an invariant of its own and each section       *)
(* states the argument it rests on; the last puts them side by side.       *)
(***************************************************************************)
EXTENDS Application, FactBaseProofs, FiniteSetTheorems, TLAPS

-----------------------------------------------------------------------------
(***************************************************************************)
(* The application's row stays coherent for every number of requests, days *)
(* and sums.  The inductive invariant adds to the two safety properties    *)
(* what a request in flight carries from its read to its write: a decision *)
(* that was judged whole.                                                  *)
(***************************************************************************)

\* Every judged decision carries a sum only when it is an award.
FormsJudged ==
    \A c \in Clerks :
        form[c] # NoForm => (form[c].amount # Unknown => form[c].decision = "awarded")

OutcomeInv == OutcomeTypeOK /\ SentIffDated /\ WholeDecision /\ FormsJudged

-----------------------------------------------------------------------------
\* A line written keeps the counters of audit lines in their type.
LEMMA LineType ==
    ASSUME lines \in [Actions -> 0 .. MaxLines], NEW a \in Actions, WriteLine(a)
    PROVE  lines' \in [Actions -> 0 .. MaxLines]
  BY DaysAssumption DEF WriteLine

\* The initial row is an unsent draft.
LEMMA InitOutcome == ASSUME OutcomeInit PROVE OutcomeInv
  BY DaysAssumption
  DEF OutcomeInit, OutcomeInv, OutcomeTypeOK, SentIffDated, WholeDecision, FormsJudged, OutcomeRows, Days,
      Sums, Answers, Answered

\* Sending, un-sending and clearing keep the row coherent and its type.
LEMMA SendOutcome == ASSUME OutcomeInv, MarkSubmitted PROVE OutcomeInv'
  <1>1. /\ today' = today /\ form' = form
        /\ lines' \in [Actions -> 0 .. MaxLines]
    BY LineType DEF MarkSubmitted, OutcomeInv, OutcomeTypeOK, Actions
  <1>2. CASE Unsent(row)
    <2>1. row' = [row EXCEPT !.submitted = today, !.status = "submitted"]
      BY <1>2 DEF MarkSubmitted
    <2>2. row' \in OutcomeRows
      BY <2>1 DEF OutcomeInv, OutcomeTypeOK, OutcomeRows, Days
    <2>3. row'.status = "submitted" /\ row'.submitted = today /\ today # 0
      BY <2>1 DEF OutcomeInv, OutcomeTypeOK, OutcomeRows, Days
    <2> QED
      BY <1>1, <2>2, <2>3
      DEF OutcomeInv, OutcomeTypeOK, SentIffDated, WholeDecision, FormsJudged, Answered, Answers
  <1>3. CASE ~Unsent(row)
    BY <1>1, <1>3
    DEF MarkSubmitted, OutcomeInv, OutcomeTypeOK, SentIffDated, WholeDecision, FormsJudged, Answered
  <1> QED BY <1>2, <1>3

LEMMA UnsendOutcome == ASSUME OutcomeInv, UnmarkSubmitted PROVE OutcomeInv'
  <1>1. /\ today' = today /\ form' = form
        /\ lines' \in [Actions -> 0 .. MaxLines]
    BY LineType DEF UnmarkSubmitted, OutcomeInv, OutcomeTypeOK, Actions
  <1>2. row' \in OutcomeRows /\ row'.status = "drafting" /\ row'.submitted = 0
    BY DEF UnmarkSubmitted, OutcomeInv, OutcomeTypeOK, OutcomeRows, Days
  <1> QED
    BY <1>1, <1>2
    DEF OutcomeInv, OutcomeTypeOK, SentIffDated, WholeDecision, FormsJudged, Answered, Answers

LEMMA ClearOutcome == ASSUME OutcomeInv, ClearDecision PROVE OutcomeInv'
  <1>1. /\ today' = today /\ form' = form
        /\ lines' \in [Actions -> 0 .. MaxLines]
    BY LineType DEF ClearDecision, OutcomeInv, OutcomeTypeOK, Actions
  <1>2. row' \in OutcomeRows /\ row'.status = "submitted" /\ row'.submitted = row.submitted
    BY DEF ClearDecision, Cleared, OutcomeInv, OutcomeTypeOK, OutcomeRows, Sums
  <1>3. row.submitted # 0
    BY DEF ClearDecision, OutcomeInv, SentIffDated, Answered, Answers
  <1> QED
    BY <1>1, <1>2, <1>3
    DEF OutcomeInv, OutcomeTypeOK, SentIffDated, WholeDecision, FormsJudged, Answered, Answers

\* A judged decision is whole, by the rules it was judged against.
LEMMA JudgeOutcome ==
    ASSUME OutcomeInv, NEW c \in Clerks, JudgeDecision(c) PROVE OutcomeInv'
  <1>1. PICK d \in Decisions :
            Acceptable(d, row.submitted) /\ form' = [form EXCEPT ![c] = d]
    BY DEF JudgeDecision
  <1>2. form' \in [Clerks -> Decisions \cup {NoForm}]
    BY <1>1 DEF OutcomeInv, OutcomeTypeOK
  <1>3. FormsJudged'
    BY <1>1 DEF OutcomeInv, OutcomeTypeOK, FormsJudged, Acceptable
  <1> QED
    BY <1>2, <1>3
    DEF JudgeDecision, OutcomeInv, OutcomeTypeOK, SentIffDated, WholeDecision, Answered

\* A decision written lands on a row that is still sent, whole.
LEMMA RecordOutcome ==
    ASSUME OutcomeInv, NEW c \in Clerks, RecordDecision(c) PROVE OutcomeInv'
  <1>1. today' = today /\ form' = [form EXCEPT ![c] = NoForm]
    BY DEF RecordDecision
  <1>2. form' \in [Clerks -> Decisions \cup {NoForm}] /\ FormsJudged'
    BY <1>1 DEF OutcomeInv, OutcomeTypeOK, FormsJudged
  <1>3. CASE Sent(row) /\ row' = Decided(row, form[c]) /\ WriteLine("application.decided")
    <2>1. lines' \in [Actions -> 0 .. MaxLines]
      BY <1>3, LineType DEF OutcomeInv, OutcomeTypeOK, Actions
    <2>2. form[c] \in Decisions
      BY DEF RecordDecision, OutcomeInv, OutcomeTypeOK
    <2>3. row' \in OutcomeRows
      BY <1>3, <2>2 DEF Decided, OutcomeInv, OutcomeTypeOK, OutcomeRows, Decisions
    <2>4. /\ row'.status = form[c].decision /\ row'.submitted = row.submitted
          /\ row'.decided = form[c].on /\ row'.amount = form[c].amount
      BY <1>3, <2>2 DEF Decided, OutcomeInv, OutcomeTypeOK, OutcomeRows, Decisions
    <2>5. form[c].amount # Unknown => form[c].decision = "awarded"
      BY DEF RecordDecision, OutcomeInv, FormsJudged
    <2>6. form[c].decision \in Answers /\ form[c].on # 0
      BY <2>2 DEF Decisions, Days
    <2>7. SentIffDated'
      BY <1>3, <2>4, <2>6 DEF SentIffDated, Sent, Answers
    <2>8. WholeDecision'
      BY <2>4, <2>5, <2>6 DEF WholeDecision, Answered
    <2> QED
      BY <1>1, <1>2, <2>1, <2>3, <2>7, <2>8 DEF OutcomeInv, OutcomeTypeOK
  <1>4. CASE ~Sent(row) /\ UNCHANGED <<row, lines>>
    BY <1>1, <1>2, <1>4 DEF OutcomeInv, OutcomeTypeOK, SentIffDated, WholeDecision, Answered
  <1> QED BY <1>3, <1>4 DEF RecordDecision

\* Every step keeps the inductive invariant.
LEMMA NextOutcome == ASSUME OutcomeInv, [OutcomeNext]_outcomeVars PROVE OutcomeInv'
  <1>1. CASE NextDay
    BY <1>1, DaysAssumption
    DEF NextDay, OutcomeInv, OutcomeTypeOK, SentIffDated, WholeDecision, FormsJudged, Answered, Days
  <1>2. CASE MarkSubmitted   BY <1>2, SendOutcome
  <1>3. CASE UnmarkSubmitted BY <1>3, UnsendOutcome
  <1>4. CASE ClearDecision   BY <1>4, ClearOutcome
  <1>5. CASE \E c \in Clerks : JudgeDecision(c) \/ RecordDecision(c)
    BY <1>5, JudgeOutcome, RecordOutcome
  <1>6. CASE UNCHANGED outcomeVars
    BY <1>6
    DEF outcomeVars, OutcomeInv, OutcomeTypeOK, SentIffDated, WholeDecision, FormsJudged, Answered
  <1> QED BY <1>1, <1>2, <1>3, <1>4, <1>5, <1>6 DEF OutcomeNext

-----------------------------------------------------------------------------
\* The status and the submission date agree in every reachable state.
THEOREM SpecSentIffDated == OutcomeSpec => []SentIffDated
  <1>1. OutcomeInit => OutcomeInv                  BY InitOutcome
  <1>2. OutcomeInv /\ [OutcomeNext]_outcomeVars => OutcomeInv'  BY NextOutcome
  <1>3. OutcomeInv => SentIffDated          BY DEF OutcomeInv
  <1> QED BY <1>1, <1>2, <1>3, PTL DEF OutcomeSpec

\* An answered application has its date, and a sum only when it was awarded.
THEOREM SpecWholeDecision == OutcomeSpec => []WholeDecision
  <1>1. OutcomeInit => OutcomeInv                  BY InitOutcome
  <1>2. OutcomeInv /\ [OutcomeNext]_outcomeVars => OutcomeInv'  BY NextOutcome
  <1>3. OutcomeInv => WholeDecision         BY DEF OutcomeInv
  <1> QED BY <1>1, <1>2, <1>3, PTL DEF OutcomeSpec

\* The day an application went in never moves while it stays sent.
THEOREM SpecSubmissionKept == OutcomeSpec => SubmissionKept
  <1>1. OutcomeInit => OutcomeInv                  BY InitOutcome
  <1>2. OutcomeInv /\ [OutcomeNext]_outcomeVars => OutcomeInv'  BY NextOutcome
  <1>3. OutcomeInv /\ [OutcomeNext]_outcomeVars
            => [Sent(row) /\ Sent(row') => row'.submitted = row.submitted]_outcomeVars
    <2> SUFFICES ASSUME OutcomeInv, OutcomeNext, Sent(row), Sent(row')
                 PROVE  row'.submitted = row.submitted
      OBVIOUS
    <2>1. CASE MarkSubmitted
      BY <2>1 DEF MarkSubmitted, Unsent, Sent
    <2>2. CASE UnmarkSubmitted
      BY <2>2 DEF UnmarkSubmitted, Sent, OutcomeInv, OutcomeTypeOK, OutcomeRows
    <2>3. CASE ClearDecision
      BY <2>3 DEF ClearDecision, Cleared, OutcomeInv, OutcomeTypeOK, OutcomeRows
    <2>4. ASSUME NEW c \in Clerks, RecordDecision(c)
          PROVE  row'.submitted = row.submitted
      BY <2>4 DEF RecordDecision, Decided, OutcomeInv, OutcomeTypeOK, OutcomeRows
    <2>5. CASE NextDay \/ \E c \in Clerks : JudgeDecision(c)
      BY <2>5 DEF NextDay, JudgeDecision
    <2> QED BY <2>1, <2>2, <2>3, <2>4, <2>5 DEF OutcomeNext
  <1> QED BY <1>1, <1>2, <1>3, PTL DEF OutcomeSpec, SubmissionKept

\* The row tells one story of the application, at every moment and from one
\* moment to the next.
THEOREM SpecOutcomeIsWhole == OutcomeSpec => OutcomeIsWhole
  BY SpecSentIffDated, SpecWholeDecision, SpecSubmissionKept, PTL DEF OutcomeIsWhole

-----------------------------------------------------------------------------
(***************************************************************************)
(* No verdict is surer than its answers, for any number of rules, any      *)
(* guidance and any numbers.  The argument is one rule at a time: the      *)
(* engine's outcome of a rule agrees with what the rule says of every      *)
(* answer left open, and filling in a blank never changes an outcome that  *)
(* was not "unknown".  Both lift through the combination of outcomes.      *)
(* That a typed rule works needs an inductive invariant besides the types: *)
(* what a person typed is stored verified, and as the form built it.       *)
(***************************************************************************)

-----------------------------------------------------------------------------
(* The parameters of each kind.                                            *)

\* A rule has the parameters of its kind.
LEMMA ShapeOfKind ==
    ASSUME NEW r \in Shapes
    PROVE  /\ r.kind \in Kinds
           /\ r.kind = "legal_form" =>
                r \in [kind : {"legal_form"}, treatment : Treatments \cup {Blank},
                       list : Lists(LegalForms)]
           /\ r.kind = "jurisdiction" => r \in [kind : {"jurisdiction"}, list : Lists(Nations)]
           /\ r.kind = "region" => r \in [kind : {"region"}, list : Lists(Places)]
           /\ r.kind = "beneficiary" => r \in [kind : {"beneficiary"}, list : Lists(Groups)]
           /\ r.kind = "capital_revenue" =>
                r \in [kind : {"capital_revenue"}, list : Lists(SpendKinds)]
           /\ r.kind \in RangedKinds => r \in [kind : RangedKinds, min : Ends, max : Ends]
           /\ r.kind = "organisation_age" => r \in [kind : {"organisation_age"}, min : Ends]
           /\ r.kind = "match_funding" =>
                r \in [kind : {"match_funding"}, required : BOOLEAN \cup {Blank}]
  BY DEF Shapes, Kinds, RangedKinds

\* The parameters built of an accepted form are a rule.
LEMMA HandRuleShape ==
    ASSUME NEW box \in Shapes PROVE HandRule(box) \in Shapes /\ HandRule(box).kind = box.kind
  <1>1. CASE box.kind = "legal_form"
    <2>1. box \in [kind : {"legal_form"}, treatment : Treatments \cup {Blank},
                   list : Lists(LegalForms)]
      BY <1>1, ShapeOfKind
    <2>2. HandRule(box) = [box EXCEPT !.list = Blank]
      BY <1>1 DEF HandRule
    <2>3. [box EXCEPT !.list = Blank] \in
             [kind : {"legal_form"}, treatment : Treatments \cup {Blank}, list : Lists(LegalForms)]
      BY <2>1 DEF Lists
    <2> QED BY <2>1, <2>2, <2>3 DEF Shapes
  <1>2. CASE box.kind = "jurisdiction"
    <2>1. box \in [kind : {"jurisdiction"}, list : Lists(Nations)]
      BY <1>2, ShapeOfKind
    <2>2. HandRule(box) = [box EXCEPT !.list = IF "uk_wide" \in box.list THEN {"uk_wide"} ELSE box.list]
      BY <1>2, <2>1 DEF HandRule
    <2>3. {"uk_wide"} \in Lists(Nations)
      BY DEF Lists, Nations
    <2>4. [box EXCEPT !.list = IF "uk_wide" \in box.list THEN {"uk_wide"} ELSE box.list]
             \in [kind : {"jurisdiction"}, list : Lists(Nations)]
      BY <2>1, <2>3
    <2> QED BY <2>1, <2>2, <2>4 DEF Shapes
  <1>3. CASE box.kind = "match_funding"
    <2>1. box \in [kind : {"match_funding"}, required : BOOLEAN \cup {Blank}]
      BY <1>3, ShapeOfKind
    <2>2. HandRule(box) = [box EXCEPT !.required = TRUE]
      BY <1>3 DEF HandRule
    <2>3. [box EXCEPT !.required = TRUE] \in [kind : {"match_funding"}, required : BOOLEAN \cup {Blank}]
      BY <2>1
    <2> QED BY <2>1, <2>2, <2>3 DEF Shapes
  <1>4. CASE box.kind \notin {"legal_form", "jurisdiction", "match_funding"}
    BY <1>4 DEF HandRule
  <1> QED BY <1>1, <1>2, <1>3, <1>4

-----------------------------------------------------------------------------
(* Types.                                                                  *)

\* Every operation on a fund's rules keeps their type.
LEMMA RulesTyped ==
    ASSUME RulesTypeOK,
           \/ PasteFund \/ TypeFund \/ RemoveFund
           \/ \E i \in RuleIds : VerifyCriterion(i) \/ RejectCriterion(i) \/ RemoveRule(i)
           \/ \E i \in RuleIds, box \in Boxes : AddHandRule(i, box)
    PROVE  rules' \in [RuleIds -> RuleRows \cup {Blank}] /\ fund' \in BOOLEAN
  <1>1. CASE PasteFund
    <2>1. PICK read \in [RuleIds -> {r \in Guidance : About(r)} \cup {Blank}] :
             rules' = [i \in RuleIds |->
                         IF read[i] = Blank THEN Blank
                         ELSE [rule |-> read[i], by |-> "ai_extraction", state |-> "proposed"]]
      BY <1>1 DEF PasteFund
    <2>2. ASSUME NEW i \in RuleIds, read[i] # Blank PROVE read[i] \in Shapes
      BY <2>2, ShapesAssumption
    <2>3. ASSUME NEW i \in RuleIds, read[i] # Blank
          PROVE  [rule |-> read[i], by |-> "ai_extraction", state |-> "proposed"] \in RuleRows
      BY <2>2, <2>3 DEF RuleRows
    <2> QED BY <1>1, <2>1, <2>3 DEF PasteFund
  <1>2. CASE TypeFund \/ RemoveFund
    BY <1>2 DEF TypeFund, RemoveFund, RulesTypeOK
  <1>3. ASSUME NEW i \in RuleIds, VerifyCriterion(i) \/ RejectCriterion(i) \/ RemoveRule(i)
        PROVE  rules' \in [RuleIds -> RuleRows \cup {Blank}] /\ fund' \in BOOLEAN
    <2>1. rules[i] \in RuleRows
      BY <1>3 DEF VerifyCriterion, RejectCriterion, RemoveRule, InState, Stored, RulesTypeOK
    <2>2. ASSUME NEW s \in {"verified", "rejected"} PROVE [rules[i] EXCEPT !.state = s] \in RuleRows
      BY <2>1 DEF RuleRows
    <2>3. \/ \E s \in {"verified", "rejected"} :
               rules' = [rules EXCEPT ![i] = [rules[i] EXCEPT !.state = s]]
          \/ rules' = [rules EXCEPT ![i] = Blank]
      BY <1>3 DEF VerifyCriterion, RejectCriterion, RemoveRule, RulesTypeOK
    <2>4. fund' = fund
      BY <1>3 DEF VerifyCriterion, RejectCriterion, RemoveRule
    <2> QED BY <2>2, <2>3, <2>4 DEF RulesTypeOK
  <1>4. ASSUME NEW i \in RuleIds, NEW box \in Boxes, AddHandRule(i, box)
        PROVE  rules' \in [RuleIds -> RuleRows \cup {Blank}] /\ fund' \in BOOLEAN
    <2>1. HandRule(box) \in Shapes
      BY HandRuleShape, ShapesAssumption
    <2>2. [rule |-> HandRule(box), by |-> "user", state |-> "verified"] \in RuleRows
      BY <2>1 DEF RuleRows
    <2> QED BY <1>4, <2>2 DEF AddHandRule, RulesTypeOK
  <1> QED BY <1>1, <1>2, <1>3, <1>4

\* Every operation on the profile and on the project keeps their types.
LEMMA AnswersTyped ==
    ASSUME RulesTypeOK, SaveOwnProfile \/ SaveRegisterProfile \/ MonthPasses \/ SaveProject
    PROVE  org' \in Profiles /\ project' \in Projects \cup {Blank}
  <1>1. CASE SaveOwnProfile
    BY <1>1 DEF SaveOwnProfile, Choice, RulesTypeOK, Profiles, LegalForms, Nations, Ends
  <1>2. CASE SaveRegisterProfile
    BY <1>2 DEF SaveRegisterProfile, Choice, Else, RulesTypeOK, Profiles, LegalForms, Nations, Ends
  <1>3. CASE MonthPasses
    <2>1. org.age + 1 \in Numbers
      BY <1>3, ScaleAssumption DEF MonthPasses, Numbers
    <2> QED BY <1>3, <2>1 DEF MonthPasses, RulesTypeOK, Profiles, Ends
  <1>4. CASE SaveProject
    BY <1>4 DEF SaveProject, Choice, RulesTypeOK, Projects, Ends
  <1> QED BY <1>1, <1>2, <1>3, <1>4

LEMMA InitTyped == ASSUME RulesInit PROVE RulesTypeOK
  BY DEF RulesInit, RulesTypeOK, Profiles, Ends

LEMMA NextTyped == ASSUME RulesTypeOK, [RulesNext]_rulesVars PROVE RulesTypeOK'
  <1>1. CASE \/ PasteFund \/ TypeFund \/ RemoveFund
             \/ \E i \in RuleIds : VerifyCriterion(i) \/ RejectCriterion(i) \/ RemoveRule(i)
             \/ \E i \in RuleIds, box \in Boxes : AddHandRule(i, box)
    <2>1. org' = org /\ project' = project /\ topics' = topics
      BY <1>1 DEF PasteFund, TypeFund, RemoveFund, VerifyCriterion, RejectCriterion,
                  RemoveRule, AddHandRule
    <2> QED BY <1>1, <2>1, RulesTyped DEF RulesTypeOK
  <1>2. CASE SaveOwnProfile \/ SaveRegisterProfile \/ MonthPasses \/ SaveProject
    <2>1. rules' = rules /\ fund' = fund /\ topics' = topics
      BY <1>2 DEF SaveOwnProfile, SaveRegisterProfile, MonthPasses, SaveProject
    <2> QED BY <1>2, <2>1, AnswersTyped DEF RulesTypeOK
  <1>3. CASE UNCHANGED rulesVars
    BY <1>3 DEF rulesVars, RulesTypeOK
  <1> QED BY <1>1, <1>2, <1>3 DEF RulesNext

-----------------------------------------------------------------------------
(* One rule at a time: the outcome agrees with every answer left open.     *)

\* What the engine's parts decide, they decide as the rule says.
LEMMA FormIsSure ==
    ASSUME NEW r \in Shapes, r.kind = "legal_form", Readable(r), org \in Profiles,
           KnownApplicant
    PROVE  /\ Outcome(r) = "pass" => \A truth \in Truths(r.kind) : Meets(r, truth)
           /\ Outcome(r) = "fail" => \A truth \in Truths(r.kind) : ~Meets(r, truth)
  <1>1. /\ r.treatment \in Treatments
        /\ r.list = Blank \/ r.list \in SUBSET LegalForms
    BY ShapeOfKind DEF Readable, Lists
  <1>2. org.form \in LegalForms /\ Truths(r.kind) = {org.form} \X BOOLEAN
    BY DEF Truths, KnownApplicant, Profiles
  <1>3. Outcome(r) = FormOutcome(r, org.form)
    BY DEF Outcome, Else, KnownApplicant
  <1>4. SUFFICES ASSUME NEW truth \in {org.form} \X BOOLEAN
                 PROVE  /\ FormOutcome(r, org.form) = "pass" => Meets(r, truth)
                        /\ FormOutcome(r, org.form) = "fail" => ~Meets(r, truth)
    BY <1>2, <1>3
  <1>5. truth[1] = org.form
    OBVIOUS
  <1>6. CASE org.form \notin CicForms
    BY <1>1, <1>5, <1>6 DEF FormOutcome, Decide, Meets, Asks, RangedKinds
  <1>7. CASE org.form \in CicForms
    <2>1. Meets(r, truth) <=> IF r.treatment \in {"permitted_with_conditions", "not_stated"}
                              THEN truth[2] ELSE org.form \in Admits[r.treatment]
      BY <1>5, <1>7 DEF Meets, Asks, RangedKinds
    <2>2. /\ r.treatment \in {"explicitly_permitted", "asset_locked_only"}
               => Admits[r.treatment] = CicForms
          /\ r.treatment \in {"limited_by_guarantee_only", "no_share_capital_only"}
               => Admits[r.treatment] = {"cic_limited_by_guarantee"}
          /\ r.treatment = "charity_only" => Admits[r.treatment] = {}
      BY <1>1 DEF Admits, Treatments
    <2> QED BY <1>1, <1>7, <2>1, <2>2 DEF FormOutcome, Decide, Treatments
  <1> QED BY <1>6, <1>7

LEMMA ListIsSure ==
    ASSUME NEW r \in Shapes, r.kind \in {"jurisdiction", "region", "beneficiary", "capital_revenue"},
           Readable(r), org \in Profiles, project \in Projects, KnownApplicant
    PROVE  /\ Outcome(r) = "pass" => \A truth \in Truths(r.kind) : Meets(r, truth)
           /\ Outcome(r) = "fail" => \A truth \in Truths(r.kind) : ~Meets(r, truth)
  <1>1. CASE r.kind = "jurisdiction"
    <2>1. Truths(r.kind) = {org.nation} /\ Outcome(r) = Decide(Covers(r.list, org.nation))
      BY <1>1 DEF Truths, Given, Outcome, Else, KnownApplicant
    <2>2. Meets(r, org.nation) <=> Covers(r.list, org.nation)
      BY <1>1 DEF Meets, Covers, RangedKinds
    <2> QED BY <2>1, <2>2 DEF Decide
  <1>2. CASE r.kind = "region"
    <2>1. Outcome(r) # "unknown" => Truths(r.kind) = {org.region}
      BY <1>2 DEF Truths, Given, Outcome, OneOf
    <2>2. Outcome(r) # "unknown" => Outcome(r) = Decide(org.region \in r.list)
      BY <1>2 DEF Outcome, OneOf
    <2>3. Meets(r, org.region) <=> org.region \in r.list
      BY <1>2 DEF Meets, RangedKinds
    <2> QED BY <2>1, <2>2, <2>3 DEF Decide
  <1>3. CASE r.kind = "beneficiary"
    <2>1. Outcome(r) # "unknown" =>
            /\ Truths(r.kind) = {project.groups}
            /\ Outcome(r) = Decide(project.groups \cap r.list # {})
      BY <1>3 DEF Truths, Outcome
    <2>2. Meets(r, project.groups) <=> project.groups \cap r.list # {}
      BY <1>3 DEF Meets, RangedKinds
    <2> QED BY <2>1, <2>2 DEF Decide
  <1>4. CASE r.kind = "capital_revenue"
    <2>1. Blank # "both" /\ project.spend \in SpendKinds \cup {"both", Blank}
      BY BlankAssumption DEF Projects
    <2>2. Outcome(r) # "unknown" =>
            /\ project.spend \notin {"both", Blank}
            /\ Outcome(r) = Decide(project.spend \in r.list)
      BY <1>4 DEF Outcome, OneOf
    <2>3. Outcome(r) # "unknown" => Truths(r.kind) = {project.spend}
      BY <1>4, <2>2 DEF Truths, Given
    <2>4. project.spend # "both" => (Meets(r, project.spend) <=> project.spend \in r.list)
      BY <1>4 DEF Meets, RangedKinds
    <2> QED BY <2>2, <2>3, <2>4 DEF Decide
  <1> QED BY <1>1, <1>2, <1>3, <1>4

LEMMA NumberIsSure ==
    ASSUME NEW r \in Shapes,
           r.kind \in RangedKinds \cup {"organisation_age", "match_funding"},
           Readable(r), org \in Profiles, project \in Projects
    PROVE  /\ Outcome(r) = "pass" => \A truth \in Truths(r.kind) : Meets(r, truth)
           /\ Outcome(r) = "fail" => \A truth \in Truths(r.kind) : ~Meets(r, truth)
  <1>1. ASSUME NEW given \in Ends, NEW min \in Ends, NEW max \in Ends,
               InRange(given, min, max) # "unknown"
        PROVE  /\ given \in Numbers
               /\ InRange(given, min, max) = "pass" <=>
                    \A n \in Numbers : (n = min => given >= n) /\ (n = max => given <= n)
    BY <1>1, BlankAssumption DEF InRange, Within, Decide, Ends, Numbers
  <1>2. ASSUME NEW given \in Ends, r.kind \in RangedKinds,
               Outcome(r) = InRange(given, r.min, r.max),
               Truths(r.kind) = Given(given, r.kind)
        PROVE  /\ Outcome(r) = "pass" => \A truth \in Truths(r.kind) : Meets(r, truth)
               /\ Outcome(r) = "fail" => \A truth \in Truths(r.kind) : ~Meets(r, truth)
    <2>1. r.min \in Ends /\ r.max \in Ends
      BY <1>2, ShapeOfKind
    <2>2. Outcome(r) # "unknown" => Truths(r.kind) = {given}
      BY <1>2 DEF InRange, Given
    <2>3. Meets(r, given) <=>
            \A n \in Numbers : (n = r.min => given >= n) /\ (n = r.max => given <= n)
      BY <1>2 DEF Meets, RangedKinds
    <2> QED BY <1>1, <1>2, <2>1, <2>2, <2>3
  <1>3. CASE r.kind = "amount"
    <2>1. project.amount \in Ends
      BY DEF Projects
    <2> QED BY <1>2, <1>3, <2>1 DEF RangedKinds, Outcome, Truths
  <1>4. CASE r.kind = "duration"
    <2>1. project.duration \in Ends
      BY DEF Projects
    <2> QED BY <1>2, <1>4, <2>1 DEF RangedKinds, Outcome, Truths
  <1>5. CASE r.kind = "turnover"
    BY <1>5 DEF Outcome, InRange
  <1>6. CASE r.kind = "organisation_age"
    <2>1. r.min \in Numbers /\ org.age \in Ends
      BY <1>6, ShapeOfKind DEF Readable, Ends, Profiles
    <2>2. Outcome(r) # "unknown" => Truths(r.kind) = {org.age}
      BY <1>6 DEF Outcome, Truths, InRange, Given
    <2>3. Meets(r, org.age) <=> org.age >= r.min
      BY <1>6 DEF Meets, RangedKinds
    <2>4. Outcome(r) # "unknown" =>
            org.age \in Numbers /\ Outcome(r) = Decide(r.min <= org.age)
      BY <1>6, <2>1, BlankAssumption DEF Outcome, InRange, Within, Ends
    <2> QED BY <2>1, <2>2, <2>3, <2>4, ScaleAssumption DEF Decide, Numbers
  <1>7. CASE r.kind = "match_funding"
    BY <1>7 DEF Outcome, Truths, Everything, Meets, RangedKinds
  <1> QED BY <1>3, <1>4, <1>5, <1>6, <1>7 DEF RangedKinds

\* Every rule in force, then, whatever its kind.
LEMMA RuleIsSure ==
    ASSUME RulesTypeOK, KnownApplicant, project # Blank, NEW i \in InForce
    PROVE  /\ Outcome(rules[i].rule) = "pass" => Holds(i)
           /\ Outcome(rules[i].rule) = "fail" => Excludes(i)
  <1>1. rules[i].rule \in Shapes /\ Readable(rules[i].rule)
    BY DEF InForce, InState, Stored, RulesTypeOK, RuleRows
  <1>2. org \in Profiles /\ project \in Projects
    BY DEF RulesTypeOK
  <1>3. rules[i].rule.kind \in Kinds
    BY <1>1, ShapeOfKind
  <1> QED
    BY <1>1, <1>2, <1>3, FormIsSure, ListIsSure, NumberIsSure DEF Kinds, Holds, Excludes

\* The combination is as sure as its parts.
LEMMA VerdictFromRules == ASSUME RulesTypeOK PROVE VerdictIsSure
  <1> DEFINE found == {Outcome(rules[i].rule) : i \in InForce}
  <1>1. SUFFICES ASSUME KnownApplicant, project # Blank
                 PROVE  /\ Verdict = "eligible" => InForce # {} /\ \A i \in InForce : Holds(i)
                        /\ Verdict = "ineligible" => \E i \in InForce : Excludes(i)
    BY DEF VerdictIsSure, Verdict
  <1>2. Verdict = Combined(found)
    BY <1>1 DEF Verdict
  <1>3. \A i \in InForce : Outcome(rules[i].rule) \in {"pass", "fail", "unknown"}
    <2> SUFFICES ASSUME NEW i \in InForce
                 PROVE  Outcome(rules[i].rule) \in {"pass", "fail", "unknown"}
      OBVIOUS
    <2>1. rules[i].rule.kind \in Kinds
      BY ShapeOfKind DEF InForce, InState, Stored, RulesTypeOK, RuleRows
    <2> QED
      BY <2>1 DEF Outcome, FormOutcome, OneOf, InRange, Decide, Kinds, RangedKinds
  <1>4. CASE Combined(found) = "eligible"
    <2>1. found # {} /\ \A i \in InForce : Outcome(rules[i].rule) = "pass"
      BY <1>3, <1>4 DEF Combined
    <2> QED BY <1>1, <1>2, <1>4, <2>1, RuleIsSure
  <1>5. CASE Combined(found) = "ineligible"
    <2>1. \E i \in InForce : Outcome(rules[i].rule) = "fail"
      BY <1>5 DEF Combined
    <2> QED BY <1>1, <1>2, <1>5, <2>1, RuleIsSure
  <1> QED BY <1>2, <1>4, <1>5

-----------------------------------------------------------------------------
(* Filling in blanks.                                                      *)

\* Nothing a person sends takes the project away.
LEMMA ProjectStays ==
    ASSUME RulesTypeOK, RulesNext, project # Blank PROVE project' # Blank
  <1>1. CASE SaveProject
    <2>1. project' \in Projects
      BY <1>1 DEF SaveProject, Choice, RulesTypeOK, Projects, Ends
    <2> QED BY <2>1, RowsAssumption
  <1>2. CASE ~SaveProject
    BY <1>2 DEF RulesNext, PasteFund, TypeFund, RemoveFund, VerifyCriterion, RejectCriterion,
                RemoveRule, AddHandRule, SaveOwnProfile, SaveRegisterProfile, MonthPasses
  <1> QED BY <1>1, <1>2

\* An outcome that was decided stays as it was.
LEMMA OutcomeSettled ==
    ASSUME RulesTypeOK, RulesTypeOK', KnownApplicant, project # Blank, project' # Blank,
           OnlyFills, NEW r \in Shapes, Readable(r), Outcome(r) # "unknown"
    PROVE  Outcome(r)' = Outcome(r)
  <1>1. /\ org.form # Blank /\ org'.form = org.form
        /\ org.nation # Blank /\ org'.nation = org.nation
        /\ org.region # Blank => org'.region = org.region
        /\ org.age # Blank => org'.age = org.age
    BY DEF OnlyFills, Fills, KnownApplicant
  <1>2. /\ project.amount # Blank => project'.amount = project.amount
        /\ project.duration # Blank => project'.duration = project.duration
        /\ project.spend # Blank => project'.spend = project.spend
        /\ project.groups # {} => project'.groups = project.groups
    BY DEF OnlyFills, Fills
  <1>3. r.kind \in Kinds
    BY ShapeOfKind
  <1>4. CASE r.kind \in {"legal_form", "jurisdiction"}
    BY <1>1, <1>4 DEF Outcome, Else
  <1>5. CASE r.kind = "region"
    BY <1>1, <1>5 DEF Outcome, OneOf
  <1>6. CASE r.kind \in RangedKinds
    BY <1>2, <1>6 DEF Outcome, InRange, RangedKinds
  <1>7. CASE r.kind = "organisation_age"
    BY <1>1, <1>7 DEF Outcome, InRange
  <1>8. CASE r.kind = "match_funding"
    BY <1>8 DEF Outcome
  <1>9. CASE r.kind = "capital_revenue"
    BY <1>2, <1>9 DEF Outcome, OneOf
  <1>10. CASE r.kind = "beneficiary"
    BY <1>2, <1>10 DEF Outcome
  <1> QED BY <1>3, <1>4, <1>5, <1>6, <1>7, <1>8, <1>9, <1>10 DEF Kinds

\* So a verdict that was given stays as it was.
LEMMA VerdictSettled ==
    ASSUME RulesTypeOK, RulesTypeOK', RulesNext, KnownApplicant, rules' = rules, OnlyFills,
           Verdict \in {"eligible", "ineligible"}
    PROVE  Verdict' = Verdict
  <1>1. project # Blank /\ project' # Blank
    BY ProjectStays DEF Verdict
  <1>2. InForce' = InForce
    BY DEF InForce, InState, Stored
  <1>3. Verdict = Combined({Outcome(rules[i].rule) : i \in InForce})
    BY <1>1 DEF Verdict
  <1>4. Verdict' = Combined({Outcome(rules[i].rule)' : i \in InForce})
    BY <1>1, <1>2 DEF Verdict, Combined
  <1>5. ASSUME NEW i \in InForce, Outcome(rules[i].rule) # "unknown"
        PROVE  Outcome(rules[i].rule)' = Outcome(rules[i].rule)
    <2>1. rules[i].rule \in Shapes /\ Readable(rules[i].rule)
      BY DEF InForce, InState, Stored, RulesTypeOK, RuleRows
    <2> QED BY <1>1, <1>5, <2>1, OutcomeSettled
  <1>6. CASE Verdict = "ineligible"
    <2>1. PICK i \in InForce : Outcome(rules[i].rule) = "fail"
      BY <1>3, <1>6 DEF Combined
    <2>2. Outcome(rules[i].rule)' = "fail"
      BY <1>5, <2>1
    <2> QED BY <1>4, <1>6, <2>2 DEF Combined
  <1>7. CASE Verdict = "eligible"
    <2>1. InForce # {} /\ \A i \in InForce : Outcome(rules[i].rule) \notin {"fail", "unknown"}
      BY <1>3, <1>7 DEF Combined
    <2>2. \A i \in InForce : Outcome(rules[i].rule)' \notin {"fail", "unknown"}
      BY <1>5, <2>1
    <2> QED BY <1>4, <1>7, <2>1, <2>2 DEF Combined
  <1> QED BY <1>6, <1>7

-----------------------------------------------------------------------------
(* Typed rules.                                                            *)

\* What a person typed is stored verified, as the form built it.
TypedAreBuilt ==
    \A i \in RuleIds : rules[i] # Blank /\ rules[i].by = "user" =>
        /\ rules[i].state = "verified"
        /\ \E box \in Boxes : Accepted(box) /\ rules[i].rule = HandRule(box)

RulesInv == RulesTypeOK /\ TypedAreBuilt

LEMMA NextTypedAreBuilt ==
    ASSUME RulesInv, [RulesNext]_rulesVars PROVE TypedAreBuilt'
  <1> USE DEF RulesInv
  <1>1. CASE PasteFund
    <2>1. PICK read \in [RuleIds -> {r \in Guidance : About(r)} \cup {Blank}] :
             rules' = [i \in RuleIds |->
                         IF read[i] = Blank THEN Blank
                         ELSE [rule |-> read[i], by |-> "ai_extraction", state |-> "proposed"]]
      BY <1>1 DEF PasteFund
    <2>2. \A i \in RuleIds : rules'[i] # Blank => rules'[i].by # "user"
      BY <2>1
    <2> QED BY <2>2 DEF TypedAreBuilt
  <1>2. CASE RemoveFund
    BY <1>2 DEF RemoveFund, TypedAreBuilt
  <1>3. ASSUME NEW i \in RuleIds, VerifyCriterion(i) \/ RejectCriterion(i) \/ RemoveRule(i)
        PROVE  TypedAreBuilt'
    <2>1. rules[i] \in RuleRows
      BY <1>3 DEF VerifyCriterion, RejectCriterion, RemoveRule, InState, Stored, RulesTypeOK
    <2>2. CASE rules' = [rules EXCEPT ![i] = Blank]
      BY <2>2 DEF TypedAreBuilt, RulesTypeOK
    <2>3. CASE /\ rules[i].by # "user"
               /\ \E s \in {"verified", "rejected"} :
                    rules' = [rules EXCEPT ![i] = [rules[i] EXCEPT !.state = s]]
      <3>1. rules'[i].by # "user" /\ \A j \in RuleIds \ {i} : rules'[j] = rules[j]
        BY <2>1, <2>3 DEF RulesTypeOK, RuleRows
      <3> QED BY <3>1 DEF TypedAreBuilt
    <2>4. rules[i].state = "proposed" => rules[i].by # "user"
      BY <2>1, RowsAssumption DEF TypedAreBuilt
    <2> QED
      BY <1>3, <2>2, <2>3, <2>4
      DEF VerifyCriterion, RejectCriterion, RemoveRule, InState, RulesTypeOK
  <1>4. ASSUME NEW i \in RuleIds, NEW box \in Boxes, AddHandRule(i, box) PROVE TypedAreBuilt'
    <2>1. /\ rules'[i].state = "verified" /\ rules'[i].rule = HandRule(box) /\ Accepted(box)
          /\ \A j \in RuleIds \ {i} : rules'[j] = rules[j]
      BY <1>4 DEF AddHandRule, RulesTypeOK
    <2> QED BY <2>1 DEF TypedAreBuilt
  <1>5. CASE rules' = rules
    BY <1>5 DEF TypedAreBuilt
  <1> QED
    BY <1>1, <1>2, <1>3, <1>4, <1>5
    DEF RulesNext, TypeFund, SaveOwnProfile, SaveRegisterProfile, MonthPasses, SaveProject, rulesVars

\* An accepted form makes a rule that can be read, and that lets somebody in.
LEMMA AcceptedWorks ==
    ASSUME NEW box \in Shapes, Accepted(box)
    PROVE  /\ Readable(HandRule(box))
           /\ \E truth \in Everything(box.kind) : Meets(HandRule(box), truth)
  <1>1. HandRule(box).kind = box.kind /\ box.kind \in Kinds
    BY HandRuleShape, ShapeOfKind
  <1>2. CASE box.kind = "legal_form"
    <2>1. box \in [kind : {"legal_form"}, treatment : Treatments \cup {Blank},
                   list : Lists(LegalForms)]
      BY <1>2, ShapeOfKind
    <2>2. HandRule(box) = [box EXCEPT !.list = Blank]
      BY <1>2 DEF HandRule
    <2>3. HandRule(box).list = Blank /\ HandRule(box).treatment # Blank
      BY <1>2, <2>1, <2>2 DEF Accepted, RangedKinds
    <2>4. "other" \notin CicForms /\ "other" \in LegalForms
      BY DEF CicForms, LegalForms
    <2>5. <<"other", TRUE>> \in Everything(box.kind)
      BY <1>2, <2>4 DEF Everything, RangedKinds
    <2>6. Meets(HandRule(box), <<"other", TRUE>>)
      BY <1>1, <1>2, <2>3, <2>4 DEF Meets, Asks, RangedKinds
    <2> QED BY <1>1, <1>2, <2>3, <2>5, <2>6 DEF Readable, RangedKinds
  <1>3. CASE box.kind = "jurisdiction"
    <2>1. box \in [kind : {"jurisdiction"}, list : Lists(Nations)] /\ box.list \notin {Blank, {}}
      BY <1>3, ShapeOfKind DEF Accepted, RangedKinds
    <2>2. HandRule(box).list = IF "uk_wide" \in box.list THEN {"uk_wide"} ELSE box.list
      BY <1>3, <2>1 DEF HandRule
    <2>3. {"uk_wide"} # Blank
      BY BlankAssumption DEF Nations
    <2>4. HandRule(box).list \notin {Blank, {}}
      BY <2>1, <2>2, <2>3
    <2>5. "uk_wide" \in Everything(box.kind) /\ Meets(HandRule(box), "uk_wide")
      BY <1>1, <1>3, <2>2 DEF Everything, Nations, Meets, RangedKinds
    <2> QED BY <1>1, <1>3, <2>4, <2>5 DEF Readable, RangedKinds
  <1>4. CASE box.kind \in {"region", "beneficiary", "capital_revenue"}
    <2>1. HandRule(box) = box /\ box.list \notin {Blank, {}}
      BY <1>4 DEF HandRule, Accepted, RangedKinds
    <2>2. Readable(HandRule(box))
      BY <1>4, <2>1 DEF Readable, RangedKinds
    <2>3. CASE box.kind = "region"
      <3>1. PICK place \in Places : place \in box.list
        BY <2>1, <2>3, ShapeOfKind DEF Lists
      <3> QED BY <2>1, <2>2, <2>3, <3>1 DEF Everything, Meets, RangedKinds
    <2>4. CASE box.kind = "beneficiary"
      <3>1. PICK group \in Groups : group \in box.list
        BY <2>1, <2>4, ShapeOfKind DEF Lists
      <3>2. {group} \in Everything(box.kind)
        BY <2>4 DEF Everything, RangedKinds
      <3>3. Meets(HandRule(box), {group})
        BY <2>1, <2>4, <3>1 DEF Meets, RangedKinds
      <3> QED BY <2>2, <3>2, <3>3
    <2>5. CASE box.kind = "capital_revenue"
      <3>1. PICK spend \in SpendKinds : spend \in box.list
        BY <2>1, <2>5, ShapeOfKind DEF Lists
      <3>2. spend \in Everything(box.kind)
        BY <2>5 DEF Everything, RangedKinds
      <3>3. Meets(HandRule(box), spend)
        BY <2>1, <2>5, <3>1 DEF Meets, SpendKinds, RangedKinds
      <3> QED BY <2>2, <3>2, <3>3
    <2> QED BY <1>4, <2>3, <2>4, <2>5
  <1>5. CASE box.kind \in RangedKinds
    <2>1. HandRule(box) = box /\ RangeAccepted(box.min, box.max)
      BY <1>5 DEF HandRule, Accepted, RangedKinds
    <2>2. box.min \in Ends /\ box.max \in Ends
      BY <1>5, ShapeOfKind
    <2>3. PICK truth \in Numbers :
             \A n \in Numbers : (n = box.min => truth >= n) /\ (n = box.max => truth <= n)
      <3>1. CASE box.min # Blank
        <4>1. box.min \in Numbers /\ (box.max \in Numbers => box.min <= box.max)
          BY <2>1, <2>2, <3>1, BlankAssumption DEF RangeAccepted, Ends
        <4> QED BY <4>1, ScaleAssumption DEF Numbers
      <3>2. CASE box.min = Blank
        <4>1. box.max \in Numbers
          BY <2>1, <2>2, <3>2 DEF RangeAccepted, Ends
        <4> QED BY <3>2, <4>1, BlankAssumption, ScaleAssumption DEF Numbers
      <3> QED BY <3>1, <3>2
    <2>4. truth \in Everything(box.kind)
      BY <1>5 DEF Everything, RangedKinds
    <2>5. Meets(box, truth)
      BY <1>5, <2>3 DEF Meets, RangedKinds
    <2> QED BY <1>5, <2>1, <2>4, <2>5 DEF Readable, RangedKinds
  <1>6. CASE box.kind = "organisation_age"
    <2>1. HandRule(box) = box /\ box.min \in Numbers
      BY <1>6, ShapeOfKind DEF HandRule, Accepted, RangedKinds, Ends
    <2>2. box.min >= box.min /\ box.min # Blank
      BY <2>1, BlankAssumption, ScaleAssumption DEF Numbers
    <2> QED BY <1>6, <2>1, <2>2 DEF Readable, Everything, Meets, RangedKinds
  <1>7. CASE box.kind = "match_funding"
    <2>1. box \in [kind : {"match_funding"}, required : BOOLEAN \cup {Blank}]
      BY <1>7, ShapeOfKind
    <2>2. HandRule(box) = [box EXCEPT !.required = TRUE]
      BY <1>7 DEF HandRule
    <2>3. HandRule(box).required = TRUE /\ Blank # TRUE
      BY <2>1, <2>2, BlankAssumption
    <2>4. Meets(HandRule(box), TRUE) /\ TRUE \in Everything(box.kind)
      BY <1>1, <1>7 DEF Meets, Everything, RangedKinds
    <2> QED BY <1>1, <1>7, <2>3, <2>4 DEF Readable, RangedKinds
  <1> QED BY <1>1, <1>2, <1>3, <1>4, <1>5, <1>6, <1>7 DEF Kinds

LEMMA TypedWork == ASSUME RulesInv PROVE HandRulesWork
  <1> SUFFICES ASSUME NEW i \in RuleIds, Stored(i), rules[i].by = "user"
               PROVE  /\ i \in InForce
                      /\ \E truth \in Everything(rules[i].rule.kind) : Meets(rules[i].rule, truth)
    BY DEF HandRulesWork
  <1>1. PICK box \in Boxes : Accepted(box) /\ rules[i].rule = HandRule(box)
    BY DEF RulesInv, TypedAreBuilt, Stored
  <1>2. box \in Shapes /\ HandRule(box).kind = box.kind
    BY ShapesAssumption, HandRuleShape
  <1>3. rules[i].state = "verified"
    BY DEF RulesInv, TypedAreBuilt, Stored
  <1> QED BY <1>1, <1>2, <1>3, AcceptedWorks DEF InForce, InState

-----------------------------------------------------------------------------
\* The rules, the profile and the project keep their types.
THEOREM RulesSpecTyped == RulesSpec => []RulesTypeOK
  <1>1. RulesInit => RulesTypeOK                              BY InitTyped
  <1>2. RulesTypeOK /\ [RulesNext]_rulesVars => RulesTypeOK'  BY NextTyped
  <1> QED BY <1>1, <1>2, PTL DEF RulesSpec

\* No verdict is surer than the answers it rests on.
THEOREM RulesSpecVerdictIsSure == RulesSpec => []VerdictIsSure
  <1>1. RulesTypeOK => VerdictIsSure  BY VerdictFromRules
  <1> QED BY <1>1, RulesSpecTyped, PTL

\* Filling in a blank never takes a verdict back.
THEOREM RulesSpecAnswersOnlySettle == RulesSpec => AnswersOnlySettle
  <1>1. RulesTypeOK /\ RulesTypeOK' /\ [RulesNext]_rulesVars
            => [KnownApplicant /\ rules' = rules /\ OnlyFills
                  /\ Verdict \in {"eligible", "ineligible"} => Verdict' = Verdict]_rulesVars
    BY VerdictSettled
  <1> QED BY <1>1, RulesSpecTyped, PTL DEF RulesSpec, AnswersOnlySettle

\* A typed rule is applied while it is stored, and lets somebody in.
THEOREM RulesSpecHandRulesWork == RulesSpec => []HandRulesWork
  <1>1. RulesInit => RulesInv
    BY InitTyped DEF RulesInit, RulesInv, TypedAreBuilt
  <1>2. RulesInv /\ [RulesNext]_rulesVars => RulesInv'
    BY NextTyped, NextTypedAreBuilt DEF RulesInv
  <1>3. RulesInv => HandRulesWork  BY TypedWork
  <1> QED BY <1>1, <1>2, <1>3, PTL DEF RulesSpec

-----------------------------------------------------------------------------
(***************************************************************************)
(* That nothing of a document goes unread and no request is unbounded, for *)
(* every target, ceiling, overlap and batch that SizesAssumption allows.   *)
(* The invariant adds to NothingGoesUnread that the text of the buffer     *)
(* begins and ends on pages already read and that a sentence being wrapped *)
(* has something left.  The ceiling can cost the overlap only: a buffer    *)
(* that still holds something new was within the target, and so within the *)
(* ceiling (Target <= MaxChars).                                           *)
(***************************************************************************)

(* A text that may become a chunk, by the time page p is read. *)
Sound(b) ==
    /\ 0 < b.len /\ b.len <= MaxChars /\ b.own
    /\ b.mark = b.first /\ 1 <= b.began /\ b.began <= b.mark /\ b.mark <= b.ended

BufferOK == buffer = Empty \/ (Sound(buffer) /\ buffer.ended <= page)

ChunkInv ==
    /\ ChunkTypeOK
    /\ BufferOK
    /\ last = Empty \/ Sound(last)
    /\ lost = 0
    /\ held <= Target
    /\ at = "wrapping" => 0 < rest
    /\ batch <= MaxBatch /\ closed <= MaxBatch

(* What stands in front of a segment: the buffer, or the end of a chunk. *)
Front(b, p) ==
    \/ b = Empty
    \/ Sound(b) /\ b.ended <= p
    \/ /\ 0 < b.len /\ ~b.own /\ b.mark = 0 /\ 1 <= b.began /\ b.began <= b.ended
       /\ b.ended <= p

-----------------------------------------------------------------------------
(* The end of a sound chunk is a text that may stand in front. *)
LEMMA TailIsFront ==
    ASSUME NEW p \in Nat, NEW b \in Texts, Sound(b), b.ended <= p, NEW f \in Tails(b)
    PROVE  f \in Texts /\ Front(f, p) /\ ~f.own
<1> USE SizesAssumption
<1>1. CASE f = Empty
  BY <1>1 DEF Empty, Texts, Front
<1>2. CASE f # Empty
  <2>1. f \in {[len |-> n, own |-> FALSE, mark |-> 0, began |-> q, ended |-> b.ended,
                first |-> 0] : n \in 1 .. Overlap, q \in b.began .. b.ended}
    BY <1>2 DEF Tails
  <2>2. PICK n \in 1 .. Overlap, q \in b.began .. b.ended :
          f = [len |-> n, own |-> FALSE, mark |-> 0, began |-> q, ended |-> b.ended,
               first |-> 0]
    BY <2>1
  <2>3. n \in Nat /\ 0 < n
    OBVIOUS
  <2>4. b.began \in Nat /\ b.ended \in Nat /\ 1 <= b.began
    BY DEF Texts, Sound
  <2>5. q \in Nat /\ 1 <= q /\ q <= b.ended
    BY <2>4
  <2>6. f \in Texts
    BY <2>2, <2>3, <2>4, <2>5 DEF Texts
  <2> QED BY <2>2, <2>3, <2>4, <2>5, <2>6 DEF Front
<1> QED BY <1>1, <1>2

(* A segment joins what may stand in front of it, and the two are sound:   *)
(* the ceiling holds because a text that would break it is not kept.       *)
LEMMA JoinedIsSound ==
    ASSUME NEW n \in Nat, 0 < n, n <= MaxChars, page \in Nat, 1 <= page,
           NEW b \in Texts, Front(b, page)
    PROVE  /\ Joined(Kept(b, n), n) \in Texts
           /\ Sound(Joined(Kept(b, n), n)) /\ Joined(Kept(b, n), n).ended <= page
<1> USE SizesAssumption
<1> DEFINE k == Kept(b, n)
<1>1. k \in Texts /\ Front(k, page)
  BY DEF Kept, Empty, Texts, Front
<1>2. k.len = 0 \/ k.len + n + 2 <= MaxChars
  <2>1. CASE TooLong(b, n, MaxChars)
    BY <2>1 DEF Kept, Empty
  <2>2. CASE ~TooLong(b, n, MaxChars)
    BY <2>2 DEF Kept, TooLong, Texts
  <2> QED BY <2>1, <2>2
<1>3. k.len = 0 <=> k = Empty
  BY <1>1 DEF Front, Sound, Empty, Texts
<1> DEFINE j == Joined(k, n)
<1>4. CASE k = Empty
  <2>1. j = [len |-> n, own |-> TRUE, mark |-> page, began |-> page, ended |-> page,
             first |-> page]
    BY <1>4 DEF Joined, Empty
  <2>2. j \in Texts
    BY <2>1 DEF Texts
  <2> QED BY <2>1, <2>2 DEF Sound
<1>5. CASE k # Empty /\ k.own
  <2>1. Sound(k) /\ k.ended <= page
    BY <1>1, <1>5 DEF Front
  <2>2. k.mark # 0 /\ k.len # 0
    BY <2>1, <1>1 DEF Sound, Texts
  <2>3. j = [len |-> k.len + 2 + n, own |-> TRUE, mark |-> k.mark, began |-> k.began,
             ended |-> page, first |-> k.first]
    BY <2>2, <1>5 DEF Joined
  <2>4. j \in Texts
    BY <2>3, <1>1 DEF Texts
  <2> QED BY <2>1, <2>2, <2>3, <2>4, <1>1, <1>2 DEF Sound, Texts
<1>6. CASE k # Empty /\ ~k.own
  <2>1. /\ 0 < k.len /\ k.mark = 0 /\ 1 <= k.began
        /\ k.began <= k.ended /\ k.ended <= page
    BY <1>1, <1>6 DEF Front, Sound
  <2>4. k.len # 0 /\ k.own = FALSE
    BY <2>1, <1>6, <1>1 DEF Texts
  <2>2. j = [len |-> k.len + 2 + n, own |-> TRUE, mark |-> page, began |-> k.began,
             ended |-> page, first |-> page]
    BY <2>1, <2>4 DEF Joined
  <2>3. j \in Texts
    BY <2>2, <1>1 DEF Texts
  <2> QED BY <2>1, <2>2, <2>3, <1>1, <1>2 DEF Sound, Texts
<1> QED BY <1>4, <1>5, <1>6

(* A chunk that is made goes into a batch within its limit. *)
LEMMA PushKeeps ==
    ASSUME ChunkInv, buffer # Empty, Push(buffer)
    PROVE  /\ last' \in Texts /\ Sound(last')
           /\ batch' \in Nat /\ batch' <= MaxBatch
           /\ closed' \in Nat /\ closed' <= MaxBatch
<1> USE SizesAssumption
<1>1. last' = buffer /\ buffer \in Texts /\ Sound(buffer)
  BY DEF Push, ChunkInv, BufferOK, ChunkTypeOK
<1>2. buffer.len \in Nat /\ buffer.len <= MaxChars
  BY <1>1 DEF Sound, Texts
<1>3. batch \in Nat /\ closed \in Nat /\ batch <= MaxBatch /\ closed <= MaxBatch
  BY DEF ChunkInv, ChunkTypeOK
<1>4. CASE BatchIsFull(buffer.len)
  BY <1>1, <1>2, <1>3, <1>4 DEF Push
<1>5. CASE ~BatchIsFull(buffer.len)
  <2>1. batch = 0 \/ batch + buffer.len <= MaxBatch
    BY <1>2, <1>3, <1>5 DEF BatchIsFull
  <2>2. batch' = batch + buffer.len /\ closed' = closed
    BY <1>5 DEF Push
  <2> QED BY <2>1, <2>2, <1>1, <1>2, <1>3
<1> QED BY <1>4, <1>5

(* A segment is added: the buffer stays sound and nothing is dropped.      *)
LEMMA AddSegmentKeeps ==
    ASSUME ChunkInv, NEW n \in Nat, 0 < n, n <= MaxChars, AddSegment(n)
    PROVE  /\ buffer' \in Texts /\ Sound(buffer') /\ buffer'.ended <= page
           /\ last' \in Texts /\ (last' = Empty \/ Sound(last'))
           /\ batch' \in Nat /\ batch' <= MaxBatch
           /\ closed' \in Nat /\ closed' <= MaxBatch
           /\ lost' = 0
<1> USE SizesAssumption
<1>1. page \in Nat /\ 1 <= page /\ buffer \in Texts /\ BufferOK
  BY DEF ChunkInv, ChunkTypeOK
<1>2. PICK front \in (IF Full(buffer, n) THEN Tails(buffer) ELSE {buffer}) :
        /\ IF Full(buffer, n) THEN Push(buffer) ELSE UNCHANGED <<last, batch, closed>>
        /\ buffer' = Joined(Kept(front, n), n)
        /\ lost' = IF TooLong(front, n, MaxChars) /\ front.own THEN lost + 1 ELSE lost
  BY DEF AddSegment
<1>3. CASE Full(buffer, n)
  <2>1. buffer # Empty
    BY <1>3 DEF Full, TooLong, Empty
  <2>2. Sound(buffer) /\ buffer.ended <= page
    BY <2>1, <1>1 DEF BufferOK
  <2>3. front \in Tails(buffer) /\ Push(buffer)
    BY <1>2, <1>3
  <2>4. front \in Texts /\ Front(front, page) /\ ~front.own
    BY <1>1, <2>2, <2>3, TailIsFront
  <2>5. buffer' \in Texts /\ Sound(buffer') /\ buffer'.ended <= page
    BY <1>1, <1>2, <2>4, JoinedIsSound
  <2>6. lost' = 0
    BY <1>2, <2>4 DEF ChunkInv, ChunkTypeOK
  <2> QED BY <2>1, <2>3, <2>5, <2>6, PushKeeps
<1>4. CASE ~Full(buffer, n)
  <2>1. front = buffer
    BY <1>2, <1>4
  <2>2. Front(buffer, page)
    BY <1>1 DEF BufferOK, Front
  <2>3. buffer' \in Texts /\ Sound(buffer') /\ buffer'.ended <= page
    BY <1>1, <1>2, <2>1, <2>2, JoinedIsSound
  <2>4. ~TooLong(buffer, n, MaxChars)
    BY <1>1, <1>4 DEF Full, TooLong, Texts
  <2>5. lost' = 0
    BY <1>2, <2>1, <2>4 DEF ChunkInv, ChunkTypeOK
  <2>6. UNCHANGED <<last, batch, closed>>
    BY <1>2, <1>4
  <2> QED BY <2>3, <2>5, <2>6 DEF ChunkInv, ChunkTypeOK
<1> QED BY <1>3, <1>4

-----------------------------------------------------------------------------
LEMMA ChunkInitHolds == ChunkInit => ChunkInv
<1>1. Empty \in Texts
  BY DEF Empty, Texts
<1>2. ASSUME ChunkInit PROVE ChunkTypeOK
  BY <1>1, <1>2, SizesAssumption DEF ChunkInit, ChunkTypeOK
<1> QED BY <1>2, SizesAssumption DEF ChunkInit, ChunkInv, BufferOK

LEMMA ChunkStepHolds == ChunkInv /\ [ChunkNext]_chunkVars => ChunkInv'
<1> SUFFICES ASSUME ChunkInv, [ChunkNext]_chunkVars PROVE ChunkInv'
  OBVIOUS
<1> USE SizesAssumption
<1>1. CASE NextPage
  <2>1. page \in Nat /\ page' = page + 1 /\ page' \in 1 .. MaxPages
    BY <1>1 DEF NextPage, ChunkInv, ChunkTypeOK
  <2>2. UNCHANGED <<at, held, rest, buffer, last, batch, closed, lost>>
    BY <1>1 DEF NextPage
  <2>3. BufferOK'
    <3>1. CASE buffer = Empty
      BY <3>1, <2>2 DEF BufferOK
    <3>2. CASE Sound(buffer) /\ buffer.ended <= page
      <4>1. buffer.ended \in Nat
        BY DEF ChunkInv, ChunkTypeOK, Texts
      <4> QED BY <3>2, <4>1, <2>1, <2>2 DEF BufferOK, Sound
    <3> QED BY <3>1, <3>2 DEF ChunkInv, BufferOK
  <2> QED BY <2>1, <2>2, <2>3 DEF ChunkInv, ChunkTypeOK, Sound
<1>2. CASE BeginSentences
  BY <1>2 DEF BeginSentences, ChunkInv, ChunkTypeOK, BufferOK, Sound
<1>3. CASE EndParagraph
  BY <1>3 DEF EndParagraph, ChunkInv, ChunkTypeOK, BufferOK, Sound
<1>4. CASE Finish
  <2>1. buffer # Empty /\ Push(buffer)
    BY <1>4 DEF Finish, Empty
  <2>2. buffer' = Empty /\ page' = 1 /\ UNCHANGED <<at, held, rest, lost>>
    BY <1>4 DEF Finish
  <2>3. Empty \in Texts
    BY DEF Empty, Texts
  <2> QED BY <2>1, <2>2, <2>3, PushKeeps DEF ChunkInv, ChunkTypeOK, BufferOK, Sound
<1>5. ASSUME NEW n \in 1 .. MaxSentence, Sentence(n) PROVE ChunkInv'
  <2>1. held' \in Nat /\ held' <= Target
    BY <1>5 DEF Sentence, ChunkInv, ChunkTypeOK
  <2> QED BY <1>5, <2>1 DEF Sentence, ChunkInv, ChunkTypeOK, BufferOK, Sound
<1>6. ASSUME NEW n \in 1 .. MaxSentence, BeginWrapping(n) PROVE ChunkInv'
  BY <1>6 DEF BeginWrapping, ChunkInv, ChunkTypeOK, BufferOK, Sound
<1>7. ASSUME NEW n \in 1 .. MaxSentence, Paragraph(n) PROVE ChunkInv'
  <2>1. AddSegment(n) /\ n <= MaxChars /\ UNCHANGED <<page, at, held, rest>>
    BY <1>7 DEF Paragraph
  <2> QED BY <2>1, AddSegmentKeeps DEF ChunkInv, ChunkTypeOK, BufferOK, Sound
<1>8. CASE EmitHeld
  <2>1. AddSegment(held) /\ 0 < held /\ held' = 0 /\ UNCHANGED <<page, at, rest>>
    BY <1>8 DEF EmitHeld, ChunkInv, ChunkTypeOK
  <2>2. held \in Nat /\ held <= MaxChars
    BY DEF ChunkInv, ChunkTypeOK
  <2>3. /\ buffer' \in Texts /\ Sound(buffer') /\ buffer'.ended <= page
        /\ last' \in Texts /\ (last' = Empty \/ Sound(last'))
        /\ batch' \in Nat /\ batch' <= MaxBatch
        /\ closed' \in Nat /\ closed' <= MaxBatch
        /\ lost' = 0
    BY <2>1, <2>2, AddSegmentKeeps
  <2> QED BY <2>1, <2>3 DEF ChunkInv, ChunkTypeOK, BufferOK, Sound
<1>9. ASSUME NEW cut \in 1 .. Target, Wrap(cut) PROVE ChunkInv'
  <2>1. AddSegment(cut) /\ UNCHANGED <<page, at, held>>
    BY <1>9 DEF Wrap
  <2>2. rest' \in Nat /\ 0 < rest'
    BY <1>9 DEF Wrap, ChunkInv, ChunkTypeOK
  <2>3. /\ buffer' \in Texts /\ Sound(buffer') /\ buffer'.ended <= page
        /\ last' \in Texts /\ (last' = Empty \/ Sound(last'))
        /\ batch' \in Nat /\ batch' <= MaxBatch
        /\ closed' \in Nat /\ closed' <= MaxBatch
        /\ lost' = 0
    BY <2>1, AddSegmentKeeps
  <2> QED BY <2>1, <2>2, <2>3 DEF ChunkInv, ChunkTypeOK, BufferOK, Sound
<1>10. CASE EndWrapping
  <2>1. AddSegment(rest) /\ rest' = 0 /\ at' = "sentences" /\ UNCHANGED <<page, held>>
    BY <1>10 DEF EndWrapping
  <2>2. rest \in Nat /\ 0 < rest /\ rest <= MaxChars
    BY <1>10 DEF EndWrapping, ChunkInv, ChunkTypeOK
  <2>3. /\ buffer' \in Texts /\ Sound(buffer') /\ buffer'.ended <= page
        /\ last' \in Texts /\ (last' = Empty \/ Sound(last'))
        /\ batch' \in Nat /\ batch' <= MaxBatch
        /\ closed' \in Nat /\ closed' <= MaxBatch
        /\ lost' = 0
    BY <2>1, <2>2, AddSegmentKeeps
  <2> QED BY <2>1, <2>3 DEF ChunkInv, ChunkTypeOK, BufferOK, Sound
<1>11. CASE UNCHANGED chunkVars
  BY <1>11 DEF chunkVars, ChunkInv, ChunkTypeOK, BufferOK, Sound
<1> QED
  BY <1>1, <1>2, <1>3, <1>4, <1>5, <1>6, <1>7, <1>8, <1>9, <1>10, <1>11 DEF ChunkNext

(* The reading of a document keeps the shape of its state.                 *)
THEOREM SpecChunkTypeOK == ChunkSpec => []ChunkTypeOK
<1>1. ChunkInv => ChunkTypeOK
  BY DEF ChunkInv
<1> QED BY <1>1, ChunkInitHolds, ChunkStepHolds, PTL DEF ChunkSpec

(* Whatever the sizes, nothing of a document goes unread and no chunk and  *)
(* no batch is longer than its limit (chunkPages, batchChunks).            *)
THEOREM SpecNothingGoesUnread == ChunkSpec => []NothingGoesUnread
<1>1. ChunkInv => NothingGoesUnread
  BY DEF ChunkInv, NothingGoesUnread, BufferOK, Sound
<1> QED BY <1>1, ChunkInitHolds, ChunkStepHolds, PTL DEF ChunkSpec

-----------------------------------------------------------------------------
(***************************************************************************)
(* What is said of a fund, whatever its form, its funder and the sum       *)
(* sought.  The list and the page put the same rows through the same       *)
(* functions, and differ in one argument: whether a draft is written or    *)
(* checked.  So the argument is that the recommendation falls as the hours *)
(* rise, and that checking is never dearer.  The guide is a case analysis  *)
(* over what a question about the work may have: nothing, a proposal, or a *)
(* confirmed answer.                                                       *)
(***************************************************************************)

LEMMA AssessStarts == AssessInit => AssessTypeOK
<1> SUFFICES ASSUME AssessInit PROVE AssessTypeOK
  OBVIOUS
<1>1. fact \in [WorkClaims -> {"absent", "pending", "confirmed"}]
  BY DEF AssessInit
<1>2. others \in 0 .. MaxOthers /\ judged \in Judgements
  BY AssessmentAssumption DEF AssessInit
<1>3. /\ waiting \in BOOLEAN /\ key = "none" /\ profile = "none" /\ ask = NoProject
      /\ own = {} /\ applied = {}
  BY DEF AssessInit
<1> QED BY <1>1, <1>2, <1>3 DEF AssessTypeOK

LEMMA FactsPut ==
    ASSUME AssessTypeOK, NEW c \in WorkClaims,
           NEW state \in {"absent", "pending", "confirmed"},
           fact' = [fact EXCEPT ![c] = state]
    PROVE  fact' \in [WorkClaims -> {"absent", "pending", "confirmed"}]
  BY DEF AssessTypeOK

LEMMA AssessMoves == ASSUME AssessTypeOK, [AssessNext]_assessVars PROVE AssessTypeOK'
<1>1. CASE UNCHANGED assessVars
  BY <1>1 DEF AssessTypeOK, assessVars
<1>2. ASSUME NEW c \in WorkClaims, Propose(c) \/ Confirm(c) \/ TakeBack(c) \/ Reread(c)
      PROVE  AssessTypeOK'
  <2>1. fact' \in [WorkClaims -> {"absent", "pending", "confirmed"}]
    BY <1>2, FactsPut DEF Propose, Confirm, TakeBack, Reread
  <2> QED BY <1>2, <2>1 DEF AssessTypeOK, Propose, Confirm, TakeBack, Reread
<1>3. CASE OtherFacts
  BY <1>3, AssessmentAssumption DEF AssessTypeOK, OtherFacts
<1>4. CASE ChangeKey \/ SaveProfile
  BY <1>4 DEF AssessTypeOK, ChangeKey, SaveProfile
<1>5. ASSUME NEW sum \in SumsSought \cup {NoSum}, NameProject(sum) PROVE AssessTypeOK'
  BY <1>5 DEF AssessTypeOK, NameProject
<1>6. ASSUME NEW f \in Funds, AddFund(f) \/ StartApplication(f) PROVE AssessTypeOK'
  BY <1>6 DEF AssessTypeOK, AddFund, StartApplication
<1>7. ASSUME NEW f \in Funds, DeleteOpportunity(f) PROVE AssessTypeOK'
  BY <1>7 DEF AssessTypeOK, DeleteOpportunity
<1>8. ASSUME NEW outcomes \in Judgements, Judge(outcomes) PROVE AssessTypeOK'
  BY <1>8 DEF AssessTypeOK, Judge
<1> QED BY <1>1, <1>2, <1>3, <1>4, <1>5, <1>6, <1>7, <1>8 DEF AssessNext

-----------------------------------------------------------------------------
\* A price is a number, and checking a draft is never dearer than writing one.
LEMMA Prices ==
    ASSUME NEW f \in Funds, NEW mode \in {"assisted", "unassisted"}
    PROVE  /\ HalfHours(f, mode) \in Nat
           /\ HalfHours(f, "assisted") <= HalfHours(f, mode)
<1>1. FormOf(f) \in Sheets
  BY AssessmentAssumption DEF FormOf, EmptyForm, Sheets
<1>2. PICK sheet \in Sheets : sheet = FormOf(f)
  BY <1>1
<1>3. /\ sheet.words \in Nat /\ sheet.questions \in Nat /\ sheet.papers \in Nat
  BY <1>2 DEF Sheets
<1>4. /\ CostOf(sheet, mode) \in Nat /\ CostOf(sheet, "assisted") \in Nat
      /\ CostOf(sheet, "assisted") <= CostOf(sheet, mode)
  BY <1>3 DEF CostOf
<1>5. ASSUME NEW a \in Nat, NEW b \in Nat, a <= b
      PROVE  (a + 700) \div 1400 \in Nat /\ (a + 700) \div 1400 <= (b + 700) \div 1400
  BY <1>5
<1> QED BY <1>2, <1>4, <1>5 DEF HalfHours

LEMMA RanksInOrder ==
    /\ Rank("strong") = 1 /\ Rank("worth_considering") = 2
    /\ Rank("conditional") = 3 /\ Rank("not_recommended") = 4
<1>1. DOMAIN Ranks = 1 .. 4
  BY DEF Ranks
<1>2. /\ Ranks[1] = "strong" /\ Ranks[2] = "worth_considering"
      /\ Ranks[3] = "conditional" /\ Ranks[4] = "not_recommended"
  BY DEF Ranks
<1>3. ASSUME NEW n \in 1 .. 4 PROVE Rank(Ranks[n]) = n
  <2>1. \A i \in 1 .. 4 : Ranks[i] = Ranks[n] => i = n
    BY <1>2, <1>3
  <2> QED BY <1>1, <2>1 DEF Rank
<1> QED BY <1>2, <1>3

\* The more hours, the less it is worth.
LEMMA WorthFalls ==
    ASSUME NEW verdict \in {"ineligible", "unknown", "eligible"},
           NEW sum \in Nat \cup {NoSum}, NEW a \in Nat, NEW b \in Nat, a <= b
    PROVE  /\ Rank(Recommend(verdict, sum, a)) <= Rank(Recommend(verdict, sum, b))
           /\ Recommend(verdict, sum, a) \in
                  {"strong", "worth_considering", "conditional", "not_recommended"}
           /\ verdict = "ineligible" => Recommend(verdict, sum, a) = "not_recommended"
           /\ Recommend(verdict, sum, a) = "strong" => verdict = "eligible" /\ sum # NoSum
<1>1. CASE verdict = "ineligible" \/ verdict = "unknown" \/ sum = NoSum
  BY <1>1, RanksInOrder DEF Recommend
<1>2. CASE verdict = "eligible" /\ sum # NoSum
  <2>1. sum \in Nat
    BY <1>2
  <2> DEFINE worth(n) == IF 2 * sum >= 2000 * n THEN "strong"
                         ELSE IF 2 * sum >= 800 * n THEN "worth_considering"
                         ELSE IF 2 * sum >= 350 * n THEN "conditional"
                         ELSE "not_recommended"
  <2>2. Recommend(verdict, sum, a) = worth(a) /\ Recommend(verdict, sum, b) = worth(b)
    BY <1>2 DEF Recommend
  <2>3. 2000 * a <= 2000 * b /\ 800 * a <= 800 * b /\ 350 * a <= 350 * b
    OBVIOUS
  <2>4. /\ worth(b) = "strong" => worth(a) = "strong"
        /\ worth(b) = "worth_considering" => worth(a) \in {"strong", "worth_considering"}
        /\ worth(b) = "conditional" => worth(a) # "not_recommended"
    BY <2>1, <2>3
  <2>5. \A n \in Nat :
            worth(n) \in {"strong", "worth_considering", "conditional", "not_recommended"}
    OBVIOUS
  <2> HIDE DEF worth
  <2> QED BY <1>2, <2>2, <2>4, <2>5, RanksInOrder
<1> QED BY <1>1, <1>2

LEMMA VerdictOfRules ==
    ASSUME AssessTypeOK
    PROVE  /\ FundVerdict \in {"ineligible", "unknown", "eligible"}
           /\ FundVerdict = "eligible" => judged = {"pass"}
           /\ Headline = "not_eligible" <=> FundVerdict = "ineligible"
           /\ Headline = "open_questions" => "unknown" \in judged
<1>1. judged \subseteq {"pass", "unknown", "fail"}
  BY AssessmentAssumption DEF AssessTypeOK
<1> QED BY <1>1 DEF FundVerdict, Headline

LEMMA OnePictureAlways == AssessTypeOK => OnePicture
<1> SUFFICES ASSUME AssessTypeOK, NEW f \in Weighed
             PROVE  LET here == ListCard(f)
                        there == FundPage(f)
                    IN  /\ here.verdict = there.verdict /\ here.headline = there.headline
                        /\ here.size = there.size
                        /\ (here.halves = Unseen <=> there.halves = Unseen)
                        /\ there.halves # Unseen => there.halves <= here.halves
                        /\ Rank(there.recommendation) <= Rank(here.recommendation)
                        /\ there.recommendation # here.recommendation => UnassistedReason = "none"
                        /\ \A card \in {here, there} :
                              /\ card.recommendation = "strong" =>
                                    judged = {"pass"} /\ ask # NoSum /\ Forms[f] # Unseen
                              /\ card.headline = "not_eligible" =>
                                    card.recommendation = "not_recommended"
                              /\ card.recommendation = "not_recommended" /\ Forms[f] = Unseen =>
                                    card.headline = "not_eligible"
                              /\ card.headline = "open_questions" => OffersEnquiry(f)
  BY DEF OnePicture
<1> DEFINE here == ListCard(f)
<1> DEFINE there == FundPage(f)
<1> DEFINE mode == DraftingMode
<1>1. f \in Funds /\ ask \in Nat \cup {NoSum}
  BY AssessmentAssumption DEF Weighed, Visible, AssessTypeOK
<1>2. mode \in {"assisted", "unassisted"} /\ (mode = "assisted" <=> UnassistedReason = "none")
  BY DEF DraftingMode
<1>3. PICK h \in Nat, k \in Nat :
         h = HalfHours(f, mode) /\ k = HalfHours(f, "unassisted") /\ h <= k
  <2>1. HalfHours(f, mode) \in Nat /\ HalfHours(f, "unassisted") \in Nat
    BY <1>1, <1>2, Prices
  <2>2. HalfHours(f, mode) <= HalfHours(f, "unassisted")
    <3>1. CASE mode = "assisted"
      BY <1>1, <3>1, Prices
    <3>2. CASE mode = "unassisted"
      BY <2>1, <3>2
    <3> QED BY <1>2, <3>1, <3>2
  <2> QED BY <2>1, <2>2
<1>4. PICK v \in {"ineligible", "unknown", "eligible"} : v = FundVerdict
  BY VerdictOfRules
<1>5. PICK p, l :
         /\ p = Recommend(v, ask, h) /\ l = Recommend(v, ask, k)
         /\ Rank(p) <= Rank(l)
         /\ v = "ineligible" => p = "not_recommended" /\ l = "not_recommended"
         /\ (p = "strong" \/ l = "strong") => v = "eligible" /\ ask # NoSum
  BY <1>1, <1>3, WorthFalls
<1>6. /\ here.verdict = v /\ there.verdict = v
      /\ here.headline = Headline /\ there.headline = Headline
      /\ here.size = there.size
  BY <1>4 DEF ListCard, FundPage, AssessOpportunity
<1>7. /\ here.halves = IF Forms[f] # Unseen THEN k ELSE Unseen
      /\ there.halves = IF Forms[f] # Unseen THEN h ELSE Unseen
  BY <1>3 DEF ListCard, FundPage, AssessOpportunity
<1>8. /\ here.recommendation = IF Forms[f] # Unseen \/ v = "ineligible" THEN l ELSE "conditional"
      /\ there.recommendation = IF Forms[f] # Unseen \/ v = "ineligible" THEN p ELSE "conditional"
  BY <1>3, <1>4, <1>5 DEF ListCard, FundPage, AssessOpportunity
<1> HIDE DEF here, there
<1>9. /\ here.halves = Unseen <=> there.halves = Unseen
      /\ there.halves # Unseen => there.halves <= here.halves
  BY <1>3, <1>7, AssessmentAssumption
<1>10. /\ Rank(there.recommendation) <= Rank(here.recommendation)
       /\ there.recommendation # here.recommendation => UnassistedReason = "none"
  <2>1. mode = "unassisted" => h = k
    BY <1>3
  <2>2. mode = "unassisted" => p = l
    BY <1>5, <2>1
  <2> QED BY <1>2, <1>5, <1>8, <2>2, RanksInOrder
<1>11. ASSUME NEW card, card = here \/ card = there
       PROVE  /\ card.recommendation = "strong" =>
                    judged = {"pass"} /\ ask # NoSum /\ Forms[f] # Unseen
              /\ card.headline = "not_eligible" => card.recommendation = "not_recommended"
              /\ card.recommendation = "not_recommended" /\ Forms[f] = Unseen =>
                    card.headline = "not_eligible"
              /\ card.headline = "open_questions" => OffersEnquiry(f)
  BY <1>4, <1>5, <1>6, <1>8, <1>11, VerdictOfRules DEF OffersEnquiry
<1> QED BY <1>6, <1>9, <1>10, <1>11 DEF here, there

LEMMA GuideAlways == AssessTypeOK => GuideIsTrue
<1> SUFFICES ASSUME AssessTypeOK PROVE GuideIsTrue
  OBVIOUS
<1>1. \A c \in WorkClaims : fact[c] \in {"absent", "pending", "confirmed"}
  BY DEF AssessTypeOK
<1>2. \A q \in WorkQuestions : \A c \in AnsweredBy[q] : c \in WorkClaims
  BY AssessmentAssumption
<1>3. \A q : q \in StillToAsk
         <=> q \in WorkQuestions /\ \A c \in AnsweredBy[q] : fact[c] = "absent"
  BY <1>1, <1>2 DEF StillToAsk, UnansweredAboutTheWork, AnsweredIn
<1>4. StillToAsk \subseteq UnansweredAboutTheWork
  BY DEF StillToAsk
<1>5. UnansweredAboutTheWork # {} /\ StillToAsk = {} => AnythingPending
  BY <1>2 DEF StillToAsk, UnansweredAboutTheWork, AnsweredIn, AnythingPending
<1>6. WorkHref = "/onboarding#work" <=> StillToAsk # {}
  BY <1>4 DEF WorkHref
<1>7. WorkHref = "/organisation" => AnythingPending
  BY <1>5 DEF WorkHref
<1>8. WorkHref = "/onboarding#work" <=>
          \E q \in WorkQuestions : \A c \in AnsweredBy[q] : fact[c] = "absent"
  BY <1>3, <1>6
<1>9. WriterAvailable => (WorkDone <=> DraftingMode = "assisted")
  <2>1. UsableFacts \in Nat
    <3>1. {c \in WorkClaims : fact[c] = "confirmed"} \in SUBSET WorkClaims
      OBVIOUS
    <3>2. Cardinality({c \in WorkClaims : fact[c] = "confirmed"}) \in Nat
      BY <3>1, AssessmentAssumption, FS_Subset, FS_CardinalityType
    <3> QED BY <3>2, AssessmentAssumption DEF UsableFacts, AssessTypeOK
  <2>2. PICK n \in Nat : n = UsableFacts
    BY <2>1
  <2> QED BY <2>2 DEF WorkDone, DraftingMode, UnassistedReason, FactsNeeded
<1>10. NextStep # NoSum => ~NextStep.blocked
  <2> SUFFICES ASSUME NextStep # NoSum PROVE ~NextStep.blocked
    OBVIOUS
  <2>1. /\ DOMAIN SetupSteps = 1 .. 5
        /\ \A i \in 1 .. 4 : ~SetupSteps[i].blocked
        /\ SetupSteps[5].blocked => own = {}
        /\ SetupSteps[4].done <=> own # {}
    <3>1. PICK a, b, c, d, e :
             /\ SetupSteps = <<a, b, c, d, e>>
             /\ a = SetupStep("organisation", profile = "whole", "/onboarding", FALSE)
             /\ b = SetupStep("facts", WorkDone, WorkHref, FALSE)
             /\ c = SetupStep("project", ask # NoProject, "/onboarding#project", FALSE)
             /\ d = SetupStep("opportunity", own # {}, "/funders", FALSE)
             /\ e = SetupStep("application", applied # {}, "/", own = {})
      BY DEF SetupSteps
    <3>2. /\ ~a.blocked /\ ~b.blocked /\ ~c.blocked /\ ~d.blocked
          /\ d.done <=> own # {}
          /\ e.blocked => own = {}
      BY <3>1 DEF SetupStep
    <3>3. DOMAIN SetupSteps = 1 .. 5
      BY <3>1
    <3>5. /\ SetupSteps[1] = a /\ SetupSteps[2] = b /\ SetupSteps[3] = c
          /\ SetupSteps[4] = d /\ SetupSteps[5] = e
      BY <3>1
    <3>6. /\ ~SetupSteps[1].blocked /\ ~SetupSteps[2].blocked /\ ~SetupSteps[3].blocked
          /\ ~SetupSteps[4].blocked /\ (SetupSteps[4].done <=> own # {})
          /\ SetupSteps[5].blocked => own = {}
      BY <3>2, <3>5
    <3>4. \A i \in 1 .. 4 : i = 1 \/ i = 2 \/ i = 3 \/ i = 4
      OBVIOUS
    <3> QED BY <3>3, <3>4, <3>6
  <2>2. Undone \subseteq 1 .. 5 /\ Undone # {} /\ (4 \in Undone <=> own = {})
    BY <2>1 DEF Undone, NextStep
  <2>3. \E i \in Undone : \A j \in Undone : i <= j
    <3>1. CASE 1 \in Undone
      BY <2>2, <3>1
    <3>2. CASE 1 \notin Undone /\ 2 \in Undone
      BY <2>2, <3>2
    <3>3. CASE 1 \notin Undone /\ 2 \notin Undone /\ 3 \in Undone
      BY <2>2, <3>3
    <3>4. CASE 1 \notin Undone /\ 2 \notin Undone /\ 3 \notin Undone
      <4>1. \A i \in Undone : i = 4 \/ i = 5
        BY <2>2, <3>4
      <4>2. CASE 4 \in Undone
        BY <4>1, <4>2
      <4>3. CASE 4 \notin Undone
        <5>1. 5 \in Undone /\ \A i \in Undone : i = 5
          BY <2>2, <4>1, <4>3
        <5> QED BY <5>1
      <4> QED BY <4>2, <4>3
    <3> QED BY <3>1, <3>2, <3>3, <3>4
  <2>4. PICK i \in Undone : NextStep = SetupSteps[i] /\ \A j \in Undone : i <= j
    BY <2>2, <2>3 DEF NextStep
  <2> QED BY <2>1, <2>2, <2>4
<1> QED BY <1>7, <1>8, <1>9, <1>10 DEF GuideIsTrue

(* Whatever the form, the funder, the sum and the order in which a person  *)
(* sets up, the list, the fund's page and the guide deny nothing another   *)
(* of them says (src/db/queries.ts, src/domain/setup/progress.ts).         *)
THEOREM SpecFundIsWeighed == AssessSpec => [](AssessTypeOK /\ OnePicture /\ GuideIsTrue)
  BY AssessStarts, AssessMoves, OnePictureAlways, GuideAlways, PTL DEF AssessSpec

-----------------------------------------------------------------------------
(***************************************************************************)
(* The application as a whole.  Its parts share no variable, so every      *)
(* behaviour of the whole is one of each part (AppHasParts), and what was  *)
(* proved of a part is the whole's.                                        *)
(***************************************************************************)

(* Facts, the funder's answer, rules, the screens and a document, side by  *)
(* side, each behave as they do alone.                                     *)
THEOREM AppHasParts ==
    AppSpec => Spec /\ OutcomeSpec /\ RulesSpec /\ AssessSpec /\ ChunkSpec
<1>1. AppInit => Init /\ OutcomeInit /\ RulesInit /\ AssessInit /\ ChunkInit
  BY DEF AppInit
<1>2. [AppNext]_appVars => [Next]_vars
  BY DEF AppNext, FactsStep, OutcomeStep, RulesStep, FundStep, DocumentStep, appVars
<1>3. [AppNext]_appVars => [OutcomeNext]_outcomeVars
  BY DEF AppNext, FactsStep, OutcomeStep, RulesStep, FundStep, DocumentStep, appVars
<1>4. [AppNext]_appVars => [RulesNext]_rulesVars
  BY DEF AppNext, FactsStep, OutcomeStep, RulesStep, FundStep, DocumentStep, appVars
<1>5. [AppNext]_appVars => [AssessNext]_assessVars
  BY DEF AppNext, FactsStep, OutcomeStep, RulesStep, FundStep, DocumentStep, appVars
<1>6. [AppNext]_appVars => [ChunkNext]_chunkVars
  BY DEF AppNext, FactsStep, OutcomeStep, RulesStep, FundStep, DocumentStep, appVars
<1> QED
  BY <1>1, <1>2, <1>3, <1>4, <1>5, <1>6, PTL
  DEF AppSpec, Spec, OutcomeSpec, RulesSpec, AssessSpec, ChunkSpec

(* All five parts keep their types side by side, for every value of the    *)
(* constants.                                                              *)
THEOREM AppTypesOK == AppSpec => []TypesOK
<1>1. OutcomeSpec => []OutcomeTypeOK
  <2>1. OutcomeInv => OutcomeTypeOK
    BY DEF OutcomeInv
  <2>2. OutcomeInit => OutcomeInv
    BY InitOutcome
  <2>3. OutcomeInv /\ [OutcomeNext]_outcomeVars => OutcomeInv'
    BY NextOutcome
  <2> QED BY <2>1, <2>2, <2>3, PTL DEF OutcomeSpec
<1>2. TypeOK /\ OutcomeTypeOK /\ RulesTypeOK /\ AssessTypeOK /\ ChunkTypeOK => TypesOK
  BY DEF TypesOK
<1>3. AssessSpec => []AssessTypeOK
  BY SpecFundIsWeighed, PTL
<1> QED
  BY <1>1, <1>2, <1>3, AppHasParts, SpecTypeOK, RulesSpecTyped, SpecChunkTypeOK, PTL

(* The list of funds, a fund's page and the setup guide deny nothing that  *)
(* another of them says, whatever else goes on in the application.         *)
THEOREM AppScreensAgree == AppSpec => []ScreensAgree
<1>1. OnePicture /\ GuideIsTrue => ScreensAgree
  BY DEF ScreensAgree
<1> QED BY <1>1, AppHasParts, SpecFundIsWeighed, PTL

(* What is promised of each part holds of the whole.                       *)
THEOREM AppKeepsItsPromises ==
    AppSpec => /\ [](CheckedByAPerson /\ CitationsHold) /\ CorrectionStands
               /\ [](VerdictIsSure /\ HandRulesWork /\ ScreensAgree /\ NothingGoesUnread)
               /\ OutcomeIsWhole /\ AnswersOnlySettle
  BY AppHasParts, SpecCheckedByAPerson, SpecCorrectionStands, SpecCitationsHold,
     RulesSpecVerdictIsSure, RulesSpecHandRulesWork, AppScreensAgree, SpecNothingGoesUnread,
     SpecOutcomeIsWhole, RulesSpecAnswersOnlySettle, PTL
=============================================================================
