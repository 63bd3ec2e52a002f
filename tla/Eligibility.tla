----------------------------- MODULE Eligibility -----------------------------
(***************************************************************************)
(* One fund an organisation added, the rules read or typed for it, what    *)
(* the organisation has said of itself and of its project, and the verdict *)
(* of the eligibility engine over the two (src/domain/eligibility,         *)
(* src/db/queries.ts, src/db/opportunities.ts, src/db/own-funds.ts,        *)
(* src/db/onboarding.ts).                                                  *)
(*                                                                         *)
(* Rules are proposed by a model reading guidance and decided on by a      *)
(* person, or typed by a person.  Every operation is one transaction whose *)
(* statements name the rule by its id and carry their own guards; forms    *)
(* may be sent from pages drawn at any earlier time.  The verdict is       *)
(* computed when a page is drawn and is stored nowhere.                    *)
(*                                                                         *)
(* Blank is NULL.  Ranges and durations are over one small scale of        *)
(* numbers; the seven legal forms that are not CICs differ only in being   *)
(* on a list or not, and two stand for all.                                *)
(***************************************************************************)
EXTENDS Integers, FiniteSets

CONSTANTS
    RuleIds,    \* ids of eligibility_criteria
    Guidance,   \* bound: the rules a model may read out of guidance
    Boxes,      \* bound: what may be filled in on the rule form
    MaxNumber,  \* bound: the largest amount, length or age
    Blank       \* NULL

CicForms == {"cic_limited_by_guarantee", "cic_limited_by_shares"}
LegalForms == CicForms \cup {"charity", "other"}
Nations == {"england", "scotland", "uk_wide"}
Places == {"Somerset", "Wells"}
Groups == {"young people", "older people"}
SpendKinds == {"capital", "revenue"}
Treatments ==
    {"explicitly_permitted", "charity_only", "asset_locked_only",
     "limited_by_guarantee_only", "no_share_capital_only",
     "permitted_with_conditions", "not_stated"}

Numbers == 0 .. MaxNumber
Ends == Numbers \cup {Blank}
Lists(items) == {Blank} \cup SUBSET items
RangedKinds == {"amount", "turnover", "duration"}

\* A kind with the parameters stored for it, as paramsForKind leaves them:
\* every key the kind uses, possibly NULL, and a list possibly empty.
Shapes ==
    [kind : {"legal_form"}, treatment : Treatments \cup {Blank}, list : Lists(LegalForms)]
      \cup [kind : {"jurisdiction"}, list : Lists(Nations)]
      \cup [kind : {"region"}, list : Lists(Places)]
      \cup [kind : {"beneficiary"}, list : Lists(Groups)]
      \cup [kind : {"capital_revenue"}, list : Lists(SpendKinds)]
      \cup [kind : RangedKinds, min : Ends, max : Ends]
      \cup [kind : {"organisation_age"}, min : Ends]
      \cup [kind : {"match_funding"}, required : BOOLEAN \cup {Blank}]

Kinds == {"legal_form", "jurisdiction", "region", "beneficiary", "capital_revenue",
          "organisation_age", "match_funding"} \cup RangedKinds

ASSUME ScaleAssumption == MaxNumber \in Nat
ASSUME ShapesAssumption == Guidance \subseteq Shapes /\ Boxes \subseteq Shapes
ASSUME BlankAssumption ==
    /\ Blank \notin Numbers /\ Blank \notin BOOLEAN
    /\ \A name \in LegalForms \cup Nations \cup Places \cup SpendKinds \cup Treatments \cup {"both"} :
         Blank # name
    /\ \A items \in {LegalForms, Nations, Places, Groups, SpendKinds} :
         \A list \in SUBSET items : Blank # list

VARIABLES
    rules,    \* the fund's rules, by id
    fund,     \* whether the fund is there
    org,      \* the organisation_profiles row
    project,  \* the projects row, or Blank
    topics    \* bound: the kinds of rule, and so the answers, this behaviour is about

rulesVars == <<rules, fund, org, project, topics>>

RuleRows == [rule : Shapes, by : {"ai_extraction", "user"},
             state : {"proposed", "verified", "rejected"}]
Profiles == [form : LegalForms \cup {Blank}, nation : Nations \cup {Blank},
             region : Places \cup {Blank}, age : Ends]
Projects == [amount : Ends, duration : Ends, groups : SUBSET Groups,
             spend : SpendKinds \cup {"both", Blank}]

ASSUME RowsAssumption == Blank \notin RuleRows /\ Blank \notin Projects

RulesInit ==
    /\ rules = [i \in RuleIds |-> Blank]
    /\ fund = FALSE
    /\ org = [form |-> Blank, nation |-> Blank, region |-> Blank, age |-> Blank]
    /\ project = Blank
    /\ topics \in {few \in SUBSET Kinds : Cardinality(few) \in 1 .. 2}

-----------------------------------------------------------------------------
(* Plausible wrong versions of the engine's parts and of the form's checks. *)

UnknownFails(answer, list) ==
    IF answer # Blank /\ answer \in list THEN "pass" ELSE "fail"
UnknownsPassOver(outcomes) ==
    IF "fail" \in outcomes THEN "ineligible"
    ELSE IF outcomes \subseteq {"unknown"} THEN "unknown" ELSE "eligible"
AnyRange(min, max) == min # Blank \/ max # Blank

-----------------------------------------------------------------------------
(* What is stored, read back.                                              *)

Stored(i) == rules[i] # Blank
InState(i, state) == Stored(i) /\ rules[i].state = state

\* mapCriterion: a row whose parameters do not fit its kind is not a rule.
Readable(r) ==
    CASE r.kind = "legal_form" -> r.treatment # Blank
      [] r.kind \in {"jurisdiction", "region", "beneficiary", "capital_revenue"} ->
           r.list # Blank /\ r.list # {}
      [] r.kind \in RangedKinds -> TRUE
      [] r.kind = "organisation_age" -> r.min # Blank
      [] r.kind = "match_funding" -> r.required # Blank

\* loadCriteria: verified, and readable; its callers look at nothing else.
InForce == {i \in RuleIds : InState(i, "verified") /\ Readable(rules[i].rule)}

Else(value, default) == IF value = Blank THEN default ELSE value

-----------------------------------------------------------------------------
(* The engine.                                                             *)

Decide(met) == IF met THEN "pass" ELSE "fail"
Within(min, n, max) == (min # Blank => min <= n) /\ (max # Blank => n <= max)

OneOf(answer, list) ==
    IF answer = Blank THEN "unknown" ELSE Decide(answer \in list)
InRange(answer, min, max) ==
    IF answer = Blank THEN "unknown" ELSE Decide(Within(min, answer, max))
Covers(list, nation) == "uk_wide" \in list \/ nation = "uk_wide" \/ nation \in list

\* evaluateLegalForm.
FormOutcome(r, form) ==
    IF form \notin CicForms
    THEN IF r.list = Blank \/ r.list = {} THEN "unknown" ELSE Decide(form \in r.list)
    ELSE CASE r.treatment \in {"explicitly_permitted", "asset_locked_only"} -> "pass"
           [] r.treatment = "charity_only" -> "fail"
           [] r.treatment \in {"limited_by_guarantee_only", "no_share_capital_only"} ->
                Decide(form = "cic_limited_by_guarantee")
           [] OTHER -> "unknown"

\* evaluateCriterion, over what loadOrganisation and loadProject make of the
\* rows: a form or a nation not recorded is read as "other" and "uk_wide",
\* spending on both is read as not recorded, and nothing records a turnover
\* or match funding.
Outcome(r) ==
    CASE r.kind = "legal_form" -> FormOutcome(r, Else(org.form, "other"))
      [] r.kind = "jurisdiction" -> Decide(Covers(r.list, Else(org.nation, "uk_wide")))
      [] r.kind = "region" -> OneOf(org.region, r.list)
      [] r.kind = "amount" -> InRange(project.amount, r.min, r.max)
      [] r.kind = "organisation_age" -> InRange(org.age, r.min, Blank)
      [] r.kind = "turnover" -> InRange(Blank, r.min, r.max)
      [] r.kind = "match_funding" -> IF r.required THEN "unknown" ELSE "pass"
      [] r.kind = "capital_revenue" ->
           OneOf(IF project.spend = "both" THEN Blank ELSE project.spend, r.list)
      [] r.kind = "beneficiary" ->
           IF project.groups = {} THEN "unknown" ELSE Decide(project.groups \cap r.list # {})
      [] r.kind = "duration" -> InRange(project.duration, r.min, r.max)

\* evaluateEligibility's rule of combination.
Combined(outcomes) ==
    IF "fail" \in outcomes THEN "ineligible"
    ELSE IF "unknown" \in outcomes \/ outcomes = {} THEN "unknown" ELSE "eligible"

\* Without a project nothing is assessed.
Verdict ==
    IF project = Blank THEN "none"
    ELSE Combined({Outcome(rules[i].rule) : i \in InForce})

-----------------------------------------------------------------------------
(* The rule form: readHandRule.                                            *)

\* At least one end, and in order.  Rounding to whole pounds keeps the order.
RangeAccepted(min, max) ==
    /\ min # Blank \/ max # Blank
    /\ min # Blank /\ max # Blank => min <= max

Accepted(box) ==
    CASE box.kind = "legal_form" -> box.treatment # Blank
      [] box.kind \in {"jurisdiction", "region", "beneficiary", "capital_revenue"} ->
           box.list \notin {Blank, {}}
      [] box.kind \in RangedKinds -> RangeAccepted(box.min, box.max)
      [] box.kind = "organisation_age" -> box.min # Blank
      [] box.kind = "match_funding" -> TRUE

\* The parameters built of an accepted form.
HandRule(box) ==
    CASE box.kind = "legal_form" -> [box EXCEPT !.list = Blank]
      [] box.kind = "jurisdiction" ->
           [box EXCEPT !.list = IF "uk_wide" \in @ THEN {"uk_wide"} ELSE @]
      [] box.kind = "match_funding" -> [box EXCEPT !.required = TRUE]
      [] OTHER -> box

-----------------------------------------------------------------------------
(* The fund and its rules.                                                 *)

About(r) == r.kind \in topics

\* createPastedOpportunity: the fund, and every rule the model proposed.
PasteFund ==
    /\ ~fund
    /\ fund' = TRUE
    /\ \E read \in [RuleIds -> {r \in Guidance : About(r)} \cup {Blank}] :
         rules' = [i \in RuleIds |->
                     IF read[i] = Blank THEN Blank
                     ELSE [rule |-> read[i], by |-> "ai_extraction", state |-> "proposed"]]
    /\ UNCHANGED <<org, project, topics>>

\* insertManualFund: a fund typed in proposes no rules.
TypeFund ==
    /\ ~fund
    /\ fund' = TRUE
    /\ UNCHANGED <<rules, org, project, topics>>

\* deletePastedOpportunity: its rules go with it.
RemoveFund ==
    /\ fund
    /\ fund' = FALSE
    /\ rules' = [i \in RuleIds |-> Blank]
    /\ UNCHANGED <<org, project, topics>>

\* verifyCriterion.
VerifyCriterion(i) ==
    /\ InState(i, "proposed")
    /\ rules' = [rules EXCEPT ![i].state = "verified"]
    /\ UNCHANGED <<fund, org, project, topics>>

\* rejectCriterion.
RejectCriterion(i) ==
    /\ InState(i, "proposed")
    /\ rules' = [rules EXCEPT ![i].state = "rejected"]
    /\ UNCHANGED <<fund, org, project, topics>>

\* addRuleAction: the form is read, and the rule stored as verified.
AddHandRule(i, box) ==
    /\ fund
    /\ ~Stored(i)
    /\ About(box)
    /\ Accepted(box)
    /\ rules' = [rules EXCEPT ![i] =
                   [rule |-> HandRule(box), by |-> "user", state |-> "verified"]]
    /\ UNCHANGED <<fund, org, project, topics>>

\* removeRule: what a person typed is deleted, what was read is set aside.
RemoveRule(i) ==
    /\ Stored(i)
    /\ \/ /\ rules[i].by = "user"
          /\ rules' = [rules EXCEPT ![i] = Blank]
       \/ /\ rules[i].by # "user"
          /\ rules[i].state = "verified"
          /\ rules' = [rules EXCEPT ![i].state = "rejected"]
    /\ UNCHANGED <<fund, org, project, topics>>

-----------------------------------------------------------------------------
(* What the organisation says.  Only the answers a behaviour is about vary. *)

Choice(kind, values, fixed) == IF kind \in topics THEN values ELSE {fixed}

\* saveSelfDeclaredProfile: form and nation are required, the rest may be blank.
SaveOwnProfile ==
    /\ \E form \in Choice("legal_form", LegalForms, "other"),
          nation \in Choice("jurisdiction", Nations, "england"),
          region \in Choice("region", Places \cup {Blank}, Blank),
          age \in Choice("organisation_age", Ends, Blank) :
         org' = [form |-> form, nation |-> nation, region |-> region, age |-> age]
    /\ UNCHANGED <<rules, fund, project, topics>>

\* saveRegisterProfile: a form or a nation the register does not state leaves
\* the old one, a region already given is kept, the date is replaced.
SaveRegisterProfile ==
    /\ \E form \in Choice("legal_form", LegalForms \cup {Blank}, "other"),
          nation \in Choice("jurisdiction", Nations \cup {Blank}, "england"),
          area \in Choice("region", Places \cup {Blank}, Blank),
          age \in Choice("organisation_age", Ends, Blank) :
         org' = [form |-> Else(form, org.form), nation |-> Else(nation, org.nation),
                 region |-> Else(org.region, area), age |-> age]
    /\ UNCHANGED <<rules, fund, project, topics>>

\* The organisation grows a month older.
MonthPasses ==
    /\ org.age \in Numbers
    /\ org.age < MaxNumber
    /\ org' = [org EXCEPT !.age = @ + 1]
    /\ UNCHANGED <<rules, fund, project, topics>>

\* saveProject: one project, replaced as a whole.  Sums and lengths are positive.
SaveProject ==
    /\ \E amount \in Choice("amount", Ends \ {0}, Blank),
          duration \in Choice("duration", Ends \ {0}, Blank),
          groups \in Choice("beneficiary", SUBSET Groups, {}),
          spend \in Choice("capital_revenue", SpendKinds \cup {"both", Blank}, Blank) :
         project' = [amount |-> amount, duration |-> duration,
                     groups |-> groups, spend |-> spend]
    /\ UNCHANGED <<rules, fund, org, topics>>

RulesNext ==
    \/ PasteFund \/ TypeFund \/ RemoveFund
    \/ \E i \in RuleIds : VerifyCriterion(i) \/ RejectCriterion(i) \/ RemoveRule(i)
    \/ \E i \in RuleIds, box \in Boxes : AddHandRule(i, box)
    \/ SaveOwnProfile \/ SaveRegisterProfile \/ MonthPasses \/ SaveProject

RulesSpec == RulesInit /\ [][RulesNext]_rulesVars

-----------------------------------------------------------------------------
(* What a rule says of an organisation whose every answer is known.        *)

\* The answers there are to what rules of a kind ask; said is what the funder
\* would answer if asked.
Everything(kind) ==
    CASE kind = "legal_form" -> LegalForms \X BOOLEAN
      [] kind = "jurisdiction" -> Nations
      [] kind = "region" -> Places
      [] kind \in RangedKinds \cup {"organisation_age"} -> Numbers
      [] kind = "match_funding" -> BOOLEAN
      [] kind = "capital_revenue" -> SpendKinds \cup {"both"}
      [] kind = "beneficiary" -> (SUBSET Groups) \ {{}}

\* Of these, the ones that the organisation's rows leave open.
Given(recorded, kind) == IF recorded = Blank THEN Everything(kind) ELSE {recorded}
Truths(kind) ==
    CASE kind = "legal_form" ->
           IF org.form = Blank THEN Everything(kind) ELSE {org.form} \X BOOLEAN
      [] kind = "jurisdiction" -> Given(org.nation, kind)
      [] kind = "region" -> Given(org.region, kind)
      [] kind = "amount" -> Given(project.amount, kind)
      [] kind = "duration" -> Given(project.duration, kind)
      [] kind = "organisation_age" -> Given(org.age, kind)
      [] kind = "capital_revenue" -> Given(project.spend, kind)
      [] kind = "beneficiary" ->
           IF project.groups = {} THEN Everything(kind) ELSE {project.groups}
      [] kind \in {"turnover", "match_funding"} -> Everything(kind)

\* The legal forms each treatment of CICs lets in without asking.
Admits ==
    [t \in Treatments |->
       CASE t \in {"explicitly_permitted", "asset_locked_only"} -> CicForms
         [] t \in {"limited_by_guarantee_only", "no_share_capital_only"} ->
              {"cic_limited_by_guarantee"}
         [] OTHER -> {}]
Asks(r, form) ==
    IF form \in CicForms THEN r.treatment \in {"permitted_with_conditions", "not_stated"}
    ELSE r.list \in {Blank, {}}

Meets(r, truth) ==
    CASE r.kind = "legal_form" ->
           IF Asks(r, truth[1]) THEN truth[2]
           ELSE truth[1] \in IF truth[1] \in CicForms THEN Admits[r.treatment] ELSE r.list
      [] r.kind = "jurisdiction" -> {"uk_wide", truth} \cap r.list # {} \/ truth = "uk_wide"
      [] r.kind = "region" -> truth \in r.list
      [] r.kind \in RangedKinds ->
           \A n \in Numbers : (n = r.min => truth >= n) /\ (n = r.max => truth <= n)
      [] r.kind = "organisation_age" -> truth >= r.min
      [] r.kind = "match_funding" -> truth \/ ~r.required
      [] r.kind = "capital_revenue" ->
           IF truth = "both" THEN SpendKinds \subseteq r.list ELSE truth \in r.list
      [] r.kind = "beneficiary" -> \E group \in truth : group \in r.list

-----------------------------------------------------------------------------
(* Properties.                                                             *)

RulesTypeOK ==
    /\ rules \in [RuleIds -> RuleRows \cup {Blank}]
    /\ fund \in BOOLEAN
    /\ org \in Profiles
    /\ project \in Projects \cup {Blank}
    /\ topics \subseteq Kinds

Holds(i) == \A truth \in Truths(rules[i].rule.kind) : Meets(rules[i].rule, truth)
Excludes(i) == \A truth \in Truths(rules[i].rule.kind) : ~Meets(rules[i].rule, truth)
KnownApplicant == org.form # Blank /\ org.nation # Blank

\* "unknown is a first-class outcome and is never coerced to pass or fail"
\* (src/domain/eligibility/engine.ts:12): whatever is proposed, accepted, typed
\* or withdrawn, an organisation whose form and nation are recorded is called
\* eligible only if it would meet every rule in force however its open
\* questions turn out, and ineligible only if one rule excludes it however
\* they do.
VerdictIsSure ==
    KnownApplicant =>
        /\ Verdict = "eligible" => InForce # {} /\ \A i \in InForce : Holds(i)
        /\ Verdict = "ineligible" => \E i \in InForce : Excludes(i)

\* A step that answers open questions and changes no answer already given.
Fills(old, new) == old # Blank => new = old
OnlyFills ==
    /\ \A column \in {"form", "nation", "region", "age"} : Fills(org[column], org'[column])
    /\ project # Blank =>
         /\ \A column \in {"amount", "duration", "spend"} :
              Fills(project[column], project'[column])
         /\ project.groups # {} => project'.groups = project.groups

\* Answering a question the product asks ("Turning an unknown into an action",
\* src/domain/eligibility/types.ts:21) never takes back a verdict: nobody who
\* was told yes or no is told otherwise because they filled in a blank.
AnswersOnlySettle ==
    [][KnownApplicant /\ rules' = rules /\ OnlyFills /\ Verdict \in {"eligible", "ineligible"}
         => Verdict' = Verdict]_rulesVars

\* "The result is stored in exactly the shape an extracted rule is"
\* (src/domain/eligibility/hand-rule.ts:19), by one module and read by another:
\* a typed rule is applied from the moment it is stored until it is removed,
\* and there is an organisation it lets in.
HandRulesWork ==
    \A i \in RuleIds : Stored(i) /\ rules[i].by = "user" =>
        /\ i \in InForce
        /\ \E truth \in Everything(rules[i].rule.kind) : Meets(rules[i].rule, truth)

-----------------------------------------------------------------------------
(* What a comment says that the code does not do.                          *)

\* "A profile without a legal form or a jurisdiction cannot answer an
\* eligibility question" (src/db/setup.ts:58), and unknown is never coerced:
\* each rule passes or fails only where every answer left open agrees.
UnknownIsNotCoerced ==
    project # Blank =>
        \A i \in InForce :
            /\ Outcome(rules[i].rule) = "pass" => Holds(i)
            /\ Outcome(rules[i].rule) = "fail" => Excludes(i)
=============================================================================
