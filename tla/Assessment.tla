----------------------------- MODULE Assessment ------------------------------
(***************************************************************************)
(* What the product says of a fund, and of how far a person has got.  The  *)
(* same rows are read by three screens that compute for themselves: the    *)
(* list of funds on the home page (assessAll), a fund's own page, and the  *)
(* setup guide.  The state is what they read; a person and the operator    *)
(* change it in any order, and what was told once may be taken back.       *)
(*                                                                         *)
(* Hours are kept in 2800ths while they are added and in halves once       *)
(* rounded; both are exact.                                                *)
(***************************************************************************)
EXTENDS Giving

CONSTANTS
    WorkClaims,     \* the claims that answer a question about the work
    AnsweredBy,     \* question -> the claims any of which answers it
    MaxOthers,      \* bound: confirmed facts about anything else
    Funds,          \* the funds there are
    SharedFunds,    \* those of the catalogue everybody sees
    Forms,          \* fund -> the features of its form, or Unseen
    Gave,           \* fund -> the amounts its funder has published
    SumsSought,     \* the sums a project may ask for
    Judgements,     \* the sets of outcomes a fund's rules may come to
    Unseen, NoProject, NoSum

WorkQuestions == DOMAIN AnsweredBy

\* The features of a form that cost time.
Sheets == [words : Nat, questions : Nat, papers : Nat, match : BOOLEAN, template : BOOLEAN]

ASSUME AssessmentAssumption ==
    /\ \A q \in WorkQuestions : AnsweredBy[q] \subseteq WorkClaims
    /\ SharedFunds \subseteq Funds
    /\ \A f \in Funds \ SharedFunds : Forms[f] = Unseen
    /\ \A f \in Funds : Forms[f] = Unseen \/ Forms[f] \in Sheets
    /\ IsFiniteSet(WorkClaims) /\ MaxOthers \in Nat /\ SumsSought \subseteq Nat
    /\ {} \in Judgements /\ Judgements \subseteq SUBSET {"pass", "unknown", "fail"}
    /\ NoSum # NoProject /\ \A x \in {NoSum, NoProject, Unseen} : x \notin Nat

VARIABLES
    fact,           \* claim -> "absent", "pending" or "confirmed"
    others,         \* confirmed facts about anything else
    waiting,        \* is a fact about anything else proposed?
    key,            \* the operator's Anthropic key: "none", "working", "failing"
    profile,        \* "none", "partial" (no form or no nation) or "whole"
    ask,            \* NoProject, or the project's sum, NoSum where it has none
    own,            \* the funds this organisation added
    applied,        \* the funds it has an application for
    judged          \* what the rules of the funds come to: a set of outcomes

assessVars == <<fact, others, waiting, key, profile, ask, own, applied, judged>>

Visible == SharedFunds \cup own

AssessInit ==
    /\ fact = [c \in WorkClaims |-> "absent"]
    /\ others = 0
    /\ waiting = FALSE
    /\ key = "none"
    /\ profile = "none"
    /\ ask = NoProject
    /\ own = {}
    /\ applied = {}
    /\ judged = {}

-----------------------------------------------------------------------------
(* What is known: the fact base and the Writer.                            *)

AnsweredIn(state) == {q \in WorkQuestions : \E c \in AnsweredBy[q] : fact[c] = state}
UnansweredAboutTheWork == WorkQuestions \ AnsweredIn("confirmed")
UsableFacts == others + Cardinality({c \in WorkClaims : fact[c] = "confirmed"})
WriterAvailable == key = "working"

FactsNeeded == 5

UnassistedReason ==
    IF ~WriterAvailable THEN "writer_unavailable"
    ELSE IF UnansweredAboutTheWork # {} THEN "nothing_about_the_work"
    ELSE IF UsableFacts < FactsNeeded THEN "too_few_facts"
    ELSE "none"
DraftingMode == IF UnassistedReason = "none" THEN "assisted" ELSE "unassisted"

-----------------------------------------------------------------------------
(* What an application would cost.                                         *)

\* The bug of charging the checking of a draft like writing it.
RatesSwapped(form, mode) ==
    2800 + form.words * (IF mode = "assisted" THEN 14 ELSE 4) + 700 * form.questions
         + 1400 * form.papers + (IF form.match THEN 5600 ELSE 0)
         + (IF form.template THEN 4200 ELSE 0)

(* Reading the guidance, then the words at 200 or 700 an hour, a quarter   *)
(* of an hour a question, half an hour for each attachment, policy and set *)
(* of accounts, two for match funding, one and a half for a template.      *)
CostOf(form, mode) ==
    2800 + form.words * (IF mode = "assisted" THEN 4 ELSE 14) + 700 * form.questions
         + 1400 * form.papers + (IF form.match THEN 5600 ELSE 0)
         + (IF form.template THEN 4200 ELSE 0)

EmptyForm == [words |-> 0, questions |-> 0, papers |-> 0, match |-> FALSE, template |-> FALSE]
FormOf(f) == IF Forms[f] = Unseen THEN EmptyForm ELSE Forms[f]
HalfHours(f, mode) == (CostOf(FormOf(f), mode) + 700) \div 1400

Ranks == <<"strong", "worth_considering", "conditional", "not_recommended">>
Rank(r) == CHOOSE i \in DOMAIN Ranks : Ranks[i] = r

(* Eligibility first, then pounds for an hour of work.                     *)
Recommend(verdict, sum, halves) ==
    CASE verdict = "ineligible" -> "not_recommended"
      [] verdict = "unknown" -> "conditional"
      [] verdict = "eligible" /\ sum = NoSum -> "conditional"
      [] OTHER -> IF 2 * sum >= 2000 * halves THEN "strong"
                  ELSE IF 2 * sum >= 800 * halves THEN "worth_considering"
                  ELSE IF 2 * sum >= 350 * halves THEN "conditional"
                  ELSE "not_recommended"

-----------------------------------------------------------------------------
(* One fund, assessed.                                                     *)

FundVerdict ==
    IF "fail" \in judged THEN "ineligible"
    ELSE IF "unknown" \in judged \/ judged = {} THEN "unknown"
    ELSE "eligible"

Headline ==
    IF "fail" \in judged THEN "not_eligible"
    ELSE IF "unknown" \in judged THEN "open_questions"
    ELSE IF judged = {} THEN "nothing_published"
    ELSE "meets_all"

\* The bug of weighing a form nobody has seen.
Flattering(f, mode) ==
    [verdict |-> FundVerdict, headline |-> Headline, halves |-> HalfHours(f, mode),
     recommendation |-> Recommend(FundVerdict, ask, HalfHours(f, mode)),
     size |-> IF ask # NoSum /\ CanCharacterise(Gave[f])
              THEN AskAgainst(ask, Spread(Gave[f])) ELSE "unsaid"]

AssessOpportunity(f, mode) ==
    LET seen == Forms[f] # Unseen
    IN  [verdict |-> FundVerdict, headline |-> Headline,
         halves |-> IF seen THEN HalfHours(f, mode) ELSE Unseen,
         recommendation |->
            IF seen \/ FundVerdict = "ineligible"
            THEN Recommend(FundVerdict, ask, HalfHours(f, mode)) ELSE "conditional",
         size |-> IF ask # NoSum /\ CanCharacterise(Gave[f])
                  THEN AskAgainst(ask, Spread(Gave[f])) ELSE "unsaid"]

\* Funds are weighed for an organisation with a project; a profile only half
\* filled in is read with defaults.
Weighed == IF profile = "none" \/ ask = NoProject THEN {} ELSE Visible

(* assessAll says nothing of how the answers will be written.              *)
ListCard(f) == AssessOpportunity(f, "unassisted")
FundPage(f) == AssessOpportunity(f, DraftingMode)

(* The rest of the fund's page.                                            *)
OffersEnquiry(f) == "unknown" \in judged
AsksForRules(f) == f \in own /\ judged = {}
StartButton(f) ==
    IF f \in applied THEN "open" ELSE IF FundVerdict = "ineligible" THEN "secondary" ELSE "primary"

-----------------------------------------------------------------------------
(* The setup guide, derived afresh at each reading.                        *)

StillToAsk == UnansweredAboutTheWork \ AnsweredIn("pending")

SetupStep(id, done, href, blocked) == [id |-> id, done |-> done, href |-> href, blocked |-> ~done /\ blocked]

AnythingPending == waiting \/ \E c \in WorkClaims : fact[c] = "pending"

WorkHref ==
    IF UnansweredAboutTheWork # {} /\ StillToAsk = {} THEN "/organisation"
    ELSE IF StillToAsk # {} THEN "/onboarding#work"
    ELSE IF AnythingPending THEN "/organisation"
    ELSE "/organisation#add-fact"

\* The step as it once was: the count alone.
CountsOnly == UsableFacts >= FactsNeeded

WorkDone == UnansweredAboutTheWork = {} /\ UsableFacts >= FactsNeeded

SetupSteps ==
    <<SetupStep("organisation", profile = "whole", "/onboarding", FALSE),
      SetupStep("facts", WorkDone, WorkHref, FALSE),
      SetupStep("project", ask # NoProject, "/onboarding#project", FALSE),
      SetupStep("opportunity", own # {}, "/funders", FALSE),
      SetupStep("application", applied # {}, "/", own = {})>>

Undone == {i \in DOMAIN SetupSteps : ~SetupSteps[i].done}
NextStep == IF Undone = {} THEN NoSum ELSE SetupSteps[CHOOSE i \in Undone : \A j \in Undone : i <= j]

-----------------------------------------------------------------------------
(* The steps.                                                              *)

Propose(c) ==
    /\ fact[c] = "absent"
    /\ fact' = [fact EXCEPT ![c] = "pending"]
    /\ UNCHANGED <<others, waiting, key, profile, ask, own, applied, judged>>

\* A proposal confirmed, or an answer typed.
Confirm(c) ==
    /\ fact[c] # "confirmed"
    /\ fact' = [fact EXCEPT ![c] = "confirmed"]
    /\ UNCHANGED <<others, waiting, key, profile, ask, own, applied, judged>>

\* Its document is removed, and what was read from it goes too, unless a
\* person has confirmed it.
TakeBack(c) ==
    /\ fact[c] = "pending"
    /\ fact' = [fact EXCEPT ![c] = "absent"]
    /\ UNCHANGED <<others, waiting, key, profile, ask, own, applied, judged>>

\* The page is read again: the row that held it says something else of this
\* claim, which nobody has confirmed, or is given another claim.
Reread(c) ==
    /\ fact[c] # "absent"
    /\ \E state \in {"absent", "pending"} : fact' = [fact EXCEPT ![c] = state]
    /\ UNCHANGED <<others, waiting, key, profile, ask, own, applied, judged>>

OtherFacts ==
    /\ \/ /\ others' \in {n \in 0 .. MaxOthers : n = others + 1 \/ n = others - 1}
          /\ waiting' \in BOOLEAN
       \/ others' = others /\ waiting' = ~waiting
    /\ UNCHANGED <<fact, key, profile, ask, own, applied, judged>>

ChangeKey ==
    /\ key' \in {"none", "working", "failing"} \ {key}
    /\ UNCHANGED <<fact, others, waiting, profile, ask, own, applied, judged>>

SaveProfile ==
    /\ profile # "whole"
    /\ profile' = "whole"
    /\ UNCHANGED <<fact, others, waiting, key, ask, own, applied, judged>>

\* A project saved first leaves a profile of defaults behind it.
NameProject(sum) ==
    /\ ask # sum
    /\ ask' = sum
    /\ profile' = IF profile = "none" THEN "partial" ELSE profile
    /\ UNCHANGED <<fact, others, waiting, key, own, applied, judged>>

AddFund(f) ==
    /\ f \notin Visible
    /\ own' = own \cup {f}
    /\ UNCHANGED <<fact, others, waiting, key, profile, ask, applied, judged>>

(* A fund with an application stays: without the tick the action refuses,  *)
(* and with it the DELETE does, under the application's foreign key.       *)
DeleteOpportunity(f) ==
    /\ f \in own \ applied
    /\ own' = own \ {f}
    /\ UNCHANGED <<fact, others, waiting, key, profile, ask, applied, judged>>

StartApplication(f) ==
    /\ f \in Visible \ applied
    /\ applied' = applied \cup {f}
    /\ UNCHANGED <<fact, others, waiting, key, profile, ask, own, judged>>

Judge(outcomes) ==
    /\ judged # outcomes
    /\ judged' = outcomes
    /\ UNCHANGED <<fact, others, waiting, key, profile, ask, own, applied>>

AssessNext ==
    \/ \E c \in WorkClaims : Propose(c) \/ Confirm(c) \/ TakeBack(c) \/ Reread(c)
    \/ OtherFacts \/ ChangeKey \/ SaveProfile
    \/ \E sum \in SumsSought \cup {NoSum} : NameProject(sum)
    \/ \E f \in Funds : AddFund(f) \/ StartApplication(f) \/ DeleteOpportunity(f)
    \/ \E outcomes \in Judgements : Judge(outcomes)

AssessSpec == AssessInit /\ [][AssessNext]_assessVars

-----------------------------------------------------------------------------
(* The state keeps its shape. *)
AssessTypeOK ==
    /\ fact \in [WorkClaims -> {"absent", "pending", "confirmed"}]
    /\ others \in 0 .. MaxOthers /\ waiting \in BOOLEAN
    /\ key \in {"none", "working", "failing"}
    /\ profile \in {"none", "partial", "whole"}
    /\ ask \in SumsSought \cup {NoProject, NoSum}
    /\ own \subseteq Funds /\ applied \subseteq Funds
    /\ judged \in Judgements

(* The list and the fund's page draw one picture of a fund.  They agree on *)
(* whether it is open, on the size of the ask and on whether anybody has   *)
(* seen its form; the page never asks for more hours than the list, and a  *)
(* recommendation differs only where the Writer would really draft, and    *)
(* then in the fund's favour.  Nothing is called a strong use of time      *)
(* unless every rule is met, a sum is known and the form has been seen.    *)
OnePicture ==
    \A f \in Weighed :
        LET list == ListCard(f)
            page == FundPage(f)
        IN  /\ list.verdict = page.verdict /\ list.headline = page.headline
            /\ list.size = page.size
            /\ (list.halves = Unseen <=> page.halves = Unseen)
            /\ page.halves # Unseen => page.halves <= list.halves
            /\ Rank(page.recommendation) <= Rank(list.recommendation)
            /\ page.recommendation # list.recommendation => UnassistedReason = "none"
            /\ \A card \in {list, page} :
                  /\ card.recommendation = "strong" =>
                        judged = {"pass"} /\ ask # NoSum /\ Forms[f] # Unseen
                  /\ card.headline = "not_eligible" => card.recommendation = "not_recommended"
                  /\ card.recommendation = "not_recommended" /\ Forms[f] = Unseen =>
                        card.headline = "not_eligible"
                  /\ card.headline = "open_questions" => OffersEnquiry(f)

(* The guide tells the truth: what it puts next can be done now; a person  *)
(* is asked about the work only where nothing at all is held, and never    *)
(* while there is something to ask is sent elsewhere; and where the Writer *)
(* would run, the step is done exactly when every price on the page of a   *)
(* fund is a price for checking a draft.                                   *)
GuideIsTrue ==
    /\ NextStep # NoSum => ~NextStep.blocked
    /\ WorkHref = "/onboarding#work" <=>
          \E q \in WorkQuestions : \A c \in AnsweredBy[q] : fact[c] = "absent"
    /\ WorkHref = "/organisation" => AnythingPending
    /\ WriterAvailable => (WorkDone <=> DraftingMode = "assisted")

(* "Shared by every surface that prices effort, because the tracker, the   *)
(* calendar export and the opportunity assessment disagreeing about how    *)
(* fast the work goes would be worse than any single one of them being     *)
(* wrong."  The list does not share it: it prices every fund unassisted.   *)
SamePriceEverywhere ==
    \A f \in Weighed : ListCard(f).halves = FundPage(f).halves
=============================================================================
