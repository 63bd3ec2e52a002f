------------------------------ MODULE Application ------------------------------
(***************************************************************************)
(* The parts an application for funding rests on: what is said of the fund *)
(* before anything is begun (Assessment), whether it is open to the        *)
(* organisation (Eligibility), the documents read for it (Chunking), the   *)
(* facts its answers cite (FactBase), and what became of it                *)
(* (ApplicationOutcome).  They write different tables and share no state,  *)
(* so `focus` picks one of them at the start and the others rest.          *)
(***************************************************************************)
EXTENDS FactBase, ApplicationOutcome, Eligibility, Assessment, Chunking

VARIABLE focus

appVars == <<focus, vars, outcomeVars, rulesVars, assessVars, chunkVars>>

AppInit ==
    /\ focus \in {"facts", "outcome", "rules", "fund", "document"}
    /\ Init /\ OutcomeInit /\ RulesInit /\ AssessInit /\ ChunkInit
    /\ focus # "rules" => topics = {"region"}

FactsStep ==
    focus = "facts" /\ Next
    /\ UNCHANGED <<focus, outcomeVars, rulesVars, assessVars, chunkVars>>
OutcomeStep ==
    focus = "outcome" /\ OutcomeNext
    /\ UNCHANGED <<focus, vars, rulesVars, assessVars, chunkVars>>
RulesStep ==
    focus = "rules" /\ RulesNext
    /\ UNCHANGED <<focus, vars, outcomeVars, assessVars, chunkVars>>
FundStep ==
    focus = "fund" /\ AssessNext
    /\ UNCHANGED <<focus, vars, outcomeVars, rulesVars, chunkVars>>
DocumentStep ==
    focus = "document" /\ ChunkNext
    /\ UNCHANGED <<focus, vars, outcomeVars, rulesVars, assessVars>>

AppNext == FactsStep \/ OutcomeStep \/ RulesStep \/ FundStep \/ DocumentStep

AppSpec == AppInit /\ [][AppNext]_appVars

-----------------------------------------------------------------------------
(* The five parts keep their types; two of them are looked at only while   *)
(* they move, to spare TLC the rest.                                       *)
TypesOK ==
    /\ TypeOK /\ OutcomeTypeOK /\ RulesTypeOK
    /\ focus = "fund" => AssessTypeOK
    /\ focus = "document" => ChunkTypeOK

(* The list of funds, a fund's page and the setup guide say nothing that   *)
(* another of them denies (src/db/queries.ts,                              *)
(* src/app/opportunities/[id]/page.tsx, src/domain/setup/progress.ts).     *)
ScreensAgree == focus = "fund" => OnePicture /\ GuideIsTrue
=============================================================================
