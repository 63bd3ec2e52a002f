------------------------------- MODULE Workbench -------------------------------
(***************************************************************************)
(* What an organisation works with between finding a funder and sending    *)
(* the form: the search of past awards (GrantSearch), starting and         *)
(* reviewing an application (Drafting), the measure of how ready it is     *)
(* (Readiness), the tracker that says how urgent it is (Tracker), and the  *)
(* list of funds they all hang on (Catalogue).  They share no state here,  *)
(* so `focus` picks one of them at the start and the others rest.          *)
(***************************************************************************)
EXTENDS GrantSearch, Drafting, Readiness, Tracker, Catalogue

VARIABLE focus

benchVars == <<focus, searchVars, draftVars, readyVars, trackVars, catalogueVars>>

BenchInit ==
    /\ focus \in {"search", "draft", "ready", "track", "funds"}
    /\ SearchInit /\ DraftInit /\ ReadyInit /\ TrackInit /\ CatalogueInit
    /\ focus # "search" => held = {} /\ asked.words = {}
    /\ focus # "ready" => requested = NoSum
    /\ focus # "track" => means = Everything

SearchStep ==
    focus = "search" /\ SearchNext
    /\ UNCHANGED <<focus, draftVars, readyVars, trackVars, catalogueVars>>
DraftStep ==
    focus = "draft" /\ DraftNext
    /\ UNCHANGED <<focus, searchVars, readyVars, trackVars, catalogueVars>>
ReadyStep ==
    focus = "ready" /\ ReadyNext
    /\ UNCHANGED <<focus, searchVars, draftVars, trackVars, catalogueVars>>
TrackStep ==
    focus = "track" /\ TrackNext
    /\ UNCHANGED <<focus, searchVars, draftVars, readyVars, catalogueVars>>
FundStep ==
    focus = "funds" /\ CatalogueNext
    /\ UNCHANGED <<focus, searchVars, draftVars, readyVars, trackVars>>

BenchNext == SearchStep \/ DraftStep \/ ReadyStep \/ TrackStep \/ FundStep

BenchSpec == BenchInit /\ [][BenchNext]_benchVars

-----------------------------------------------------------------------------
(* The five parts keep their types. *)
TypesOK == SearchTypeOK /\ DraftTypeOK /\ ReadyTypeOK /\ TrackTypeOK /\ CatalogueTypeOK
=============================================================================
