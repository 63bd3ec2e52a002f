------------------------------ MODULE Catalogue ------------------------------
(***************************************************************************)
(* Funders and their funds: those of the platform, which everybody sees,   *)
(* and those an organisation added, which only it sees (src/db/catalogue.ts*)
(* src/db/own-funds.ts, src/db/opportunities.ts,                           *)
(* src/app/opportunities, src/app/admin/catalogue).                        *)
(*                                                                         *)
(* Adding a fund finds or makes its funder in one transaction, on the      *)
(* owner's connection, and stores the fund in the next, as the tenant; an  *)
(* edit reads the fund first, in a third.  Nothing locks what was found.   *)
(* What remains is up to the foreign keys: a fund goes with its funder and *)
(* both with their organisation, but a fund somebody applies to does not   *)
(* go at all (src/db/migrations/0001_init.sql:289).                        *)
(*                                                                         *)
(* A form may be sent from a page drawn before what it shows was removed,  *)
(* and the id of a funder that it carries is looked up, not trusted.       *)
(***************************************************************************)
EXTENDS Naturals, FiniteSets

CONSTANTS
    Orgs, Desks,
    Names,        \* what a funder may be called, in lower case
    Registered,   \* ids that come from 360Giving
    Typed,        \* ids drawn for a funder somebody names
    FundIds,
    Platform,     \* added_by_organisation_id IS NULL
    NoRow

VARIABLES
    orgs,      \* the organisations there are
    funders,
    funds,     \* opportunities
    applied,   \* applications: <<organisation, fund>>
    desk       \* what each request is doing

catalogueVars == <<orgs, funders, funds, applied, desk>>

FunderIds == Registered \cup Typed
Owners == Orgs \cup {Platform}
FunderRows == [name : Names, owner : Owners]
FundRows == [funder : FunderIds, owner : Owners]
DeskRows ==
    [at : {"idle", "naming", "storing", "renaming", "updating", "removing", "sharing"},
     who : Owners, fund : FundIds \cup {NoRow}, funder : FunderIds \cup {NoRow},
     name : Names \cup {NoRow}]

ASSUME CatalogueAssumption ==
    /\ Platform \notin Orgs
    /\ Registered \cap Typed = {}
    /\ NoRow \notin FunderIds \cup FundIds \cup Names
    /\ NoRow \notin FunderRows /\ NoRow \notin FundRows


(* What a request holds: for whom, of which fund, a funder found or a name *)
(* to make one of.                                                         *)
Held(at, who, fund, funder, name) ==
    [at |-> at, who |-> who, fund |-> fund, funder |-> funder, name |-> name]
AtRest == Held("idle", Platform, NoRow, NoRow, NoRow)

CatalogueInit ==
    /\ orgs = Orgs
    /\ funders = [f \in FunderIds |-> NoRow]
    /\ funds = [o \in FundIds |-> NoRow]
    /\ applied = {}
    /\ desk = [r \in Desks |-> AtRest]

Doing(r, stage) == desk[r].at = stage
Exists(who) == who = Platform \/ who \in orgs
FundsOf(f) == {o \in FundIds : funds[o] # NoRow /\ funds[o].funder = f}
AppsOn(taken) == {a \in applied : a[2] \in taken}

(* Ids are drawn once; no request in progress still holds an older one.    *)
NewFunder(f) == f \in Typed /\ funders[f] = NoRow /\ \A r \in Desks : desk[r].funder # f
NewFund(o) == funds[o] = NoRow /\ \A r \in Desks : desk[r].fund # o

-----------------------------------------------------------------------------
(* Finding a funder.                                                       *)

\* The bug of looking an id up for nobody in particular.
AnyFunder(f, who) == funders[f] # NoRow

\* Shared, or this owner's own; for the platform, `= NULL` is never true.
InReach(f, who) == funders[f] # NoRow /\ funders[f].owner \in {Platform, who}

(* By name: a shared row first, and any one of equals.                     *)
Namesakes(name, who) ==
    LET all == {f \in FunderIds : InReach(f, who) /\ funders[f].name = name}
        shared == {f \in all : funders[f].owner = Platform}
    IN  IF shared # {} THEN shared ELSE all

\* findFunderById, then ensureFunderNamed or ensureFunder: what is found.
Finds(picked, name, who, f) ==
    IF picked # NoRow /\ InReach(picked, who) THEN f = picked
    ELSE f \in Namesakes(name, who) \/ (Namesakes(name, who) = {} /\ f = NoRow)

-----------------------------------------------------------------------------
(* A fund somebody adds, by hand or from guidance a model read.            *)

AddOwnFund(r, who, name, picked) ==
    /\ Doing(r, "idle") /\ who \in orgs
    /\ \E f \in FunderIds \cup {NoRow} :
          /\ Finds(picked, name, who, f)
          /\ desk' = [desk EXCEPT ![r] =
                IF f = NoRow THEN Held("naming", who, NoRow, NoRow, name)
                ELSE Held("storing", who, NoRow, f, NoRow)]
    /\ UNCHANGED <<orgs, funders, funds, applied>>

\* The INSERT of a funder, refused when the organisation is gone.
MakeFunder(r) ==
    /\ Doing(r, "naming")
    /\ IF desk[r].who \in orgs
       THEN \E f \in Typed :
              /\ NewFunder(f)
              /\ funders' = [funders EXCEPT ![f] = [name |-> desk[r].name, owner |-> desk[r].who]]
              /\ desk' = [desk EXCEPT ![r] =
                    Held(IF @.fund = NoRow THEN "storing" ELSE "updating", @.who, @.fund, f, NoRow)]
       ELSE UNCHANGED funders /\ desk' = [desk EXCEPT ![r] = AtRest]
    /\ UNCHANGED <<orgs, funds, applied>>

\* insertManualFund, createPastedOpportunity.
StoreFund(r) ==
    /\ Doing(r, "storing")
    /\ IF Exists(desk[r].who) /\ funders[desk[r].funder] # NoRow
       THEN \E o \in FundIds :
              NewFund(o) /\ funds' = [funds EXCEPT ![o] =
                                        [funder |-> desk[r].funder, owner |-> desk[r].who]]
       ELSE UNCHANGED funds
    /\ desk' = [desk EXCEPT ![r] = AtRest]
    /\ UNCHANGED <<orgs, funders, applied>>

-----------------------------------------------------------------------------
(* An edit: read, find the funder if the name changed, write.              *)

LoadOwnFund(r, who, o, name) ==
    /\ Doing(r, "idle") /\ who \in orgs
    /\ funds[o] # NoRow /\ funds[o].owner = who
    /\ LET f == funds[o].funder IN
       desk' = [desk EXCEPT ![r] =
                  IF funders[f].name = name
                  THEN Held("updating", who, o, f, NoRow)
                  ELSE Held("renaming", who, o, NoRow, name)]
    /\ UNCHANGED <<orgs, funders, funds, applied>>

FindRenamed(r) ==
    /\ Doing(r, "renaming")
    /\ \E f \in FunderIds \cup {NoRow} :
          /\ Finds(NoRow, desk[r].name, desk[r].who, f)
          /\ desk' = [desk EXCEPT ![r] =
                IF f = NoRow THEN Held("naming", @.who, @.fund, NoRow, @.name)
                ELSE Held("updating", @.who, @.fund, f, NoRow)]
    /\ UNCHANGED <<orgs, funders, funds, applied>>

\* updateOwnFund: its own row or none; a funder that is gone is refused.
UpdateOwnFund(r) ==
    /\ Doing(r, "updating")
    /\ LET o == desk[r].fund IN
       IF funds[o] # NoRow /\ funds[o].owner = desk[r].who /\ funders[desk[r].funder] # NoRow
       THEN funds' = [funds EXCEPT ![o].funder = desk[r].funder]
       ELSE UNCHANGED funds
    /\ desk' = [desk EXCEPT ![r] = AtRest]
    /\ UNCHANGED <<orgs, funders, applied>>

-----------------------------------------------------------------------------
(* Taking a fund off the list: the tick is asked for when there is an      *)
(* application, whose fund it is only in the DELETE, which fails while     *)
(* anybody applies to it.                                                  *)

DeleteOpportunity(r, who, o, ticked) ==
    /\ Doing(r, "idle") /\ who \in orgs
    /\ <<who, o>> \in applied => ticked
    /\ desk' = [desk EXCEPT ![r] = Held("removing", who, o, NoRow, NoRow)]
    /\ UNCHANGED <<orgs, funders, funds, applied>>

\* The bug of letting the application go with the fund unasked.
TakesWork(taken) == TRUE
\* REFERENCES opportunities(id), with no ON DELETE.
MayGo(taken) == AppsOn(taken) = {}

FundsLess(taken) == [o \in FundIds |-> IF o \in taken THEN NoRow ELSE funds[o]]

DeletePastedOpportunity(r) ==
    /\ Doing(r, "removing")
    /\ LET o == desk[r].fund IN
       IF funds[o] # NoRow /\ funds[o].owner = desk[r].who /\ MayGo({o})
       THEN funds' = FundsLess({o}) /\ applied' = applied \ AppsOn({o})
       ELSE UNCHANGED <<funds, applied>>
    /\ desk' = [desk EXCEPT ![r] = AtRest]
    /\ UNCHANGED <<orgs, funders>>

\* startApplication: the row of the fund is asked for by the foreign key, and
\* nothing else of it.
ApplyFor(who, o) ==
    /\ who \in orgs /\ funds[o] # NoRow
    /\ <<who, o>> \notin applied
    /\ applied' = applied \cup {<<who, o>>}
    /\ UNCHANGED <<orgs, funders, funds, desk>>

-----------------------------------------------------------------------------
(* The operator, on the connection no policy holds for.                    *)

AddSharedFund(r, name) ==
    /\ Doing(r, "idle")
    /\ \E f \in FunderIds \cup {NoRow} :
          /\ Finds(NoRow, name, Platform, f)
          /\ desk' = [desk EXCEPT ![r] =
                IF f = NoRow THEN Held("sharing", Platform, NoRow, NoRow, name)
                ELSE Held("storing", Platform, NoRow, f, NoRow)]
    /\ UNCHANGED <<orgs, funders, funds, applied>>

\* A funder that had to be made and its fund are one transaction here.
StoreBoth(r) ==
    /\ Doing(r, "sharing")
    /\ \E f \in Typed, o \in FundIds :
          /\ NewFunder(f) /\ NewFund(o)
          /\ funders' = [funders EXCEPT ![f] = [name |-> desk[r].name, owner |-> Platform]]
          /\ funds' = [funds EXCEPT ![o] = [funder |-> f, owner |-> Platform]]
    /\ desk' = [desk EXCEPT ![r] = AtRest]
    /\ UNCHANGED <<orgs, applied>>

DeleteSharedFund(o) ==
    /\ funds[o] # NoRow /\ funds[o].owner = Platform /\ MayGo({o})
    /\ funds' = FundsLess({o}) /\ applied' = applied \ AppsOn({o})
    /\ UNCHANGED <<orgs, funders, desk>>

\* deleteFunder, of one the console lists: its funds go with it, whoever
\* added them.
DeleteFunder(f) ==
    /\ funders[f] # NoRow /\ funders[f].owner = Platform /\ MayGo(FundsOf(f))
    /\ funders' = [funders EXCEPT ![f] = NoRow]
    /\ funds' = FundsLess(FundsOf(f)) /\ applied' = applied \ AppsOn(FundsOf(f))
    /\ UNCHANGED <<orgs, desk>>

\* upsertFunder: found by its id, whatever the names of others.
UpsertFunder(f, name) ==
    /\ f \in Registered
    /\ funders' = [funders EXCEPT ![f] = [name |-> name, owner |-> Platform]]
    /\ UNCHANGED <<orgs, funds, applied, desk>>

-----------------------------------------------------------------------------
(* eraseOrganisation: what the organisation added goes with it; the        *)
(* applications are looked at once everything has gone.                    *)
Erase(who) ==
    LET made == {f \in FunderIds : funders[f] # NoRow /\ funders[f].owner = who}
        gone == {o \in FundIds : funds[o] # NoRow /\ (funds[o].owner = who \/ funds[o].funder \in made)}
        left == {a \in applied : a[1] # who}
    IN  /\ who \in orgs
        /\ ~\E a \in left : a[2] \in gone
        /\ orgs' = orgs \ {who}
        /\ funders' = [f \in FunderIds |-> IF f \in made THEN NoRow ELSE funders[f]]
        /\ funds' = FundsLess(gone) /\ applied' = left
        /\ UNCHANGED desk

\* The platform may stop a request between two statements.
Dies(r) ==
    /\ ~Doing(r, "idle")
    /\ desk' = [desk EXCEPT ![r] = AtRest]
    /\ UNCHANGED <<orgs, funders, funds, applied>>

CatalogueNext ==
    \/ \E r \in Desks, who \in Orgs, name \in Names, f \in FunderIds \cup {NoRow} :
          AddOwnFund(r, who, name, f)
    \/ \E r \in Desks, who \in Orgs, o \in FundIds, name \in Names : LoadOwnFund(r, who, o, name)
    \/ \E r \in Desks, who \in Orgs, o \in FundIds, t \in BOOLEAN : DeleteOpportunity(r, who, o, t)
    \/ \E r \in Desks, name \in Names : AddSharedFund(r, name)
    \/ \E r \in Desks :
          \/ MakeFunder(r) \/ StoreFund(r) \/ FindRenamed(r) \/ UpdateOwnFund(r)
          \/ DeletePastedOpportunity(r) \/ StoreBoth(r) \/ Dies(r)
    \/ \E who \in Orgs, o \in FundIds : ApplyFor(who, o)
    \/ \E o \in FundIds : DeleteSharedFund(o)
    \/ \E f \in FunderIds : DeleteFunder(f) \/ \E name \in Names : UpsertFunder(f, name)
    \/ \E who \in Orgs : Erase(who)

CatalogueSpec == CatalogueInit /\ [][CatalogueNext]_catalogueVars

-----------------------------------------------------------------------------
CatalogueTypeOK ==
    /\ orgs \subseteq Orgs
    /\ funders \in [FunderIds -> FunderRows \cup {NoRow}]
    /\ funds \in [FundIds -> FundRows \cup {NoRow}]
    /\ applied \subseteq Orgs \X FundIds
    /\ desk \in [Desks -> DeskRows]

(* Whoever sees a fund sees its funder, an application has its fund, and   *)
(* nothing is left of an organisation that is gone.                        *)
NothingCrosses ==
    /\ \A o \in FundIds : funds[o] # NoRow =>
          LET f == funders[funds[o].funder] IN
          Exists(funds[o].owner) /\ f # NoRow /\ f.owner \in {Platform, funds[o].owner}
    /\ \A f \in FunderIds : funders[f] # NoRow => Exists(funders[f].owner)
    /\ \A a \in applied : a[1] \in orgs /\ funds[a[2]] # NoRow

(* An application goes only with its organisation, whatever is removed.    *)
WorkIsKept == [][\A a \in applied \ applied' : a[1] \notin orgs']_catalogueVars

(* A fund an organisation added leaves its list by its own hand, with the  *)
(* organisation, or with the funder it hangs on, and never for another     *)
(* organisation's doing.                                                   *)
OnlyTheirs ==
    [][\A o \in FundIds : funds[o] # NoRow /\ funds'[o] = NoRow /\ funds[o].owner # Platform =>
          \/ funds[o].owner \notin orgs'
          \/ funders'[funds[o].funder] = NoRow
          \/ \E r \in Desks : /\ Doing(r, "removing") /\ desk'[r] = AtRest
                              /\ desk[r].fund = o /\ desk[r].who = funds[o].owner
      ]_catalogueVars

(* Nobody's fund hangs on a funder that another organisation added; an      *)
(* application keeps its fund, and goes only with its organisation; and     *)
(* what an organisation added leaves its list by its own hand, or with its  *)
(* funder                                                                   *)
(* (src/db/catalogue.ts, src/db/opportunities.ts, src/db/erasure.ts).       *)
FundsAreKept == []NothingCrosses /\ WorkIsKept /\ OnlyTheirs

(* "The application goes with the fund (it cascades)"                      *)
(* (app/opportunities/add/actions.ts): once the box is ticked, both go.    *)
RemovalTakesTheApplication ==
    [][\A r \in Desks : DeletePastedOpportunity(r) => funds'[desk[r].fund] = NoRow
      ]_catalogueVars

(* "Remove a funder and, by cascade, everything ingested for them"         *)
(* (db/awards.ts): what an organisation typed in was not ingested.         *)
RemovalTakesOnlyIngested ==
    [][\A o \in FundIds : funds[o] # NoRow /\ funds'[o] = NoRow /\ funds[o].owner \in orgs' =>
          funders'[funds[o].funder] # NoRow]_catalogueVars
=============================================================================
