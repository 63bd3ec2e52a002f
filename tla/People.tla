-------------------------------- MODULE People --------------------------------
(***************************************************************************)
(* Who somebody is and what the operator has set: the console's accounts   *)
(* (Console) and its settings screen (OperatorKeys), customers and their   *)
(* organisations (Tenancy), customers' passwords (SignIn), and outsiders   *)
(* who hold a link to one application (ReviewLink).  They keep separate    *)
(* tables and share no state here, so `focus` picks one of them at the     *)
(* start and the others rest.                                              *)
(***************************************************************************)
EXTENDS Console, OperatorKeys

CONSTANTS
    People, Operator, Orgs, SandboxOrg, None, OwnerBypassesRLS, \* of Tenancy
    Addresses, Links, Doors,            \* of SignIn; Doors are its requests
    Shares, Readers, NoShare, Never, Lengths,                   \* of ReviewLink
    MaxComments, MaxClock, MaxViews

VARIABLES
    focus,
    users, orgs, joined, named, tSessions, tDesks, tDrawn, owed,
    sHash, sSessions, resets, inbox, sDesks, sDrawn, spent, typedLast, raced,
    clock, share, comments, trail, reading

T == INSTANCE Tenancy WITH
        sessions <- tSessions, desks <- tDesks, drawn <- tDrawn
S == INSTANCE SignIn WITH
        Desks <- Doors,
        hash <- sHash, sessions <- sSessions, desks <- sDesks, drawn <- sDrawn,
        chosen <- typedLast
R == INSTANCE ReviewLink WITH request <- reading

ASSUME OthersAssumption == T!NamesAssumption /\ S!NothingAssumption /\ R!LinkAssumption

tVars == <<users, orgs, joined, named, tSessions, tDesks, tDrawn, owed>>
sVars == <<sHash, sSessions, resets, inbox, sDesks, sDrawn, spent, typedLast, raced>>
rVars == <<clock, share, comments, trail, reading>>
allVars == <<focus, vars, tVars, sVars, rVars, keyVars>>

PeopleInit ==
    /\ focus \in {"console", "tenancy", "signin", "review", "keys"}
    /\ Init /\ T!Init /\ S!Init /\ R!Init /\ KeysInit
    /\ focus # "keys" => ~env.key /\ env.master = NoMaster

ConsoleStep == focus = "console" /\ Next /\ UNCHANGED <<focus, tVars, sVars, rVars, keyVars>>
TenancyStep == focus = "tenancy" /\ T!Next /\ UNCHANGED <<focus, vars, sVars, rVars, keyVars>>
SignInStep == focus = "signin" /\ S!Next /\ UNCHANGED <<focus, vars, tVars, rVars, keyVars>>
ReviewStep == focus = "review" /\ R!Next /\ UNCHANGED <<focus, vars, tVars, sVars, keyVars>>
KeysStep == focus = "keys" /\ KeysNext /\ UNCHANGED <<focus, vars, tVars, sVars, rVars>>

PeopleNext == ConsoleStep \/ TenancyStep \/ SignInStep \/ ReviewStep \/ KeysStep

PeopleSpec == PeopleInit /\ [][PeopleNext]_allVars

-----------------------------------------------------------------------------
(* The five parts keep their types. *)
TypesOK ==
    /\ TypeOK /\ T!TypeOK /\ S!TypeOK /\ R!TypeOK /\ KeysTypeOK

(* A session acts only as an organisation that exists and that is nobody    *)
(* else's (src/app/session.ts).                                             *)
SessionsAreTheirOwn == T!SessionsAreTheirOwn

(* An account is deleted only when its person belongs to no organisation    *)
(* (eraseOrphanedUsers in src/db/erasure.ts).                               *)
OnlyTheOrphanedGo == T!OnlyTheOrphanedGo

(* An erasure takes neither too little nor somebody else: whoever it leaves *)
(* without an organisation loses the account too, unless the request dies   *)
(* first, and nobody loses an account, or a membership of an organisation   *)
(* that stays, but by an erasure they asked for (src/db/erasure.ts,         *)
(* src/app/organisation/data-actions.ts).                                   *)
ErasureIsExact == []T!NoAccountLeftBehind /\ T!NobodyElseIsCutOff

(* Once a reset is stored no link of that account is left, in the table or  *)
(* in a request, and the password that opens it is the one its owner chose  *)
(* last, but for a sign-in caught between its check and its rewrite by the  *)
(* reset (src/db/password-reset.ts, src/app/(auth)/actions.ts).             *)
ResetsAreFinal == S!ResetsAreFinal

(* A link that was withdrawn or ran out opens nothing any more and leaves   *)
(* no more comments than the cap and the requests in progress, and a read   *)
(* a whole gap after every earlier one leaves a line in the trail           *)
(* (src/domain/review/share.ts, src/domain/review/comments.ts).             *)
LinkLimitsHold ==
    [](R!LateReaderIsRefused /\ R!CapIsNearlyHeld) /\ R!NoVisitUntrailed
===============================================================================
