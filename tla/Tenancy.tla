------------------------------- MODULE Tenancy -------------------------------
(***************************************************************************)
(* People, their organisations and the sessions that act as them:          *)
(* sign-up, sign-in, onboarding, the operator's sandbox and erasure        *)
(* (src/app/session.ts, src/app/(auth)/actions.ts, src/db/onboarding.ts,   *)
(* src/app/organisation/data-actions.ts, src/db/erasure.ts,                *)
(* src/app/admin/sandbox/actions.ts).                                      *)
(*                                                                         *)
(* Every one of these is several transactions in a row, on two different   *)
(* connections that never nest: a request is a desk, and its record says   *)
(* what it has read and done so far.  Desks interleave between             *)
(* transactions and may stop between any two.  Passwords are the business  *)
(* of module SignIn.                                                       *)
(***************************************************************************)
EXTENDS FiniteSets, SequencesExt

CONSTANTS
    People,      \* accounts that can be signed up (a user id is drawn once)
    Operator,    \* the user id of the admin's sandbox, sbxu_<admin>
    Orgs,        \* organisation ids that onboarding can mint
    SandboxOrg,  \* the organisation id of the sandbox, sbxo_<admin>
    Tokens,      \* session tokens
    Desks,       \* requests in progress at one moment
    None,        \* organisation_id IS NULL
    OwnerBypassesRLS  \* does the connecting role see memberships without a tenant?
                      \* "not on a managed host" (src/db/onboarding.ts:33-39)

NamesAssumption ==
    /\ Operator \notin People
    /\ SandboxOrg \notin Orgs
    /\ None \notin Orgs \cup {SandboxOrg}
    /\ OwnerBypassesRLS \in BOOLEAN

VARIABLES
    users,     \* rows of users
    orgs,      \* rows of organisations
    joined,    \* per person: the organisations of their memberships, oldest first
    named,     \* pairs: a row of the organisation that names the person (confirmed_by...)
    sessions,  \* rows of sessions
    desks,     \* what each request holds between its transactions
    \* History:
    drawn,     \* user ids, organisation ids and tokens already drawn
    owed       \* people a running erasure took out of their organisation and has
               \* not yet dealt with

vars == <<users, orgs, joined, named, sessions, desks, drawn, owed>>

Everybody == People \cup {Operator}
AllOrgs == Orgs \cup {SandboxOrg}
Sessions == [token : Tokens, who : Everybody, org : AllOrgs \cup {None}]
Idle == [at |-> "idle"]

(* A desk between two of its transactions. *)
DeskStates ==
    {Idle}
    \cup [at : {"arriving"}, who : Everybody, org : AllOrgs \cup {None}]
    \cup [at : {"opening"}, who : {Operator}, org : {SandboxOrg}]
    \cup [at : {"claimed", "written"}, session : Sessions, org : AllOrgs, isNew : BOOLEAN]
    \cup [at : {"confirmed"}, who : Everybody, org : AllOrgs]
    \cup [at : {"erased"}, who : Everybody, members : SUBSET Everybody]

Members(o) == {p \in Everybody : o \in ToSet(joined[p])}
Put(d, state) == desks' = [desks EXCEPT ![d] = state]
Finish(d) == Put(d, Idle)

Init ==
    /\ users = {} /\ orgs = {} /\ named = {} /\ sessions = {} /\ drawn = {} /\ owed = {}
    /\ joined = [p \in Everybody |-> <<>>]
    /\ desks = [d \in Desks |-> Idle]

-----------------------------------------------------------------------------
(* Signing up and signing in: the account or the password first, then the   *)
(* person's first organisation, then the session, each on its own.          *)
SignUp(d, p) ==
    /\ desks[d] = Idle
    /\ p \notin drawn
    /\ users' = users \cup {p}
    /\ drawn' = drawn \cup {p}
    /\ Put(d, [at |-> "arriving", who |-> p, org |-> None])
    /\ UNCHANGED <<orgs, joined, named, sessions, owed>>

(* firstOrganisation: the oldest membership, or none. *)
FirstOrganisation(p) == IF joined[p] = <<>> THEN None ELSE Head(joined[p])

(* The sandbox account has no password, so it never comes in this way. *)
SignIn(d, p) ==
    /\ desks[d] = Idle
    /\ p \in users
    /\ Put(d, [at |-> "arriving", who |-> p, org |-> FirstOrganisation(p)])
    /\ UNCHANGED <<users, orgs, joined, named, sessions, drawn, owed>>

(* The foreign keys of sessions: the person and the organisation still exist. *)
Referenced(who, org) == who \in users /\ org \in orgs \cup {None}

(* Mutant: a session may name an organisation that is gone. *)
PersonReferenced(who, org) == who \in users

StartSession(d) ==
    /\ desks[d].at = "arriving"
    /\ Finish(d)
    /\ IF Referenced(desks[d].who, desks[d].org)
       THEN \E t \in Tokens \ drawn :
                /\ sessions' = sessions \cup
                       {[token |-> t, who |-> desks[d].who, org |-> desks[d].org]}
                /\ drawn' = drawn \cup {t}
       ELSE UNCHANGED <<sessions, drawn>>
    /\ UNCHANGED <<users, orgs, joined, named, owed>>

(* Signing out, or thirty days without being used. *)
EndSession(s) ==
    /\ s \in sessions
    /\ sessions' = sessions \ {s}
    /\ UNCHANGED <<users, orgs, joined, named, desks, drawn, owed>>

-----------------------------------------------------------------------------
(* Onboarding: claim an organisation, write it, point the session at it.    *)

(* claimOrganisation: the session's own, or an id nobody has drawn. *)
ClaimOrganisation(d, s) ==
    /\ desks[d] = Idle
    /\ s \in sessions
    /\ \E o \in IF s.org # None THEN {s.org} ELSE Orgs \ drawn :
           /\ drawn' = drawn \cup {o}
           /\ Put(d, [at |-> "claimed", session |-> s, org |-> o, isNew |-> s.org = None])
    /\ UNCHANGED <<users, orgs, joined, named, sessions, owed>>

(* ensureOrganisation: three inserts that each do nothing when the row is   *)
(* there, so an organisation erased meanwhile is made again.                *)
EnsureOrganisation(o, p) ==
    /\ orgs' = orgs \cup {o}
    /\ joined' = [joined EXCEPT ![p] =
           IF o \in ToSet(joined[p]) THEN joined[p] ELSE Append(joined[p], o)]

(* The tenant transaction.  A membership names its person, so all of it     *)
(* fails when they are gone.  Details typed by hand are facts confirmed by  *)
(* the person; a register profile or a project names nobody.                *)
WriteOrganisation(d, byHand) ==
    /\ desks[d].at = "claimed"
    /\ IF desks[d].session.who \notin users
       THEN Finish(d) /\ UNCHANGED <<orgs, joined, named>>
       ELSE /\ EnsureOrganisation(desks[d].org, desks[d].session.who)
            /\ named' = named \cup
                   IF byHand THEN {<<desks[d].session.who, desks[d].org>>} ELSE {}
            /\ Put(d, [desks[d] EXCEPT !.at = "written"])
    /\ UNCHANGED <<users, sessions, drawn, owed>>

(* commitOrganisation: an UPDATE of one session, if it is still there. *)
CommitOrganisation(d) ==
    /\ desks[d].at = "written"
    /\ Finish(d)
    /\ sessions' =
           IF desks[d].isNew /\ desks[d].org \in orgs
           THEN {IF s.token = desks[d].session.token THEN [s EXCEPT !.org = desks[d].org]
                                                     ELSE s : s \in sessions}
           ELSE sessions
    /\ UNCHANGED <<users, orgs, joined, named, drawn, owed>>

-----------------------------------------------------------------------------
(* Mutant: sessions outlive their organisation. *)
AllSessions(o) == sessions

(* Deleting an organisation takes everything that hangs off it. *)
SessionsOutside(o) == {s \in sessions : s.org # o}

(* A person has one membership of an organisation, or none. *)
Without(memberships, o) ==
    IF o \in ToSet(memberships)
    THEN RemoveAt(memberships, CHOOSE i \in DOMAIN memberships : memberships[i] = o)
    ELSE memberships

DeleteOrganisation(o) ==
    /\ orgs' = orgs \ {o}
    /\ joined' = [p \in Everybody |-> Without(joined[p], o)]
    /\ named' = {n \in named : n[2] # o}
    /\ sessions' = SessionsOutside(o)

(* eraseOrganisationAction, its first transactions: the session's person is *)
(* an owner (everybody with a membership is) and typed the name.            *)
ConfirmErasure(d, s) ==
    /\ desks[d] = Idle
    /\ s \in sessions /\ s.org # None /\ s.org \in ToSet(joined[s.who])
    /\ Put(d, [at |-> "confirmed", who |-> s.who, org |-> s.org])
    /\ UNCHANGED <<users, orgs, joined, named, sessions, drawn, owed>>

(* Mutant: the members of every organisation are read. *)
EverybodyRead(o) == {p \in Everybody : joined[p] # <<>>}

(* membersOf, read before the memberships cascade away. *)
MembersRead(o) == Members(o)

EraseOrganisation(d) ==
    /\ desks[d].at = "confirmed"
    /\ owed' = owed \cup Members(desks[d].org)
    /\ Put(d, [at |-> "erased", who |-> desks[d].who, members |-> MembersRead(desks[d].org)])
    /\ DeleteOrganisation(desks[d].org)
    /\ UNCHANGED <<users, drawn>>

(* NOT EXISTS (SELECT 1 FROM memberships ...) on the owner's connection,    *)
(* where no tenant is set: FORCE ROW LEVEL SECURITY hides every membership  *)
(* from an owner that does not bypass it.                                   *)
LooksOrphaned(p) == OwnerBypassesRLS => joined[p] = <<>>

(* eraseOrphanedUsers, one DELETE: refused as a whole while a surviving row *)
(* still names one of the people it would take.                             *)
EraseOrphanedUsers(d) ==
    LET gone == {p \in desks[d].members \cap users : LooksOrphaned(p)}
        refused == \E n \in named : n[1] \in gone
    IN
    /\ desks[d].at = "erased"
    /\ Finish(d)
    /\ IF refused
       THEN UNCHANGED <<users, joined, sessions>>
       ELSE /\ users' = users \ gone
            /\ joined' = [p \in Everybody |-> IF p \in gone THEN <<>> ELSE joined[p]]
            /\ sessions' = {s \in sessions : s.who \notin gone}
    /\ owed' = owed \ {p \in desks[d].members : p \notin users' \/ joined'[p] # <<>>}
    /\ UNCHANGED <<orgs, named, drawn>>

-----------------------------------------------------------------------------
(* openSandboxAction: the account, then the organisation, then a session.   *)
(* No parameter names an organisation.                                      *)
OpenSandbox(d) ==
    /\ desks[d] = Idle
    /\ users' = users \cup {Operator}
    /\ Put(d, [at |-> "opening", who |-> Operator, org |-> SandboxOrg])
    /\ UNCHANGED <<orgs, joined, named, sessions, drawn, owed>>

EnsureSandbox(d) ==
    /\ desks[d].at = "opening"
    /\ IF Operator \in users
       THEN /\ EnsureOrganisation(SandboxOrg, Operator)
            /\ Put(d, [desks[d] EXCEPT !.at = "arriving"])
       ELSE Finish(d) /\ UNCHANGED <<orgs, joined>>
    /\ UNCHANGED <<users, named, sessions, drawn, owed>>

(* resetSandboxAction: the organisation goes, the account stays. *)
ResetSandbox ==
    /\ SandboxOrg \in orgs
    /\ DeleteOrganisation(SandboxOrg)
    /\ UNCHANGED <<users, desks, drawn, owed>>

(* The request is killed, or its next transaction fails. *)
Stop(d) ==
    /\ desks[d] # Idle
    /\ owed' = IF desks[d].at = "erased" THEN owed \ desks[d].members ELSE owed
    /\ Finish(d)
    /\ UNCHANGED <<users, orgs, joined, named, sessions, drawn>>

Next ==
    \/ \E d \in Desks :
        \/ \E p \in People : SignUp(d, p) \/ SignIn(d, p)
        \/ \E s \in sessions : ClaimOrganisation(d, s) \/ ConfirmErasure(d, s)
        \/ \E byHand \in BOOLEAN : WriteOrganisation(d, byHand)
        \/ StartSession(d) \/ CommitOrganisation(d)
        \/ EraseOrganisation(d) \/ EraseOrphanedUsers(d)
        \/ OpenSandbox(d) \/ EnsureSandbox(d) \/ Stop(d)
    \/ \E s \in sessions : EndSession(s)
    \/ ResetSandbox

Spec == Init /\ [][Next]_vars

-----------------------------------------------------------------------------
(* The types of the tables and of what a request holds. *)
TypeOK ==
    /\ users \subseteq Everybody
    /\ orgs \subseteq AllOrgs
    /\ joined \in [Everybody -> Seq(AllOrgs)]
    /\ \A p \in Everybody : IsInjective(joined[p])
    /\ named \subseteq Everybody \X AllOrgs
    /\ sessions \subseteq Sessions
    /\ desks \in [Desks -> DeskStates]
    /\ drawn \subseteq Everybody \cup AllOrgs \cup Tokens
    /\ owed \subseteq Everybody

(* The organisation is captured when a session starts and never looked up   *)
(* again (0007_auth.sql), so whatever onboarding, erasure and the sandbox    *)
(* do in between, a session acts only as an organisation that is there and  *)
(* that is nobody else's: no other person belongs to it or acts as it.      *)
SessionsAreTheirOwn ==
    \A s \in sessions :
        /\ s.who \in users
        /\ s.org # None =>
               /\ s.org \in orgs
               /\ Members(s.org) \subseteq {s.who}
               /\ \A z \in sessions : z.org = s.org => z.who = s.who

(* "Erasure that leaves an email address behind is not erasure"             *)
(* (src/db/erasure.ts): whoever an erasure left without any organisation     *)
(* loses the account too, unless the request dies before it gets there.     *)
NoAccountLeftBehind ==
    \A p \in owed : \E d \in Desks :
        desks[d].at = "erased" /\ p \in desks[d].members

(* Deleting is for the owner of the organisation to ask for                *)
(* (src/app/organisation/data-actions.ts), "and everything hanging off it"  *)
(* is all that goes (src/db/erasure.ts): an account, or a membership of an  *)
(* organisation that stays, is lost only at the end of an erasure that its  *)
(* own person asked for.                                                    *)
NobodyElseIsCutOff ==
    [][\A p \in Everybody :
           p \in users \ users' \/ (\E o \in orgs' : p \in Members(o) \ Members(o)')
               => \E d \in Desks :
                      desks[d].at = "erased" /\ desks[d].who = p /\ desks'[d] = Idle]_vars

(* "Only a user with no membership left at all" (src/db/erasure.ts): an     *)
(* account is deleted only when its person belongs to no organisation.      *)
OnlyTheOrphanedGo ==
    [][\A p \in users \ users' : joined[p] = <<>>]_vars
=============================================================================
