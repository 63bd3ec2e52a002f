------------------------------- MODULE Console -------------------------------
(***************************************************************************)
(* Who runs the service: the console's accounts, their sessions and the    *)
(* roster (src/db/admin.ts, src/domain/auth/admin.ts, src/app/admin/).     *)
(*                                                                         *)
(* A request first proves who is asking in a transaction of its own        *)
(* (requireAdmin), then reads, then writes; a claim and a sign-in are      *)
(* several transactions too.  At READ COMMITTED nothing it read is still   *)
(* true by the time it writes, except that two transactions which write    *)
(* the same row take turns.  An admin is known by the address, which is    *)
(* unique.                                                                 *)
(***************************************************************************)
EXTENDS FiniteSets, Naturals

CONSTANTS
    Admins,     \* addresses an account can have
    Passwords,
    Tokens,     \* session tokens, each drawn once
    Desks,      \* requests in progress at one moment
    Nothing     \* no row, or no such thing

ASSUME NothingAssumption == Nothing \notin Admins \cup Tokens \cup Passwords
ASSUME FiniteAssumption == IsFiniteSet(Admins)

VARIABLES
    standing,   \* per address: no account, enabled, or stood down (disabled_at)
    hash,       \* per address: the password of password_hash, and whether its
                \* work factor is behind the code's (needsRehash)
    sessions,   \* rows of admin_sessions: <<token, address>>
    desks,      \* what each request holds between its transactions
    \* History:
    drawn,      \* tokens already drawn
    ended,      \* tokens whose session somebody set out to end
    crossed     \* two stand-downs were once between their count and their write

vars == <<standing, hash, sessions, desks, drawn, ended, crossed>>

NoHash == [pw |-> Nothing, old |-> FALSE]
Hashes == [pw : Passwords, old : BOOLEAN] \cup {NoHash}
Idle == [at |-> "idle"]
Roster == {"standdown", "restore", "add", "reset", "change"}

DoorStates ==
    [at : {"claiming", "inserting", "verifying", "rehashing", "starting"},
     who : Admins, pw : Passwords]
StandingAsks ==
    [at : {"asked", "judged"}, ask : {"standdown", "restore"}, actor : Admins,
     token : Tokens, target : Admins, pw : {Nothing}]
PasswordAsks ==
    [at : {"asked", "judged"}, ask : {"add", "reset", "change"}, actor : Admins,
     token : Tokens, target : Admins, pw : Passwords]
DeskStates == {Idle} \cup DoorStates \cup StandingAsks \cup PasswordAsks

Accounts == {a \in Admins : standing[a] # "none"}
Enabled == {a \in Admins : standing[a] = "enabled"}
SessionsOf(a) == {s \in sessions : s[2] = a}
Put(d, state) == desks' = [desks EXCEPT ![d] = state]
Finish(d) == Put(d, Idle)

Init ==
    /\ standing = [a \in Admins |-> "none"]
    /\ hash = [a \in Admins |-> NoHash]
    /\ sessions = {} /\ drawn = {} /\ ended = {} /\ crossed = FALSE
    /\ desks = [d \in Desks |-> Idle]

-----------------------------------------------------------------------------
(* Claiming the console: count the accounts, hash the password, insert.     *)
ClaimConsole(d, a, p) ==
    /\ desks[d] = Idle
    /\ Accounts = {}
    /\ Put(d, [at |-> "claiming", who |-> a, pw |-> p])
    /\ UNCHANGED <<standing, hash, sessions, drawn, ended, crossed>>

(* claimFirstAdmin's WHERE NOT EXISTS sees the rows committed before it.    *)
ReadNoAdmin(d) ==
    /\ desks[d].at = "claiming"
    /\ IF Accounts = {} THEN Put(d, [desks[d] EXCEPT !.at = "inserting"]) ELSE Finish(d)
    /\ UNCHANGED <<standing, hash, sessions, drawn, ended, crossed>>

Fresh(p) == [pw |-> p, old |-> FALSE]

(* Mutant: a row without its hash. *)
HashForgotten(a, p) == standing' = [standing EXCEPT ![a] = "enabled"] /\ UNCHANGED hash

NewAccount(a, p) ==
    /\ standing' = [standing EXCEPT ![a] = "enabled"]
    /\ hash' = [hash EXCEPT ![a] = Fresh(p)]

(* Its commit; the unique address refuses a second row for the same one.    *)
InsertFirstAdmin(d) ==
    /\ desks[d].at = "inserting"
    /\ IF standing[desks[d].who] = "none"
       THEN /\ NewAccount(desks[d].who, desks[d].pw)
            /\ Put(d, [desks[d] EXCEPT !.at = "starting"])
       ELSE Finish(d) /\ UNCHANGED <<standing, hash>>
    /\ UNCHANGED <<sessions, drawn, ended, crossed>>

-----------------------------------------------------------------------------
(* Signing in: find the account, check the password, maybe rewrite the      *)
(* hash, start a session.                                                   *)
FindAdmin(d, a, p) ==
    /\ desks[d] = Idle
    /\ a \in Enabled
    /\ Put(d, [at |-> "verifying", who |-> a, pw |-> p])
    /\ UNCHANGED <<standing, hash, sessions, drawn, ended, crossed>>

VerifyPassword(d) ==
    LET stored == hash[desks[d].who] IN
    /\ desks[d].at = "verifying"
    /\ IF stored.pw # desks[d].pw THEN Finish(d)
       ELSE Put(d, [desks[d] EXCEPT !.at = IF stored.old THEN "rehashing" ELSE "starting"])
    /\ UNCHANGED <<standing, hash, sessions, drawn, ended, crossed>>

Rehash(d) ==
    /\ desks[d].at = "rehashing"
    /\ hash' = [hash EXCEPT ![desks[d].who] = Fresh(desks[d].pw)]
    /\ Put(d, [desks[d] EXCEPT !.at = "starting"])
    /\ UNCHANGED <<standing, sessions, drawn, ended, crossed>>

StartAdminSession(d) ==
    /\ desks[d].at = "starting"
    /\ \E t \in Tokens \ drawn :
           /\ sessions' = sessions \cup {<<t, desks[d].who>>}
           /\ drawn' = drawn \cup {t}
    /\ Finish(d)
    /\ UNCHANGED <<standing, hash, ended, crossed>>

(* Signing out, or eight hours gone by. *)
EndAdminSession(s) ==
    /\ s \in sessions
    /\ sessions' = sessions \ {s}
    /\ ended' = ended \cup {s[1]}
    /\ UNCHANGED <<standing, hash, desks, drawn, crossed>>

(* A release raises the work factor of every later hash. *)
RaiseWorkFactor ==
    /\ hash' = [a \in Admins |-> IF a \in Accounts THEN [hash[a] EXCEPT !.old = TRUE]
                                                   ELSE NoHash]
    /\ UNCHANGED <<standing, sessions, desks, drawn, ended, crossed>>

-----------------------------------------------------------------------------
(* The roster. *)

(* requireAdmin: loadAdminSession refuses a stood-down account's session.   *)
LoadAdminSession(s) == s \in sessions /\ s[2] \in Enabled

Ask(d, s, ask, target, p) ==
    /\ desks[d] = Idle
    /\ LoadAdminSession(s)
    /\ ask = "change" => target = s[2]
    /\ Put(d, [at |-> "asked", ask |-> ask, actor |-> s[2], token |-> s[1], target |-> target,
               pw |-> IF ask \in {"standdown", "restore"} THEN Nothing ELSE p])
    /\ UNCHANGED <<standing, hash, sessions, drawn, ended, crossed>>

(* Mutant: anybody enabled but oneself. *)
AnybodyElse(actor, target, count) == standing[target] = "enabled" /\ actor # target

(* standDownRefusal: none of these. *)
MayStandDown(actor, target, count) ==
    /\ standing[target] = "enabled"
    /\ actor # target
    /\ count > 1

(* restoreRefusal, resetPasswordRefusal and the current password asked for: *)
(* what each request reads before it writes.  A change names the password   *)
(* it replaces, here any stored one that differs from the new.              *)
Accepts(k) ==
    CASE k.ask = "standdown" -> MayStandDown(k.actor, k.target, Cardinality(Enabled))
      [] k.ask = "restore"   -> standing[k.target] = "disabled"
      [] k.ask = "reset"     -> k.actor # k.target /\ standing[k.target] # "none"
      [] k.ask = "change"    -> hash[k.actor].pw # k.pw
      [] OTHER               -> TRUE

(* A stand-down between its count and its write. *)
StandingDown(d) == desks[d].at = "judged" /\ desks[d].ask = "standdown"

Judge(d) ==
    /\ desks[d].at = "asked"
    /\ IF Accepts(desks[d]) THEN Put(d, [desks[d] EXCEPT !.at = "judged"]) ELSE Finish(d)
    /\ crossed' = (crossed \/ (StandingDown(d)' /\ \E e \in Desks \ {d} : StandingDown(e)))
    /\ UNCHANGED <<standing, hash, sessions, drawn, ended>>

(* Mutant: the rows stay and only the check at the door refuses them. *)
LeftToTheCheck(gone) == sessions

(* The sessions a request leaves: all but the target's. *)
Without(gone) == sessions \ gone

End(gone) ==
    /\ sessions' = Without(gone)
    /\ ended' = ended \cup {s[1] : s \in gone}

(* disableAdmin: the account and its sessions in one transaction. *)
StandDown(d) ==
    /\ StandingDown(d)
    /\ standing' = [standing EXCEPT ![desks[d].target] = "disabled"]
    /\ End(SessionsOf(desks[d].target))
    /\ Finish(d)
    /\ UNCHANGED <<hash, drawn, crossed>>

(* enableAdmin writes whatever the row says by now. *)
Restore(d) ==
    /\ desks[d].at = "judged" /\ desks[d].ask = "restore"
    /\ standing' = [standing EXCEPT ![desks[d].target] = "enabled"]
    /\ Finish(d)
    /\ UNCHANGED <<hash, sessions, drawn, ended, crossed>>

(* insertAdmin: ON CONFLICT DO NOTHING, for a stood-down address too. *)
AddAdmin(d) ==
    /\ desks[d].at = "judged" /\ desks[d].ask = "add"
    /\ IF standing[desks[d].target] = "none"
       THEN NewAccount(desks[d].target, desks[d].pw)
       ELSE UNCHANGED <<standing, hash>>
    /\ Finish(d)
    /\ UNCHANGED <<sessions, drawn, ended, crossed>>

(* resetAdminPasswordAction ends every session of the target;               *)
(* changeAdminPasswordAction all of one's own but the one asking.           *)
SetAdminPassword(d) ==
    LET k == desks[d]
        kept == IF k.ask = "change" THEN {<<k.token, k.target>>} ELSE {}
    IN
    /\ k.at = "judged" /\ k.ask \in {"reset", "change"}
    /\ hash' = [hash EXCEPT ![k.target] = Fresh(k.pw)]
    /\ End(SessionsOf(k.target) \ kept)
    /\ Finish(d)
    /\ UNCHANGED <<standing, drawn, crossed>>

(* The request is killed between two of its transactions. *)
Stop(d) ==
    /\ desks[d] # Idle
    /\ Finish(d)
    /\ UNCHANGED <<standing, hash, sessions, drawn, ended, crossed>>

Next ==
    \/ \E d \in Desks, a \in Admins, p \in Passwords :
        ClaimConsole(d, a, p) \/ FindAdmin(d, a, p)
    \/ \E d \in Desks, s \in sessions, ask \in Roster, a \in Admins, p \in Passwords :
        Ask(d, s, ask, a, p)
    \/ \E d \in Desks :
        \/ ReadNoAdmin(d) \/ InsertFirstAdmin(d)
        \/ VerifyPassword(d) \/ Rehash(d) \/ StartAdminSession(d)
        \/ Judge(d) \/ StandDown(d) \/ Restore(d) \/ AddAdmin(d) \/ SetAdminPassword(d)
        \/ Stop(d)
    \/ \E s \in sessions : EndAdminSession(s)
    \/ RaiseWorkFactor

Spec == Init /\ [][Next]_vars

-----------------------------------------------------------------------------
(* The types, and that an account has a password exactly when it exists. *)
TypeOK ==
    /\ standing \in [Admins -> {"none", "enabled", "disabled"}]
    /\ hash \in [Admins -> Hashes]
    /\ \A a \in Admins : hash[a] = NoHash <=> standing[a] = "none"
    /\ sessions \subseteq drawn \X Accounts
    /\ desks \in [Desks -> DeskStates]
    /\ drawn \subseteq Tokens
    /\ ended \subseteq drawn
    /\ crossed \in BOOLEAN

(* "The LAST enabled admin cannot be stood down" (domain/auth/admin.ts).     *)
ConsoleCanBeOpened == Accounts # {} => Enabled # {}

(* As far as that goes: no run of claims, stand-downs, restores and         *)
(* password changes closes the console, not even when the one who asks is   *)
(* stood down while asking, as long as no two stand-downs cross.            *)
OnlyCrossingsClose == ~crossed => ConsoleCanBeOpened

(* "Their old sessions stay gone": a session that somebody signed out,      *)
(* stood down, or ended by a new password never opens the console again,    *)
(* whoever is restored and however often.                                   *)
EndedStaysEnded == \A s \in sessions : s[1] \notin ended
=============================================================================
