-------------------------------- MODULE SignIn --------------------------------
(***************************************************************************)
(* A customer's password, the sessions it opens and the emailed links that *)
(* replace it (src/app/(auth)/actions.ts, src/db/auth.ts,                  *)
(* src/db/password-reset.ts, src/auth/password.ts).                        *)
(*                                                                         *)
(* Signing up and signing in are several transactions; choosing a new      *)
(* password is one, which hashes for a tenth of a second in the middle     *)
(* while it holds the row of its link and then the row of the password.    *)
(* Those two row locks are modelled: who holds them, who waits, and the    *)
(* database breaking a circle of waiting.  The organisation a session acts *)
(* as is the business of module Tenancy, the limit on attempts of module   *)
(* AttemptLimit.                                                           *)
(***************************************************************************)
EXTENDS FiniteSets

CONSTANTS
    Addresses,  \* email addresses; an account is known by its address
    Passwords,
    Tokens,     \* session tokens, each drawn once
    Links,      \* reset links, each drawn once
    Desks,      \* requests in progress at one moment
    Nothing     \* no row

NothingAssumption == Nothing \notin Passwords

VARIABLES
    hash,      \* per address: the stored password, and whether its work factor
               \* is behind the code's (needsRehash)
    sessions,  \* rows of sessions: <<token, address>>
    resets,    \* rows of password_resets: <<link, address>>
    inbox,     \* links whose email arrived
    desks,     \* what each request holds
    \* History:
    drawn,     \* tokens and links already drawn
    spent,     \* links that existed when a reset of their account was stored
    chosen,    \* per address: the password its owner last chose
    raced      \* addresses reset while a sign-in was about to rewrite the hash

vars == <<hash, sessions, resets, inbox, desks, drawn, spent, chosen, raced>>

NoHash == [pw |-> Nothing, old |-> FALSE]
Hashes == [pw : Passwords, old : BOOLEAN] \cup {NoHash}
Fresh(p) == [pw |-> p, old |-> FALSE]
Idle == [at |-> "idle"]

DoorStates == [at : {"creating", "rehashing", "starting"}, who : Addresses, pw : Passwords]
ResetStates ==
    [at : {"claimed", "replacing"}, link : Links, who : Addresses, pw : Passwords]
DeskStates == {Idle} \cup DoorStates \cup ResetStates

Put(d, state) == desks' = [desks EXCEPT ![d] = state]
Finish(d) == Put(d, Idle)
LinksOf(a) == {r \in resets : r[2] = a}

(* Row locks: a claim holds its link's row until it commits or rolls back,  *)
(* a reset past its claim also the row of the password.                     *)
Locked == {<<desks[d].link, desks[d].who>> :
               d \in {e \in Desks : desks[e].at \in {"claimed", "replacing"}}}
HoldsPassword(d, a) == desks[d].at = "replacing" /\ desks[d].who = a

Init ==
    /\ hash = [a \in Addresses |-> NoHash]
    /\ sessions = {} /\ resets = {} /\ inbox = {} /\ drawn = {} /\ spent = {}
    /\ desks = [d \in Desks |-> Idle]
    /\ chosen = [a \in Addresses |-> Nothing]
    /\ raced = {}

-----------------------------------------------------------------------------
(* signUpAction: no account is found, the password is hashed, the account   *)
(* made in one transaction.                                                 *)
FindNobody(d, a, p) ==
    /\ desks[d] = Idle
    /\ hash[a] = NoHash
    /\ Put(d, [at |-> "creating", who |-> a, pw |-> p])
    /\ UNCHANGED <<hash, sessions, resets, inbox, drawn, spent, chosen, raced>>

(* Mutant: an upsert. *)
AlwaysFree(a) == TRUE

(* users_email_lower: the second row for an address is refused. *)
Free(a) == hash[a] = NoHash

CreateAccount(d) ==
    LET k == desks[d] IN
    /\ k.at = "creating"
    /\ IF Free(k.who)
       THEN /\ hash' = [hash EXCEPT ![k.who] = Fresh(k.pw)]
            /\ Put(d, [k EXCEPT !.at = "starting"])
       ELSE Finish(d) /\ UNCHANGED hash
    /\ chosen' = IF chosen[k.who] = Nothing THEN [chosen EXCEPT ![k.who] = k.pw] ELSE chosen
    /\ UNCHANGED <<sessions, resets, inbox, drawn, spent, raced>>

(* signInAction up to the check of the password against the stored hash. *)
VerifyPassword(d, a, p) ==
    /\ desks[d] = Idle
    /\ hash[a].pw = p
    /\ Put(d, [at |-> IF hash[a].old THEN "rehashing" ELSE "starting", who |-> a, pw |-> p])
    /\ UNCHANGED <<hash, sessions, resets, inbox, drawn, spent, chosen, raced>>

(* setPassword, of what was typed: it waits for a reset that holds the row, *)
(* and then writes.                                                         *)
Rehash(d) ==
    LET k == desks[d] IN
    /\ k.at = "rehashing"
    /\ \A e \in Desks : ~HoldsPassword(e, k.who)
    /\ hash' = [hash EXCEPT ![k.who] = Fresh(k.pw)]
    /\ Put(d, [k EXCEPT !.at = "starting"])
    /\ UNCHANGED <<sessions, resets, inbox, drawn, spent, chosen, raced>>

StartSession(d) ==
    /\ desks[d].at = "starting"
    /\ \E t \in Tokens \ drawn :
           /\ sessions' = sessions \cup {<<t, desks[d].who>>}
           /\ drawn' = drawn \cup {t}
    /\ Finish(d)
    /\ UNCHANGED <<hash, resets, inbox, spent, chosen, raced>>

(* signOutAction, or thirty days without being used. *)
EndSession(s) ==
    /\ s \in sessions
    /\ sessions' = sessions \ {s}
    /\ UNCHANGED <<hash, resets, inbox, desks, drawn, spent, chosen, raced>>

(* A release raises the work factor of every later hash. *)
RaiseWorkFactor ==
    /\ hash' = [a \in Addresses |-> IF hash[a] = NoHash THEN NoHash
                                    ELSE [hash[a] EXCEPT !.old = TRUE]]
    /\ UNCHANGED <<sessions, resets, inbox, desks, drawn, spent, chosen, raced>>

-----------------------------------------------------------------------------
(* requestResetAction, after its response: a link for an account that has a *)
(* password; the email may fail once the row is there.                      *)
SendLink(a, l, arrives) ==
    /\ hash[a] # NoHash
    /\ l \in Links \ drawn
    /\ resets' = resets \cup {<<l, a>>}
    /\ drawn' = drawn \cup {l}
    /\ inbox' = IF arrives THEN inbox \cup {l} ELSE inbox
    /\ UNCHANGED <<hash, sessions, desks, spent, chosen, raced>>

(* Thirty minutes: the row no longer counts, swept or not. *)
LinkLapses(r) ==
    /\ r \in resets \ Locked
    /\ resets' = resets \ {r}
    /\ UNCHANGED <<hash, sessions, inbox, desks, drawn, spent, chosen, raced>>

(* Mutant: the link is looked up instead of deleted. *)
LookedUp(r) == r \in resets

(* The row can be deleted: it is there, and nobody else is deleting it. *)
Claimable(r) == r \in resets /\ r \notin Locked

(* claimPasswordReset: one conditional DELETE.  A second click waits for    *)
(* the first, then finds the row gone, or back.                             *)
ClaimLink(d, r, p) ==
    /\ desks[d] = Idle
    /\ r[1] \in inbox
    /\ Claimable(r)
    /\ Put(d, [at |-> "claimed", link |-> r[1], who |-> r[2], pw |-> p])
    /\ UNCHANGED <<hash, sessions, resets, inbox, drawn, spent, chosen, raced>>

(* KeepTheLink: the password names the address, so the claim rolls back.    *)
RefusePassword(d) ==
    /\ desks[d].at = "claimed"
    /\ Finish(d)
    /\ UNCHANGED <<hash, sessions, resets, inbox, drawn, spent, chosen, raced>>

(* The hash is made and the password's row is written, not yet committed.   *)
ReplacePassword(d) ==
    /\ desks[d].at = "claimed"
    /\ \A e \in Desks : ~HoldsPassword(e, desks[d].who)
    /\ Put(d, [desks[d] EXCEPT !.at = "replacing"])
    /\ UNCHANGED <<hash, sessions, resets, inbox, drawn, spent, chosen, raced>>

(* deleteResetsForUser. *)
Outstanding(a) == LinksOf(a)

(* Mutant: only the link that was used. *)
OnlyTheUsed(a) == {r \in LinksOf(a) : \E d \in Desks : HoldsPassword(d, a) /\ desks[d].link = r[1]}

(* The sessions end, every other link is deleted (waiting for whoever holds *)
(* one), and the transaction commits.                                       *)
CommitReset(d) ==
    LET k == desks[d] IN
    /\ k.at = "replacing"
    /\ Outstanding(k.who) \cap Locked \subseteq {<<k.link, k.who>>}
    /\ hash' = [hash EXCEPT ![k.who] = Fresh(k.pw)]
    /\ sessions' = {s \in sessions : s[2] # k.who}
    /\ resets' = resets \ Outstanding(k.who)
    /\ Finish(d)
    /\ spent' = spent \cup {r[1] : r \in LinksOf(k.who)} \cup {k.link}
    /\ chosen' = [chosen EXCEPT ![k.who] = k.pw]
    /\ raced' = raced \cup {a \in {k.who} :
                    \E e \in Desks : desks[e].at = "rehashing" /\ desks[e].who = a}
    /\ UNCHANGED <<inbox, drawn>>

(* Two links of one account used at once: one holds the password and waits  *)
(* for the other's link, which waits for the password.  The database picks  *)
(* either and rolls it back; the person sees an error.                      *)
InACircle(d) ==
    \E e \in Desks \ {d} :
        /\ {desks[d].at, desks[e].at} = {"claimed", "replacing"}
        /\ desks[d].who = desks[e].who

BreakTheCircle(d) ==
    /\ InACircle(d)
    /\ Finish(d)
    /\ UNCHANGED <<hash, sessions, resets, inbox, drawn, spent, chosen, raced>>

(* The request is killed; whatever it had not committed is rolled back. *)
Stop(d) ==
    /\ desks[d] # Idle
    /\ Finish(d)
    /\ UNCHANGED <<hash, sessions, resets, inbox, drawn, spent, chosen, raced>>

Next ==
    \/ \E d \in Desks, a \in Addresses, p \in Passwords :
        FindNobody(d, a, p) \/ VerifyPassword(d, a, p)
    \/ \E d \in Desks, r \in resets, p \in Passwords : ClaimLink(d, r, p)
    \/ \E d \in Desks :
        \/ CreateAccount(d) \/ Rehash(d) \/ StartSession(d)
        \/ RefusePassword(d) \/ ReplacePassword(d) \/ CommitReset(d)
        \/ BreakTheCircle(d) \/ Stop(d)
    \/ \E a \in Addresses, l \in Links, arrives \in BOOLEAN : SendLink(a, l, arrives)
    \/ \E r \in resets : LinkLapses(r)
    \/ \E s \in sessions : EndSession(s)
    \/ RaiseWorkFactor

Spec == Init /\ [][Next]_vars

-----------------------------------------------------------------------------
(* The types of the tables and of what a request holds. *)
TypeOK ==
    /\ hash \in [Addresses -> Hashes]
    /\ sessions \subseteq Tokens \X Addresses
    /\ resets \subseteq Links \X Addresses
    /\ inbox \subseteq Links
    /\ desks \in [Desks -> DeskStates]
    /\ drawn \subseteq Tokens \cup Links
    /\ spent \subseteq Links
    /\ chosen \in [Addresses -> Passwords \cup {Nothing}]
    /\ raced \subseteq Addresses

(* "Two clicks on the same link cannot both succeed", and "a second email   *)
(* sitting in the inbox must not work after the first one has been used"    *)
(* (src/db/password-reset.ts): once a reset is stored, no link of that      *)
(* account is left, in the table or in a request already under way.         *)
SpentLinksAreDead ==
    /\ \A r \in resets : r[1] \notin spent
    /\ \A d \in Desks : desks[d].at \in {"claimed", "replacing"} => desks[d].link \notin spent

(* The password that opens an account is the one its owner chose last,      *)
(* whatever sign-ups, links and rewritten hashes cross, but for a sign-in   *)
(* caught between its check and its rewrite by a reset.                     *)
ChosenPasswordStands ==
    \A a \in Addresses \ raced : hash[a].pw = chosen[a]

(* A reset is final: it leaves no other way in than the password chosen in  *)
(* it, by a link or by a hash rewritten from an older one.                  *)
ResetsAreFinal == SpentLinksAreDead /\ ChosenPasswordStands
=============================================================================
