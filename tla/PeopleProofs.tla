----------------------------- MODULE PeopleProofs -----------------------------
(***************************************************************************)
(* What is proved of People, for any number of accounts, people, links,    *)
(* keys and requests in progress: the console's two promises, the          *)
(* operator's settings, who belongs to which organisation, what a review   *)
(* link opens, from the proofs of SignIn that a reset stays final, and all *)
(* of it side by side.                                                     *)
(***************************************************************************)
EXTENDS People, FiniteSetTheorems, SequenceTheorems, TLAPS

(***************************************************************************)
(* The console.  What a request read is stale by the time it writes.  The  *)
(* inductive invariant says what of it survives: the account it works on   *)
(* still exists (nothing deletes one), and a stand-down that no other one  *)
(* crosses still has the colleague it counted.  A token is drawn once, so  *)
(* it names one session for ever.                                          *)
(***************************************************************************)

\* The account a request is about to write, or to start a session for.
Needs(k) ==
    CASE k.at \in {"verifying", "rehashing", "starting"} -> {k.who}
      [] k.at = "asked" /\ k.ask = "change"              -> {k.target}
      [] k.at = "judged" /\ k.ask # "add"                -> {k.target}
      [] OTHER                                           -> {}

RosterStates == StandingAsks \cup PasswordAsks

\* It exists.
TargetsExist == \A d \in Desks : Needs(desks[d]) \subseteq Accounts

\* A token opens one session.
OneSessionPerToken == \A s, t \in sessions : s[1] = t[1] => s = t

\* A stand-down nobody crosses is alone, and leaves somebody.
StandDownsLeaveOne ==
    ~crossed =>
        /\ \A d, e \in Desks : StandingDown(d) /\ StandingDown(e) => d = e
        /\ \A d \in Desks : StandingDown(d) => Enabled \ {desks[d].target} # {}

IInv ==
    /\ TypeOK /\ TargetsExist
    /\ OneSessionPerToken /\ EndedStaysEnded
    /\ StandDownsLeaveOne /\ OnlyCrossingsClose

-----------------------------------------------------------------------------
\* What a request holds at each of its steps.
LEMMA DeskTypes ==
    ASSUME NEW k \in DeskStates
    PROVE  /\ k.at \in {"claiming", "inserting", "verifying", "rehashing", "starting"}
                => k \in DoorStates
           /\ k.at \in {"asked", "judged"} => k \in RosterStates
           /\ k.at \in {"idle", "claiming", "inserting", "verifying", "rehashing",
                        "starting", "asked", "judged"}
  BY DEF DeskStates, DoorStates, RosterStates, StandingAsks, PasswordAsks, Idle

\* A hash that is stored is none of the absent ones.
LEMMA HashesExist ==
    /\ \A p \in Passwords : Fresh(p) \in Hashes /\ Fresh(p) # NoHash
    /\ \A h \in Hashes : h # NoHash => [h EXCEPT !.old = TRUE] \in Hashes \ {NoHash}
    /\ NoHash \in Hashes
  BY NothingAssumption DEF Fresh, Hashes, NoHash

\* More than one enabled account: one is left without any given one.
LEMMA SomebodyElse ==
    ASSUME standing \in [Admins -> {"none", "enabled", "disabled"}],
           Cardinality(Enabled) > 1, NEW a \in Admins
    PROVE  Enabled \ {a} # {}
  <1>1. IsFiniteSet(Enabled) /\ Enabled \subseteq Admins
    BY FiniteAssumption, FS_Subset DEF Enabled
  <1>2. SUFFICES ASSUME Enabled \ {a} = {} PROVE FALSE
    OBVIOUS
  <1>3. Enabled \subseteq {a}
    BY <1>2
  <1>4. IsFiniteSet({a}) /\ Cardinality({a}) = 1
    BY FS_Singleton
  <1>5. Cardinality(Enabled) <= 1 /\ Cardinality(Enabled) \in Nat
    BY <1>1, <1>3, <1>4, FS_Subset, FS_CardinalityType
  <1> QED BY <1>5

-----------------------------------------------------------------------------
\* What a step that gives desk d the state k leaves true.
LEMMA PutType ==
    ASSUME desks \in [Desks -> DeskStates], NEW d \in Desks, NEW k \in DeskStates,
           Put(d, k)
    PROVE  /\ desks' \in [Desks -> DeskStates]
           /\ desks'[d] = k
           /\ \A e \in Desks \ {d} : desks'[e] = desks[e]
  BY DEF Put

\* No account goes, and the desk that moved needs an account there is.
LEMMA TargetsStay ==
    ASSUME desks \in [Desks -> DeskStates], TargetsExist,
           NEW d \in Desks, NEW k \in DeskStates, Put(d, k),
           Accounts \subseteq Accounts', Needs(k) \subseteq Accounts'
    PROVE  TargetsExist'
  <1>1. SUFFICES ASSUME NEW e \in Desks PROVE Needs(desks'[e]) \subseteq Accounts'
    BY DEF TargetsExist, Needs
  <1>2. CASE e = d
    BY <1>2, PutType
  <1>3. CASE e # d
    <2>1. desks'[e] = desks[e]
      BY <1>3, PutType
    <2> QED BY <2>1 DEF TargetsExist
  <1> QED BY <1>2, <1>3

\* Nobody is stood down, and the desk that moved is not about to.
LEMMA StandDownsStay ==
    ASSUME desks \in [Desks -> DeskStates], StandDownsLeaveOne, OnlyCrossingsClose,
           NEW d \in Desks, NEW k \in DeskStates, Put(d, k),
           ~(k.at = "judged" /\ k.ask = "standdown"),
           Enabled \subseteq Enabled', Accounts = {} /\ Accounts' # {} => Enabled' # {},
           crossed' = crossed
    PROVE  StandDownsLeaveOne' /\ OnlyCrossingsClose'
  <1>1. \A e \in Desks : StandingDown(e)' => StandingDown(e) /\ desks'[e] = desks[e]
    BY PutType DEF StandingDown
  <1>2. StandDownsLeaveOne'
    BY <1>1 DEF StandDownsLeaveOne
  <1>3. OnlyCrossingsClose'
    BY DEF OnlyCrossingsClose, ConsoleCanBeOpened
  <1> QED BY <1>2, <1>3

\* Ending sessions ends them for good: no other has their tokens.
LEMMA SessionsEnd ==
    ASSUME sessions \subseteq drawn \X Accounts, ended \subseteq drawn,
           OneSessionPerToken, EndedStaysEnded,
           NEW gone \in SUBSET sessions,
           sessions' = sessions \ gone, ended' = ended \cup {s[1] : s \in gone},
           drawn' = drawn, Accounts \subseteq Accounts'
    PROVE  /\ sessions' \subseteq drawn' \X Accounts' /\ ended' \subseteq drawn'
           /\ OneSessionPerToken' /\ EndedStaysEnded'
  <1>1. sessions' \subseteq drawn' \X Accounts'
    OBVIOUS
  <1>2. \A s \in sessions : s[1] \in drawn
    OBVIOUS
  <1>3. ended' \subseteq drawn'
    BY <1>2
  <1>4. OneSessionPerToken'
    BY DEF OneSessionPerToken
  <1>5. EndedStaysEnded'
    <2>1. SUFFICES ASSUME NEW s \in sessions', s[1] \in ended' PROVE FALSE
      BY DEF EndedStaysEnded
    <2>2. s \in sessions /\ s \notin gone /\ s[1] \notin ended
      BY DEF EndedStaysEnded
    <2>3. PICK t \in gone : s[1] = t[1]
      BY <2>1, <2>2
    <2> QED BY <2>2, <2>3 DEF OneSessionPerToken
  <1> QED BY <1>1, <1>3, <1>4, <1>5

\* A step that only moves a desk to a state it may be in.
LEMMA DeskStep ==
    ASSUME IInv, NEW d \in Desks, NEW k \in DeskStates, Put(d, k),
           Needs(k) \subseteq Accounts, ~(k.at = "judged" /\ k.ask = "standdown"),
           UNCHANGED <<standing, hash, sessions, drawn, ended, crossed>>
    PROVE  IInv'
  <1>1. Accounts' = Accounts /\ Enabled' = Enabled
    BY DEF Accounts, Enabled
  <1>2. TypeOK'
    BY <1>1, PutType DEF IInv, TypeOK
  <1>3. TargetsExist'
    BY <1>1, TargetsStay DEF IInv, TypeOK
  <1>4. StandDownsLeaveOne' /\ OnlyCrossingsClose'
    BY <1>1, StandDownsStay DEF IInv, TypeOK
  <1>5. OneSessionPerToken' /\ EndedStaysEnded'
    BY DEF IInv, OneSessionPerToken, EndedStaysEnded
  <1> QED BY <1>2, <1>3, <1>4, <1>5 DEF IInv

\* An idle desk needs nothing.
LEMMA IdleNeeds == Idle \in DeskStates /\ Needs(Idle) = {} /\ Idle.at = "idle"
  BY DEF Idle, DeskStates, Needs

-----------------------------------------------------------------------------
\* Claiming, signing in and asking: what is read is kept in the desk.
LEMMA ReadsIInv ==
    ASSUME IInv, NEW d \in Desks,
           \/ \E a \in Admins, p \in Passwords : ClaimConsole(d, a, p) \/ FindAdmin(d, a, p)
           \/ \E s \in sessions, ask \in Roster, a \in Admins, p \in Passwords :
                  Ask(d, s, ask, a, p)
           \/ ReadNoAdmin(d) \/ VerifyPassword(d) \/ Stop(d)
    PROVE  IInv'
  <1>1. ASSUME NEW a \in Admins, NEW p \in Passwords, ClaimConsole(d, a, p) PROVE IInv'
    <2> DEFINE k == [at |-> "claiming", who |-> a, pw |-> p]
    <2>1. k \in DeskStates /\ Needs(k) = {}
      BY DEF DeskStates, DoorStates, Needs
    <2> QED BY <1>1, <2>1, DeskStep DEF ClaimConsole
  <1>2. ASSUME NEW a \in Admins, NEW p \in Passwords, FindAdmin(d, a, p) PROVE IInv'
    <2> DEFINE k == [at |-> "verifying", who |-> a, pw |-> p]
    <2>1. k \in DeskStates /\ Needs(k) = {a} /\ a \in Accounts
      BY <1>2 DEF DeskStates, DoorStates, Needs, FindAdmin, Enabled, Accounts
    <2> QED BY <1>2, <2>1, DeskStep DEF FindAdmin
  <1>3. ASSUME NEW s \in sessions, NEW ask \in Roster, NEW a \in Admins, NEW p \in Passwords,
               Ask(d, s, ask, a, p)
        PROVE  IInv'
    <2> DEFINE k == [at |-> "asked", ask |-> ask, actor |-> s[2], token |-> s[1],
                     target |-> a,
                     pw |-> IF ask \in {"standdown", "restore"} THEN Nothing ELSE p]
    <2>1. s[1] \in Tokens /\ s[2] \in Admins /\ s[2] \in Accounts
      BY DEF IInv, TypeOK, Accounts
    <2>2. k \in RosterStates
      <3>1. CASE ask \in {"standdown", "restore"}
        BY <2>1, <3>1 DEF RosterStates, StandingAsks
      <3>2. CASE ask \in {"add", "reset", "change"}
        BY <2>1, <3>2 DEF RosterStates, PasswordAsks
      <3> QED BY <3>1, <3>2 DEF Roster
    <2>3. Needs(k) \subseteq Accounts
      BY <1>3, <2>1 DEF Needs, Ask
    <2> QED BY <1>3, <2>2, <2>3, DeskStep DEF Ask, DeskStates, RosterStates
  <1>4. CASE Stop(d)
    BY <1>4, IdleNeeds, DeskStep DEF Stop, Finish
  <1>5. CASE ReadNoAdmin(d)
    <2> DEFINE k == [desks[d] EXCEPT !.at = "inserting"]
    <2>1. desks[d] \in DoorStates
      BY <1>5, DeskTypes DEF ReadNoAdmin, IInv, TypeOK
    <2>2. k \in DeskStates /\ Needs(k) = {} /\ k.at = "inserting"
      BY <2>1 DEF DeskStates, DoorStates, Needs
    <2> QED BY <1>5, <2>2, IdleNeeds, DeskStep DEF ReadNoAdmin, Finish
  <1>6. CASE VerifyPassword(d)
    <2> DEFINE at == IF hash[desks[d].who].old THEN "rehashing" ELSE "starting"
               k == [desks[d] EXCEPT !.at = at]
    <2>1. desks[d] \in DoorStates /\ Needs(desks[d]) = {desks[d].who}
      BY <1>6, DeskTypes DEF VerifyPassword, IInv, TypeOK, Needs
    <2>2. k \in DeskStates /\ Needs(k) = {desks[d].who} /\ k.at = at
      BY <2>1 DEF DeskStates, DoorStates, Needs
    <2>3. Needs(k) \subseteq Accounts
      BY <2>1, <2>2 DEF IInv, TargetsExist
    <2>4. k.at # "judged"
      BY <2>2
    <2> HIDE DEF k, at
    <2>5. CASE Put(d, k)
      BY <1>6, <2>2, <2>3, <2>4, <2>5, DeskStep DEF VerifyPassword
    <2>6. CASE Finish(d)
      BY <1>6, <2>6, IdleNeeds, DeskStep DEF VerifyPassword, Finish
    <2> QED BY <1>6, <2>5, <2>6 DEF VerifyPassword, k, at
  <1> QED BY <1>1, <1>2, <1>3, <1>4, <1>5, <1>6

\* A new account, for the first admin or for a colleague.
LEMMA NewAccountIInv ==
    ASSUME IInv, NEW d \in Desks, NEW k \in DeskStates, Put(d, k),
           NEW a \in Admins, NEW p \in Passwords, NewAccount(a, p),
           Needs(k) \subseteq {a}, ~(k.at = "judged" /\ k.ask = "standdown"),
           UNCHANGED <<sessions, drawn, ended, crossed>>
    PROVE  IInv'
  <1>1. /\ standing' \in [Admins -> {"none", "enabled", "disabled"}]
        /\ hash' \in [Admins -> Hashes]
        /\ \A b \in Admins : hash'[b] = NoHash <=> standing'[b] = "none"
    BY HashesExist DEF NewAccount, IInv, TypeOK
  <1>2. /\ Accounts \cup {a} \subseteq Accounts'
        /\ Enabled \cup {a} \subseteq Enabled'
    BY DEF NewAccount, Accounts, Enabled, IInv, TypeOK
  <1>3. TypeOK'
    BY <1>1, <1>2, PutType DEF IInv, TypeOK
  <1>4. TargetsExist'
    BY <1>2, TargetsStay DEF IInv, TypeOK
  <1>5. StandDownsLeaveOne' /\ OnlyCrossingsClose'
    BY <1>2, StandDownsStay DEF IInv, TypeOK
  <1>6. OneSessionPerToken' /\ EndedStaysEnded'
    BY DEF IInv, OneSessionPerToken, EndedStaysEnded
  <1> QED BY <1>3, <1>4, <1>5, <1>6 DEF IInv

LEMMA InsertFirstAdminIInv ==
    ASSUME IInv, NEW d \in Desks, InsertFirstAdmin(d) PROVE IInv'
  <1> DEFINE k == [desks[d] EXCEPT !.at = "starting"]
  <1>1. desks[d] \in DoorStates
    BY DeskTypes DEF InsertFirstAdmin, IInv, TypeOK
  <1>2. k \in DeskStates /\ Needs(k) = {desks[d].who} /\ k.at = "starting"
    BY <1>1 DEF DeskStates, DoorStates, Needs
  <1>3. desks[d].who \in Admins /\ desks[d].pw \in Passwords
    BY <1>1 DEF DoorStates
  <1>4. CASE standing[desks[d].who] = "none"
    BY <1>2, <1>3, <1>4, NewAccountIInv DEF InsertFirstAdmin
  <1>5. CASE standing[desks[d].who] # "none"
    BY <1>5, IdleNeeds, DeskStep DEF InsertFirstAdmin, Finish
  <1> QED BY <1>4, <1>5

LEMMA AddAdminIInv ==
    ASSUME IInv, NEW d \in Desks, AddAdmin(d) PROVE IInv'
  <1>1. desks[d].target \in Admins /\ desks[d].pw \in Passwords
    BY DeskTypes DEF AddAdmin, IInv, TypeOK, RosterStates, StandingAsks, PasswordAsks
  <1>2. CASE standing[desks[d].target] # "none"
    BY <1>2, IdleNeeds, DeskStep DEF AddAdmin, Finish
  <1>3. CASE standing[desks[d].target] = "none"
    BY <1>1, <1>3, IdleNeeds, NewAccountIInv DEF AddAdmin, Finish
  <1> QED BY <1>2, <1>3

-----------------------------------------------------------------------------
\* Hashes rewritten in place leave the roster and the sessions alone.
LEMMA RehashIInv == ASSUME IInv, NEW d \in Desks, Rehash(d) PROVE IInv'
  <1> DEFINE k == [desks[d] EXCEPT !.at = "starting"]
  <1>1. /\ UNCHANGED <<standing, sessions, drawn, ended, crossed>> /\ Put(d, k)
        /\ Accounts' = Accounts /\ Enabled' = Enabled
    BY DEF Rehash, Accounts, Enabled
  <1>2. desks[d] \in DoorStates /\ desks[d].who \in Accounts
    BY DeskTypes DEF Rehash, IInv, TypeOK, TargetsExist, Needs
  <1>3. k \in DeskStates /\ Needs(k) \subseteq Accounts /\ k.at = "starting"
    BY <1>2 DEF DeskStates, DoorStates, Needs
  <1> HIDE DEF k
  <1>4. /\ hash' \in [Admins -> Hashes]
        /\ \A a \in Admins : hash'[a] = NoHash <=> standing[a] = "none"
    BY <1>2, HashesExist DEF Rehash, IInv, TypeOK, Accounts, DoorStates
  <1>5. TypeOK'
    BY <1>1, <1>3, <1>4, PutType DEF IInv, TypeOK
  <1>6. TargetsExist'
    BY <1>1, <1>3, TargetsStay DEF IInv, TypeOK
  <1>7. StandDownsLeaveOne' /\ OnlyCrossingsClose'
    BY <1>1, <1>3, StandDownsStay DEF IInv, TypeOK
  <1>8. OneSessionPerToken' /\ EndedStaysEnded'
    BY <1>1 DEF IInv, OneSessionPerToken, EndedStaysEnded
  <1> QED BY <1>5, <1>6, <1>7, <1>8 DEF IInv

LEMMA RaiseIInv == ASSUME IInv, RaiseWorkFactor PROVE IInv'
  <1>1. \A a \in Accounts : hash[a] \in Hashes /\ hash[a] # NoHash
    BY DEF IInv, TypeOK, Accounts
  <1>2. \A a \in Accounts : hash'[a] = [hash[a] EXCEPT !.old = TRUE]
    BY DEF RaiseWorkFactor, Accounts
  <1>3. \A a \in Admins \ Accounts : hash'[a] = NoHash
    BY DEF RaiseWorkFactor
  <1>4. \A a \in Accounts : hash'[a] \in Hashes \ {NoHash}
    BY <1>1, <1>2, HashesExist
  <1>5. hash' \in [Admins -> Hashes]
    BY <1>3, <1>4, HashesExist DEF RaiseWorkFactor, Accounts
  <1>6. \A a \in Admins : hash'[a] = NoHash <=> standing[a] = "none"
    BY <1>3, <1>4 DEF Accounts
  <1>7. UNCHANGED <<standing, sessions, desks, drawn, ended, crossed>>
    BY DEF RaiseWorkFactor
  <1>8. Accounts' = Accounts /\ Enabled' = Enabled
    BY <1>7 DEF Accounts, Enabled
  <1> QED
    BY <1>5, <1>6, <1>7, <1>8
    DEF IInv, TypeOK, TargetsExist, OneSessionPerToken, EndedStaysEnded,
        StandDownsLeaveOne, StandingDown, OnlyCrossingsClose, ConsoleCanBeOpened

-----------------------------------------------------------------------------
\* Sessions: a fresh token, or one session fewer.
LEMMA StartIInv == ASSUME IInv, NEW d \in Desks, StartAdminSession(d) PROVE IInv'
  <1>1. Accounts' = Accounts /\ Enabled' = Enabled
    BY DEF StartAdminSession, Accounts, Enabled
  <1>2. PICK t \in Tokens \ drawn : /\ sessions' = sessions \cup {<<t, desks[d].who>>}
                                    /\ drawn' = drawn \cup {t}
    BY DEF StartAdminSession
  <1>3. desks[d].who \in Accounts
    BY DeskTypes DEF StartAdminSession, IInv, TypeOK, TargetsExist, Needs
  <1>4. Put(d, Idle) /\ UNCHANGED <<standing, hash, ended, crossed>>
    BY DEF StartAdminSession, Finish
  <1>5. sessions' \subseteq drawn' \X Accounts
    BY <1>2, <1>3 DEF IInv, TypeOK
  <1>6. TypeOK'
    BY <1>1, <1>2, <1>4, <1>5, IdleNeeds, PutType DEF IInv, TypeOK
  <1>7. OneSessionPerToken'
    BY <1>2 DEF IInv, TypeOK, OneSessionPerToken
  <1>8. EndedStaysEnded'
    BY <1>2, <1>4 DEF IInv, TypeOK, EndedStaysEnded
  <1>9. TargetsExist'
    BY <1>1, <1>4, IdleNeeds, TargetsStay DEF IInv, TypeOK
  <1>10. StandDownsLeaveOne' /\ OnlyCrossingsClose'
    BY <1>1, <1>4, IdleNeeds, StandDownsStay DEF IInv, TypeOK
  <1> QED BY <1>6, <1>7, <1>8, <1>9, <1>10 DEF IInv

LEMMA EndIInv == ASSUME IInv, NEW s \in sessions, EndAdminSession(s) PROVE IInv'
  <1>1. Accounts' = Accounts /\ Enabled' = Enabled
    BY DEF EndAdminSession, Accounts, Enabled
  <1>2. /\ sessions' = sessions \ {s} /\ ended' = ended \cup {t[1] : t \in {s}}
        /\ UNCHANGED <<standing, hash, desks, drawn, crossed>>
    BY DEF EndAdminSession
  <1>3. /\ sessions' \subseteq drawn' \X Accounts' /\ ended' \subseteq drawn'
        /\ OneSessionPerToken' /\ EndedStaysEnded'
    BY <1>1, <1>2, SessionsEnd DEF IInv, TypeOK
  <1>4. TypeOK'
    BY <1>1, <1>2, <1>3 DEF IInv, TypeOK
  <1>5. TargetsExist'
    BY <1>1, <1>2 DEF IInv, TargetsExist
  <1>6. StandDownsLeaveOne' /\ OnlyCrossingsClose'
    BY <1>1, <1>2
    DEF IInv, StandDownsLeaveOne, StandingDown, OnlyCrossingsClose, ConsoleCanBeOpened
  <1> QED BY <1>3, <1>4, <1>5, <1>6 DEF IInv

\* A request accepted on what the roster says: the account is there, and a
\* stand-down that crosses no other sees a colleague.
LEMMA JudgeIInv == ASSUME IInv, NEW d \in Desks, Judge(d) PROVE IInv'
  <1> DEFINE k == [desks[d] EXCEPT !.at = "judged"]
  <1>1. UNCHANGED <<standing, hash, sessions, drawn, ended>>
    BY DEF Judge
  <1>2. Accounts' = Accounts /\ Enabled' = Enabled
    BY <1>1 DEF Accounts, Enabled
  <1>3. desks[d] \in RosterStates
    BY DeskTypes DEF Judge, IInv, TypeOK
  <1>4. /\ k \in DeskStates /\ k.at = "judged" /\ k.ask = desks[d].ask
        /\ k.target = desks[d].target
    BY <1>3 DEF DeskStates, RosterStates, StandingAsks, PasswordAsks
  <1>5. Accepts(desks[d]) => Needs(k) \subseteq Accounts
    <2>1. CASE desks[d].ask \in {"standdown", "restore", "reset"}
      BY <1>3, <1>4, <2>1
      DEF Accepts, MayStandDown, Needs, Accounts, RosterStates, StandingAsks, PasswordAsks
    <2>2. CASE desks[d].ask = "change"
      <3>1. Needs(desks[d]) = {desks[d].target}
        BY <2>2 DEF Needs, Judge
      <3> QED BY <1>4, <2>2, <3>1 DEF IInv, TargetsExist, Needs
    <2>3. CASE desks[d].ask = "add"
      BY <1>4, <2>3 DEF Needs
    <2> QED
      BY <1>3, <2>1, <2>2, <2>3 DEF RosterStates, StandingAsks, PasswordAsks
  <1>6. (Put(d, k) /\ Accepts(desks[d])) \/ Put(d, Idle)
    BY DEF Judge, Finish
  <1>7. Put(d, Idle) \/ (Put(d, k) /\ Accepts(desks[d]) /\ Needs(k) \subseteq Accounts)
    BY <1>5, <1>6
  <1> HIDE DEF k
  <1>8. desks' \in [Desks -> DeskStates] /\ \A e \in Desks \ {d} : desks'[e] = desks[e]
    BY <1>4, <1>7, IdleNeeds, PutType DEF IInv, TypeOK
  <1>9. TypeOK'
    <2>1. crossed' \in BOOLEAN
      BY DEF Judge, IInv, TypeOK
    <2> QED BY <1>1, <1>2, <1>8, <2>1 DEF IInv, TypeOK
  <1>10. TargetsExist'
    BY <1>2, <1>4, <1>7, IdleNeeds, TargetsStay DEF IInv, TypeOK
  <1>11. OneSessionPerToken' /\ EndedStaysEnded'
    BY <1>1 DEF IInv, OneSessionPerToken, EndedStaysEnded
  <1>12. OnlyCrossingsClose'
    BY <1>2 DEF Judge, IInv, OnlyCrossingsClose, ConsoleCanBeOpened
  <1>13. StandDownsLeaveOne'
    <2>1. \A e \in Desks \ {d} : StandingDown(e)' <=> StandingDown(e)
      BY <1>8 DEF StandingDown
    <2>2. CASE ~StandingDown(d)'
      BY <1>2, <1>8, <2>1, <2>2 DEF Judge, IInv, StandDownsLeaveOne
    <2>3. CASE StandingDown(d)'
      <3>1. crossed' \/ \A e \in Desks \ {d} : ~StandingDown(e)
        BY <2>3 DEF Judge
      <3>2. desks'[d] = k /\ Accepts(desks[d]) /\ desks[d].ask = "standdown"
        BY <1>4, <1>7, <2>3, IdleNeeds, PutType DEF StandingDown, IInv, TypeOK
      <3>3. Cardinality(Enabled) > 1 /\ desks[d].target \in Admins
        BY <1>3, <3>2
        DEF Accepts, MayStandDown, RosterStates, StandingAsks, PasswordAsks
      <3>4. Enabled \ {desks'[d].target} # {}
        BY <1>4, <3>2, <3>3, SomebodyElse DEF IInv, TypeOK
      <3>5. CASE crossed'
        BY <3>5 DEF StandDownsLeaveOne
      <3>6. CASE \A e \in Desks \ {d} : ~StandingDown(e)
        BY <1>2, <2>1, <3>4, <3>6 DEF StandDownsLeaveOne
      <3> QED BY <3>1, <3>5, <3>6
    <2> QED BY <2>2, <2>3
  <1> QED BY <1>9, <1>10, <1>11, <1>12, <1>13 DEF IInv

\* The stand-down's own write: uncrossed, it leaves the colleague it counted.
LEMMA StandDownIInv == ASSUME IInv, NEW d \in Desks, StandDown(d) PROVE IInv'
  <1> DEFINE a == desks[d].target
  <1>1. /\ a \in Admins /\ a \in Accounts
        /\ standing' = [standing EXCEPT ![a] = "disabled"]
        /\ Put(d, Idle) /\ UNCHANGED <<hash, drawn, crossed>>
    BY DeskTypes
    DEF StandDown, StandingDown, Finish, IInv, TypeOK, TargetsExist, Needs,
        RosterStates, StandingAsks, PasswordAsks
  <1>2. Accounts' = Accounts /\ Enabled' = Enabled \ {a}
    BY <1>1 DEF Accounts, Enabled, IInv, TypeOK
  <1>3. /\ sessions' \subseteq drawn' \X Accounts' /\ ended' \subseteq drawn'
        /\ OneSessionPerToken' /\ EndedStaysEnded'
    <2> DEFINE gone == SessionsOf(a)
    <2>1. /\ gone \in SUBSET sessions /\ sessions' = sessions \ gone
          /\ ended' = ended \cup {s[1] : s \in gone}
      BY DEF StandDown, End, Without, SessionsOf
    <2> HIDE DEF gone
    <2> QED BY <1>1, <1>2, <2>1, SessionsEnd DEF IInv, TypeOK
  <1>4. desks' \in [Desks -> DeskStates] /\ desks'[d] = Idle
        /\ \A e \in Desks \ {d} : desks'[e] = desks[e]
    BY <1>1, IdleNeeds, PutType DEF IInv, TypeOK
  <1>5. TypeOK'
    <2>1. standing' \in [Admins -> {"none", "enabled", "disabled"}]
      BY <1>1 DEF IInv, TypeOK
    <2>2. \A b \in Admins : hash'[b] = NoHash <=> standing'[b] = "none"
      BY <1>1 DEF IInv, TypeOK, Accounts
    <2> QED BY <1>1, <1>3, <1>4, <2>1, <2>2 DEF IInv, TypeOK
  <1>6. TargetsExist'
    BY <1>1, <1>2, IdleNeeds, TargetsStay DEF IInv, TypeOK
  <1>7. CASE crossed
    BY <1>1, <1>3, <1>5, <1>6, <1>7 DEF IInv, StandDownsLeaveOne, OnlyCrossingsClose
  <1>8. CASE ~crossed
    <2>1. \A e \in Desks : ~StandingDown(e)'
      BY <1>4, <1>8, IdleNeeds DEF StandDown, StandingDown, IInv, StandDownsLeaveOne
    <2>2. Enabled' # {}
      BY <1>2, <1>8 DEF StandDown, IInv, StandDownsLeaveOne
    <2>3. StandDownsLeaveOne' /\ OnlyCrossingsClose'
      BY <2>1, <2>2 DEF StandDownsLeaveOne, OnlyCrossingsClose, ConsoleCanBeOpened
    <2> QED BY <1>3, <1>5, <1>6, <2>3 DEF IInv
  <1> QED BY <1>7, <1>8

LEMMA RestoreIInv == ASSUME IInv, NEW d \in Desks, Restore(d) PROVE IInv'
  <1> DEFINE a == desks[d].target
  <1>1. /\ a \in Admins /\ a \in Accounts
        /\ standing' = [standing EXCEPT ![a] = "enabled"]
        /\ Put(d, Idle) /\ UNCHANGED <<hash, sessions, drawn, ended, crossed>>
    BY DeskTypes
    DEF Restore, Finish, IInv, TypeOK, TargetsExist, Needs,
        RosterStates, StandingAsks, PasswordAsks
  <1>2. Accounts' = Accounts /\ Enabled' = Enabled \cup {a}
    BY <1>1 DEF Accounts, Enabled, IInv, TypeOK
  <1>3. TypeOK'
    <2>1. standing' \in [Admins -> {"none", "enabled", "disabled"}]
      BY <1>1 DEF IInv, TypeOK
    <2>2. \A b \in Admins : hash'[b] = NoHash <=> standing'[b] = "none"
      BY <1>1 DEF IInv, TypeOK, Accounts
    <2> QED BY <1>1, <1>2, <2>1, <2>2, IdleNeeds, PutType DEF IInv, TypeOK
  <1>4. TargetsExist'
    BY <1>1, <1>2, IdleNeeds, TargetsStay DEF IInv, TypeOK
  <1>5. StandDownsLeaveOne' /\ OnlyCrossingsClose'
    BY <1>1, <1>2, IdleNeeds, StandDownsStay DEF IInv, TypeOK
  <1>6. OneSessionPerToken' /\ EndedStaysEnded'
    BY <1>1 DEF IInv, OneSessionPerToken, EndedStaysEnded
  <1> QED BY <1>3, <1>4, <1>5, <1>6 DEF IInv

LEMMA SetAdminPasswordIInv ==
    ASSUME IInv, NEW d \in Desks, SetAdminPassword(d) PROVE IInv'
  <1> DEFINE a == desks[d].target
             kept == IF desks[d].ask = "change" THEN {<<desks[d].token, a>>} ELSE {}
             gone == SessionsOf(a) \ kept
  <1>1. /\ a \in Admins /\ a \in Accounts /\ desks[d].pw \in Passwords
        /\ hash' = [hash EXCEPT ![a] = Fresh(desks[d].pw)]
        /\ Put(d, Idle) /\ UNCHANGED <<standing, drawn, crossed>>
    BY DeskTypes
    DEF SetAdminPassword, Finish, IInv, TypeOK, TargetsExist, Needs,
        RosterStates, StandingAsks, PasswordAsks
  <1>2. Accounts' = Accounts /\ Enabled' = Enabled
    BY <1>1 DEF Accounts, Enabled
  <1>3. /\ gone \in SUBSET sessions /\ sessions' = sessions \ gone
        /\ ended' = ended \cup {s[1] : s \in gone}
    BY DEF SetAdminPassword, End, Without, SessionsOf
  <1> HIDE DEF gone
  <1>4. /\ sessions' \subseteq drawn' \X Accounts' /\ ended' \subseteq drawn'
        /\ OneSessionPerToken' /\ EndedStaysEnded'
    BY <1>1, <1>2, <1>3, SessionsEnd DEF IInv, TypeOK
  <1>5. TypeOK'
    <2>1. /\ hash' \in [Admins -> Hashes]
          /\ \A b \in Admins : hash'[b] = NoHash <=> standing'[b] = "none"
      BY <1>1, HashesExist DEF IInv, TypeOK, Accounts
    <2> QED BY <1>1, <1>2, <1>4, <2>1, IdleNeeds, PutType DEF IInv, TypeOK
  <1>6. TargetsExist'
    BY <1>1, <1>2, IdleNeeds, TargetsStay DEF IInv, TypeOK
  <1>7. StandDownsLeaveOne' /\ OnlyCrossingsClose'
    BY <1>1, <1>2, IdleNeeds, StandDownsStay DEF IInv, TypeOK
  <1> QED BY <1>4, <1>5, <1>6, <1>7 DEF IInv

-----------------------------------------------------------------------------
LEMMA InitIInv == ASSUME Init PROVE IInv
  <1>1. Accounts = {} /\ Enabled = {} /\ \A d \in Desks : desks[d] = Idle
    BY DEF Init, Accounts, Enabled
  <1>2. TypeOK
    BY <1>1, HashesExist, IdleNeeds DEF Init, TypeOK
  <1>3. TargetsExist
    BY <1>1, IdleNeeds DEF TargetsExist
  <1>4. OneSessionPerToken /\ EndedStaysEnded
    BY DEF Init, OneSessionPerToken, EndedStaysEnded
  <1>5. StandDownsLeaveOne /\ OnlyCrossingsClose
    BY <1>1, IdleNeeds
    DEF StandDownsLeaveOne, StandingDown, OnlyCrossingsClose, ConsoleCanBeOpened
  <1> QED BY <1>2, <1>3, <1>4, <1>5 DEF IInv

LEMMA NextIInv == ASSUME IInv, [Next]_vars PROVE IInv'
  <1>1. CASE UNCHANGED vars
    BY <1>1
    DEF vars, IInv, TypeOK, Accounts, Enabled, TargetsExist, OneSessionPerToken,
        EndedStaysEnded, StandDownsLeaveOne, StandingDown, OnlyCrossingsClose,
        ConsoleCanBeOpened
  <1>2. CASE \E d \in Desks, a \in Admins, p \in Passwords :
                 ClaimConsole(d, a, p) \/ FindAdmin(d, a, p)
    BY <1>2, ReadsIInv
  <1>3. CASE \E d \in Desks, s \in sessions, ask \in Roster, a \in Admins, p \in Passwords :
                 Ask(d, s, ask, a, p)
    BY <1>3, ReadsIInv
  <1>4. ASSUME NEW d \in Desks,
               \/ ReadNoAdmin(d) \/ InsertFirstAdmin(d)
               \/ VerifyPassword(d) \/ Rehash(d) \/ StartAdminSession(d)
               \/ Judge(d) \/ StandDown(d) \/ Restore(d) \/ AddAdmin(d)
               \/ SetAdminPassword(d) \/ Stop(d)
        PROVE  IInv'
    BY <1>4, ReadsIInv, InsertFirstAdminIInv, RehashIInv, StartIInv, JudgeIInv,
       StandDownIInv, RestoreIInv, AddAdminIInv, SetAdminPasswordIInv
  <1>5. CASE \E s \in sessions : EndAdminSession(s)
    BY <1>5, EndIInv
  <1>6. CASE RaiseWorkFactor
    BY <1>6, RaiseIInv
  <1> QED BY <1>1, <1>2, <1>3, <1>4, <1>5, <1>6 DEF Next

\* The console's tables and requests keep their types, and an account has a
\* password exactly when it exists, however requests interleave and die.
THEOREM SpecTypeOK == Spec => []TypeOK
  <1>1. Init => IInv BY InitIInv
  <1>2. IInv /\ [Next]_vars => IInv' BY NextIInv
  <1>3. IInv => TypeOK BY DEF IInv
  <1> QED BY <1>1, <1>2, <1>3, PTL DEF Spec

\* A session that was signed out, stood down or ended by a new password never
\* opens the console again.
THEOREM SpecEndedStaysEnded == Spec => []EndedStaysEnded
  <1>1. Init => IInv BY InitIInv
  <1>2. IInv /\ [Next]_vars => IInv' BY NextIInv
  <1>3. IInv => EndedStaysEnded BY DEF IInv
  <1> QED BY <1>1, <1>2, <1>3, PTL DEF Spec

\* Only two stand-downs that cross between their counts and their writes can
\* leave a console with accounts and nobody who may open it.
THEOREM SpecOnlyCrossingsClose == Spec => []OnlyCrossingsClose
  <1>1. Init => IInv BY InitIInv
  <1>2. IInv /\ [Next]_vars => IInv' BY NextIInv
  <1>3. IInv => OnlyCrossingsClose BY DEF IInv
  <1> QED BY <1>1, <1>2, <1>3, PTL DEF Spec

-----------------------------------------------------------------------------
(***************************************************************************)
(* The operator's keys.  A test in progress knows the stored key as long   *)
(* as no write overtook it; a save in progress knows that the platform can *)
(* encrypt, because a restart takes both away.                             *)
(***************************************************************************)
Saving(s) == request[s] # NoRequest /\ request[s].op = "save"
Testing(s) == request[s] # NoRequest /\ request[s].op = "recheck"

RequestsKnow ==
    \A s \in Screens :
      /\ Saving(s) => env.master # NoMaster
      /\ Testing(s) /\ ~request[s].overtaken =>
            row # NoRow /\ row.secret = request[s].key

(* The stored key and its verdict are what was asked for last. *)
KeyStands == IF chosen = NoKey THEN row = NoRow ELSE row # NoRow /\ row.secret = chosen
VerdictStands == row # NoRow /\ ~overtaken => row.about = row.secret
ScreenIsTrue == writer # Nobody => shown[writer] = Status(row)
CapStands == cap = capChosen /\ (cap # NoText => Legal(cap))

KeysInv ==
    KeysTypeOK /\ RequestsKnow /\ KeyStands /\ VerdictStands /\ ScreenIsTrue /\ CapStands

-----------------------------------------------------------------------------
LEMMA KeysStart == KeysInit => KeysInv
<1> SUFFICES ASSUME KeysInit PROVE KeysInv
  OBVIOUS
<1>1. KeysTypeOK
  BY DEF KeysInit, KeysTypeOK
<1>2. RequestsKnow
  BY DEF KeysInit, RequestsKnow, Saving, Testing
<1>3. KeyStands /\ VerdictStands /\ ScreenIsTrue /\ CapStands
  BY DEF KeysInit, KeyStands, VerdictStands, ScreenIsTrue, CapStands
<1> QED
  BY <1>1, <1>2, <1>3 DEF KeysInv

LEMMA StatusTypes ==
    /\ \A r \in Rows : r # NoRow /\ Status(r) \in Statuses
    /\ Status(NoRow) = NoRow
  BY KeysAssumption DEF Status, Rows, Statuses

(* The requests after a write: that of the screen that wrote is done, and a *)
(* test still under way is overtaken.                                       *)
LEMMA OvertakeIsFair ==
    ASSUME KeysTypeOK, NEW s \in Screens
    PROVE  /\ Overtake(s) \in [Screens -> KeyRequests \cup {NoRequest}]
           /\ \A t \in Screens :
                /\ Overtake(s)[t] # NoRequest /\ Overtake(s)[t].op = "save" => Saving(t)
                /\ Overtake(s)[t] # NoRequest /\ Overtake(s)[t].op = "recheck"
                      => Overtake(s)[t].overtaken
<1> SUFFICES ASSUME NEW t \in Screens
             PROVE  /\ Overtake(s)[t] \in KeyRequests \cup {NoRequest}
                    /\ Overtake(s)[t] # NoRequest /\ Overtake(s)[t].op = "save" => Saving(t)
                    /\ Overtake(s)[t] # NoRequest /\ Overtake(s)[t].op = "recheck"
                          => Overtake(s)[t].overtaken
  BY DEF Overtake
<1>1. CASE t = s
  BY <1>1 DEF Overtake
<1>2. CASE t # s /\ Testing(t)
  <2> DEFINE q == [request[t] EXCEPT !.overtaken = TRUE]
  <2>1. Overtake(s)[t] = q
    BY <1>2 DEF Overtake, Testing
  <2>2. request[t] \in KeyRequests
    BY <1>2 DEF KeysTypeOK, Testing
  <2>3. q \in KeyRequests /\ q.op = "recheck" /\ q.overtaken
    BY <1>2, <2>2 DEF KeyRequests, Testing
  <2> HIDE DEF q
  <2> QED
    BY <2>1, <2>3
<1>3. CASE t # s /\ ~Testing(t)
  <2>1. Overtake(s)[t] = request[t]
    BY <1>3 DEF Overtake, Testing
  <2> QED
    BY <1>3, <2>1 DEF KeysTypeOK, Saving, Testing
<1> QED
  BY <1>1, <1>2, <1>3

LEMMA SettingStep ==
    ASSUME KeysInv, NEW text \in Typed \cup {NoText}, SaveSetting(text)
    PROVE  KeysInv'
<1>1. UNCHANGED <<row, env, request, shown, chosen, overtaken, writer>>
  BY DEF SaveSetting
<1>2. cap' = text /\ capChosen' = text /\ (text = NoText \/ Legal(text))
  BY DEF SaveSetting
<1>3. KeysTypeOK' /\ CapStands'
  BY <1>1, <1>2 DEF KeysInv, KeysTypeOK, CapStands
<1>4. RequestsKnow' /\ KeyStands' /\ VerdictStands' /\ ScreenIsTrue'
  BY <1>1 DEF KeysInv, RequestsKnow, Saving, Testing, KeyStands, VerdictStands, ScreenIsTrue, Status
<1> QED
  BY <1>3, <1>4 DEF KeysInv

(* A request begins and nothing else moves. *)
LEMMA BeginStep ==
    ASSUME KeysInv, NEW s \in Screens,
           (\E key \in Keys : BeginSave(s, key)) \/ BeginRecheck(s)
    PROVE  KeysInv'
<1>1. UNCHANGED <<row, env, shown, cap, chosen, overtaken, writer, capChosen>>
  BY DEF BeginSave, BeginRecheck
<1>2. PICK q \in KeyRequests :
        /\ request' = [request EXCEPT ![s] = q]
        /\ q.op = "save" => env.master # NoMaster
        /\ q.op = "recheck" => row # NoRow /\ row.secret = q.key
  <2>1. CASE \E key \in Keys : BeginSave(s, key)
    <3>1. PICK key \in Keys : BeginSave(s, key)
      BY <2>1
    <3> DEFINE q == [op |-> "save", key |-> key, overtaken |-> FALSE]
    <3>2. q \in KeyRequests /\ q.op = "save"
      BY DEF KeyRequests
    <3> QED
      BY <3>1, <3>2 DEF BeginSave
  <2>2. CASE BeginRecheck(s)
    <3> DEFINE q == [op |-> "recheck", key |-> row.secret, overtaken |-> FALSE]
    <3>1. row # NoRow /\ request' = [request EXCEPT ![s] = q]
      BY <2>2 DEF BeginRecheck, Decrypts
    <3>2. row \in Rows
      BY <3>1 DEF KeysInv, KeysTypeOK
    <3>3. q \in KeyRequests /\ q.op = "recheck" /\ q.key = row.secret
      BY <3>2 DEF Rows, KeyRequests
    <3> QED
      BY <3>1, <3>3
  <2> QED
    BY <2>1, <2>2
<1>3. KeysTypeOK'
  BY <1>1, <1>2 DEF KeysInv, KeysTypeOK
<1>4. RequestsKnow'
  BY <1>1, <1>2 DEF KeysInv, KeysTypeOK, RequestsKnow, Saving, Testing
<1>5. KeyStands' /\ VerdictStands' /\ ScreenIsTrue' /\ CapStands'
  BY <1>1 DEF KeysInv, KeyStands, VerdictStands, ScreenIsTrue, CapStands, Status
<1> QED
  BY <1>3, <1>4, <1>5 DEF KeysInv

LEMMA SaveStep ==
    ASSUME KeysInv, NEW s \in Screens, NEW ok \in BOOLEAN, SaveCredential(s, ok)
    PROVE  KeysInv'
<1> DEFINE r == [secret |-> request[s].key, under |-> env.master, ok |-> ok,
                 about |-> request[s].key]
<1>1. /\ row' = r /\ shown' = [shown EXCEPT ![s] = Status(r)]
      /\ request' = Overtake(s) /\ chosen' = request[s].key /\ overtaken' = FALSE
      /\ writer' = s /\ UNCHANGED <<env, cap, capChosen>>
  BY DEF SaveCredential
<1>2. request[s].key \in Keys /\ env.master \in Masters
  <2>1. Saving(s)
    BY DEF SaveCredential, Saving
  <2>2. request[s] \in KeyRequests /\ env.master # NoMaster
    BY <2>1 DEF KeysInv, KeysTypeOK, RequestsKnow, Saving
  <2> QED
    BY <2>2 DEF KeysInv, KeysTypeOK, KeyRequests
<1>3. r \in Rows /\ r.secret = request[s].key /\ r.about = r.secret
  BY <1>2 DEF Rows
<1> HIDE DEF r
<1>4. KeysTypeOK'
  BY <1>1, <1>2, <1>3, StatusTypes, OvertakeIsFair DEF KeysInv, KeysTypeOK
<1>5. RequestsKnow'
  BY <1>1, OvertakeIsFair DEF KeysInv, RequestsKnow, Saving, Testing
<1>6. KeyStands' /\ VerdictStands'
  BY <1>1, <1>2, <1>3, StatusTypes, KeysAssumption DEF KeyStands, VerdictStands
<1>7. ScreenIsTrue' /\ CapStands'
  BY <1>1 DEF KeysInv, KeysTypeOK, ScreenIsTrue, CapStands
<1> QED
  BY <1>4, <1>5, <1>6, <1>7 DEF KeysInv

LEMMA DeleteStep ==
    ASSUME KeysInv, NEW s \in Screens, DeleteCredential(s)
    PROVE  KeysInv'
<1>1. /\ row' = NoRow /\ shown' = [shown EXCEPT ![s] = NoRow]
      /\ request' = Overtake(s) /\ chosen' = NoKey /\ overtaken' = FALSE
      /\ writer' = s /\ UNCHANGED <<env, cap, capChosen>>
  BY DEF DeleteCredential
<1>2. KeysTypeOK'
  BY <1>1, OvertakeIsFair DEF KeysInv, KeysTypeOK
<1>3. RequestsKnow'
  BY <1>1, OvertakeIsFair DEF KeysInv, RequestsKnow, Saving, Testing
<1>4. KeyStands' /\ VerdictStands' /\ ScreenIsTrue' /\ CapStands'
  BY <1>1, StatusTypes DEF KeysInv, KeysTypeOK, KeyStands, VerdictStands, ScreenIsTrue, CapStands
<1> QED
  BY <1>2, <1>3, <1>4 DEF KeysInv

LEMMA VerdictTypes ==
    ASSUME NEW r \in Rows, NEW key \in Keys, NEW ok \in BOOLEAN
    PROVE  /\ WithVerdict(r, key, ok) \in Rows
           /\ WithVerdict(r, key, ok).secret = r.secret
           /\ WithVerdict(r, key, ok).about = key
  BY KeysAssumption DEF WithVerdict, Rows

LEMMA CheckStep ==
    ASSUME KeysInv, NEW s \in Screens, NEW ok \in BOOLEAN, RecordCredentialCheck(s, ok)
    PROVE  KeysInv'
<1> DEFINE r == WithVerdict(row, request[s].key, ok)
<1>1. /\ row' = r /\ shown' = [shown EXCEPT ![s] = Status(r)]
      /\ request' = [request EXCEPT ![s] = NoRequest]
      /\ overtaken' = request[s].overtaken
      /\ writer' = s /\ UNCHANGED <<env, cap, chosen, capChosen>>
  BY DEF RecordCredentialCheck
<1>2. Testing(s)
  BY DEF RecordCredentialCheck, Testing
<1>3. request[s] \in KeyRequests /\ request[s].key \in Keys /\ request[s].overtaken \in BOOLEAN
  BY <1>2 DEF KeysInv, KeysTypeOK, Testing, KeyRequests
<1>4. row = NoRow => r = NoRow
  BY DEF WithVerdict
<1>5. row # NoRow => r \in Rows /\ r # NoRow /\ r.secret = row.secret /\ r.about = request[s].key
  <2> SUFFICES ASSUME row # NoRow
               PROVE  r \in Rows /\ r # NoRow /\ r.secret = row.secret /\ r.about = request[s].key
    OBVIOUS
  <2>1. row \in Rows
    BY DEF KeysInv, KeysTypeOK
  <2>2. r \in Rows /\ r.secret = row.secret /\ r.about = request[s].key
    BY <1>3, <2>1, VerdictTypes
  <2> QED
    BY <2>2, StatusTypes
<1> HIDE DEF r
<1>6. KeysTypeOK'
  BY <1>1, <1>3, <1>4, <1>5, StatusTypes DEF KeysInv, KeysTypeOK
<1>7. RequestsKnow'
  BY <1>1, <1>4, <1>5 DEF KeysInv, KeysTypeOK, RequestsKnow, Saving, Testing
<1>8. KeyStands'
  BY <1>1, <1>4, <1>5 DEF KeysInv, KeyStands
<1>9. VerdictStands'
  BY <1>1, <1>2, <1>4, <1>5 DEF KeysInv, RequestsKnow, VerdictStands
<1>10. ScreenIsTrue' /\ CapStands'
  BY <1>1 DEF KeysInv, KeysTypeOK, ScreenIsTrue, CapStands
<1> QED
  BY <1>6, <1>7, <1>8, <1>9, <1>10 DEF KeysInv

LEMMA LoadStep ==
    ASSUME KeysInv, NEW s \in Screens, Load(s)
    PROVE  KeysInv'
<1>1. /\ shown' = [shown EXCEPT ![s] = Status(row)]
      /\ UNCHANGED <<row, env, request, cap, chosen, overtaken, writer, capChosen>>
  BY DEF Load
<1>2. KeysTypeOK' /\ ScreenIsTrue'
  BY <1>1, StatusTypes DEF KeysInv, KeysTypeOK, ScreenIsTrue, Status
<1>3. RequestsKnow' /\ KeyStands' /\ VerdictStands' /\ CapStands'
  BY <1>1 DEF KeysInv, RequestsKnow, Saving, Testing, KeyStands, VerdictStands, CapStands
<1> QED
  BY <1>2, <1>3 DEF KeysInv

LEMMA RestartStep ==
    ASSUME KeysInv, Restart
    PROVE  KeysInv'
<1>1. KeysTypeOK' /\ RequestsKnow'
  BY DEF Restart, KeysInv, KeysTypeOK, RequestsKnow, Saving, Testing
<1>2. KeyStands' /\ VerdictStands' /\ ScreenIsTrue' /\ CapStands'
  BY DEF Restart, KeysInv, KeyStands, VerdictStands, ScreenIsTrue, CapStands, Status
<1> QED
  BY <1>1, <1>2 DEF KeysInv

LEMMA KeysNextInv == KeysInv /\ [KeysNext]_keyVars => KeysInv'
<1> SUFFICES ASSUME KeysInv, [KeysNext]_keyVars PROVE KeysInv'
  OBVIOUS
<1>1. CASE UNCHANGED keyVars
  BY <1>1 DEF keyVars, KeysInv, KeysTypeOK, RequestsKnow, Saving, Testing, KeyStands,
       VerdictStands, ScreenIsTrue, CapStands, Status
<1>2. CASE KeysNext
  BY <1>2, BeginStep, SaveStep, CheckStep, DeleteStep, LoadStep, SettingStep, RestartStep
     DEF KeysNext
<1> QED
  BY <1>1, <1>2

(* The cap in use, read back. *)
LEMMA CapInUse ==
    ASSUME CapStands
    PROVE  /\ capChosen # NoText => PagesInUse = capChosen
           /\ capChosen = NoText /\ env.cap = NoText => PagesInUse = DefaultCap
           /\ PagesInUse > 0
<1>1. CASE cap # NoText
  BY <1>1 DEF CapStands, Legal, PagesInUse, EffectiveSetting, DefaultCap
<1>2. CASE cap = NoText
  BY <1>2 DEF CapStands, PagesInUse, EffectiveSetting, DefaultCap
<1> QED
  BY <1>1, <1>2

(* Whatever screens, tests, removals and restarts cross, for any number of  *)
(* keys, screens and master keys, the operator's last word stands           *)
(* (src/secrets/store.ts, src/app/admin/settings/actions.ts).               *)
THEOREM SpecOperatorIsObeyed == KeysSpec => []OperatorIsObeyed
<1>1. KeysInv => OperatorIsObeyed
  BY CapInUse DEF KeysInv, KeyStands, VerdictStands, ScreenIsTrue, OperatorIsObeyed
<1> QED
  BY <1>1, KeysStart, KeysNextInv, PTL DEF KeysSpec

(* The state of the settings keeps its types. *)
THEOREM SpecKeysTypeOK == KeysSpec => []KeysTypeOK
<1>1. KeysInv => KeysTypeOK
  BY DEF KeysInv
<1> QED
  BY <1>1, KeysStart, KeysNextInv, PTL DEF KeysSpec

-----------------------------------------------------------------------------
(***************************************************************************)
(* Organisations.  An organisation has one person for ever: whoever claimed *)
(* its id, or the operator for the sandbox.  Sessions and requests carry    *)
(* ids they once read, of organisations that may have gone and been made    *)
(* again meanwhile; since only that person can make it again, nobody else   *)
(* belongs to the organisation a session acts as, and an erasure deletes    *)
(* the account of nobody but the person who asked for it.                   *)
(***************************************************************************)

\* The person and the organisation a request carries.
Carries(k, p, o) ==
    \/ k.at \in {"arriving", "opening", "confirmed"} /\ k.who = p /\ k.org = o
    \/ k.at \in {"claimed", "written"} /\ k.session.who = p /\ k.org = o

\* Somebody's membership, session or request names the organisation.
Names(p, o) ==
    \/ o \in T!ToSet(joined[p])
    \/ \E s \in tSessions : s.who = p /\ s.org = o
    \/ \E d \in Desks : Carries(tDesks[d], p, o)

\* It is drawn, or the sandbox, and one person's.
OneNamesIt ==
    /\ \A p \in T!Everybody, o \in T!AllOrgs :
           Names(p, o) => IF o = SandboxOrg THEN p = Operator ELSE o \in tDrawn
    /\ \A p, q \in T!Everybody, o \in T!AllOrgs : Names(p, o) /\ Names(q, o) => p = q

\* A token belongs to one person, and so does every copy of it.
Holds(k) == k.at \in {"claimed", "written"}

TokensKnown ==
    /\ \A s \in tSessions : s.token \in tDrawn
    /\ \A s, t \in tSessions : s.token = t.token => s.who = t.who
    /\ \A d \in Desks : Holds(tDesks[d]) => tDesks[d].session.token \in tDrawn
    /\ \A s \in tSessions, d \in Desks :
           Holds(tDesks[d]) /\ tDesks[d].session.token = s.token
               => tDesks[d].session.who = s.who

\* A row of an organisation names nobody but a member of it.
WhatItNames == \A n \in named : n[2] \in T!ToSet(joined[n[1]])

\* The foreign keys of sessions, as they stand.
SessionsHaveRows ==
    \A s \in tSessions : s.who \in users /\ (s.org # None => s.org \in orgs)

\* An erasure has read nobody but the person who asked for it.
ErasesTheirOwn ==
    \A d \in Desks :
        tDesks[d].at = "erased" => tDesks[d].members \subseteq {tDesks[d].who}

TenancyInv ==
    /\ T!TypeOK /\ OneNamesIt /\ TokensKnown /\ WhatItNames
    /\ SessionsHaveRows /\ ErasesTheirOwn /\ T!NoAccountLeftBehind

\* Nobody loses an account, or a membership of an organisation that stays...
NobodyIsCut ==
    users \subseteq users' /\ \A o \in orgs' : T!Members(o) \subseteq T!Members(o)'

\* ... but at the end of an erasure they asked for.
CutByTheirOwn ==
    \A p \in T!Everybody :
        p \in users \ users' \/ (\E o \in orgs' : p \in T!Members(o) \ T!Members(o)')
            => \E d \in Desks :
                   tDesks[d].at = "erased" /\ tDesks[d].who = p /\ tDesks'[d] = T!Idle

-----------------------------------------------------------------------------
\* What a request holds at each of its steps.
LEMMA TenancyDesks ==
    ASSUME NEW k \in T!DeskStates
    PROVE  /\ k.at \in {"arriving", "opening"}
                => k.who \in T!Everybody /\ k.org \in T!AllOrgs \cup {None}
           /\ k.at = "opening" => k.who = Operator /\ k.org = SandboxOrg
           /\ k.at \in {"claimed", "written"}
                => k.session \in T!Sessions /\ k.org \in T!AllOrgs /\ k.isNew \in BOOLEAN
           /\ k.at = "confirmed" => k.who \in T!Everybody /\ k.org \in T!AllOrgs
           /\ k.at = "erased" => k.who \in T!Everybody /\ k.members \subseteq T!Everybody
  BY DEF T!DeskStates, T!Idle, T!Everybody, T!AllOrgs

\* Moving on is one of these.
LEMMA TenancyMoves ==
    /\ T!Idle \in T!DeskStates
    /\ \A p \in T!Everybody, o \in T!AllOrgs \cup {None} :
           [at |-> "arriving", who |-> p, org |-> o] \in T!DeskStates
    /\ [at |-> "opening", who |-> Operator, org |-> SandboxOrg] \in T!DeskStates
    /\ \A s \in T!Sessions, o \in T!AllOrgs, b \in BOOLEAN, a \in {"claimed", "written"} :
           [at |-> a, session |-> s, org |-> o, isNew |-> b] \in T!DeskStates
    /\ \A p \in T!Everybody, o \in T!AllOrgs :
           [at |-> "confirmed", who |-> p, org |-> o] \in T!DeskStates
    /\ \A p \in T!Everybody, m \in SUBSET T!Everybody :
           [at |-> "erased", who |-> p, members |-> m] \in T!DeskStates
  BY DEF T!DeskStates

\* A request that moves on with one label changed keeps the rest.
LEMMA Relabelled ==
    ASSUME NEW k \in T!DeskStates
    PROVE  /\ k.at = "claimed"
                => /\ [k EXCEPT !.at = "written"] \in T!DeskStates
                   /\ [k EXCEPT !.at = "written"].at = "written"
                   /\ [k EXCEPT !.at = "written"].org = k.org
                   /\ [k EXCEPT !.at = "written"].session = k.session
           /\ k.at = "opening"
                => /\ [k EXCEPT !.at = "arriving"] \in T!DeskStates
                   /\ [k EXCEPT !.at = "arriving"].at = "arriving"
                   /\ [k EXCEPT !.at = "arriving"].org = k.org
                   /\ [k EXCEPT !.at = "arriving"].who = k.who
  BY DEF T!DeskStates, T!Idle, T!Everybody, T!AllOrgs

-----------------------------------------------------------------------------
(* Memberships in the order they were made. *)

\* One more is one more name, and it is the last.
LEMMA JoinsLast ==
    ASSUME NEW A, NEW m \in Seq(A), NEW o \in A, T!IsInjective(m), o \notin T!ToSet(m)
    PROVE  /\ Append(m, o) \in Seq(A)
           /\ T!IsInjective(Append(m, o))
           /\ T!ToSet(Append(m, o)) = T!ToSet(m) \cup {o}
<1>1. /\ Append(m, o) \in Seq(A)
      /\ Len(Append(m, o)) = Len(m) + 1
      /\ \A i \in 1 .. Len(m) : Append(m, o)[i] = m[i]
      /\ Append(m, o)[Len(m) + 1] = o
  BY AppendProperties
<1>2. /\ DOMAIN m = 1 .. Len(m) /\ Len(m) \in Nat
      /\ DOMAIN Append(m, o) = 1 .. Len(m) + 1
  BY <1>1, LenProperties
<1>3. T!ToSet(Append(m, o)) = T!ToSet(m) \cup {o}
  BY <1>1, <1>2 DEF T!ToSet
<1>4. T!IsInjective(Append(m, o))
  BY <1>1, <1>2 DEF T!IsInjective, T!ToSet
<1> QED BY <1>1, <1>3, <1>4

\* One taken out is one name less, and the others keep their order.
LEMMA LeavesAlone ==
    ASSUME NEW A, NEW m \in Seq(A), NEW o, T!IsInjective(m)
    PROVE  /\ T!Without(m, o) \in Seq(A)
           /\ T!IsInjective(T!Without(m, o))
           /\ T!ToSet(T!Without(m, o)) = T!ToSet(m) \ {o}
<1>1. CASE o \notin T!ToSet(m)
  BY <1>1 DEF T!Without
<1>2. CASE o \in T!ToSet(m)
  <2> DEFINE n == CHOOSE i \in DOMAIN m : m[i] = o
             a == SubSeq(m, 1, n - 1)
             b == SubSeq(m, n + 1, Len(m))
  <2>1. DOMAIN m = 1 .. Len(m) /\ Len(m) \in Nat
    BY LenProperties
  <2>2. n \in 1 .. Len(m) /\ m[n] = o
    BY <1>2, <2>1 DEF T!ToSet
  <2>3. T!Without(m, o) = a \o b
    BY <1>2 DEF T!Without, T!RemoveAt
  <2> HIDE DEF n
  <2>4. \A i \in 1 .. Len(m) : m[i] \in A
    BY <2>1, ElementOfSeq
  <2>5. /\ a \in Seq(A) /\ Len(a) = n - 1
        /\ \A i \in 1 .. n - 1 : a[i] = m[i]
    <3>1. \A i \in 1 .. n - 1 : m[i] \in A
      BY <2>1, <2>2, <2>4
    <3>2. n - 1 \in Int
      BY <2>1, <2>2
    <3>3. /\ SubSeq(m, 1, n - 1) \in Seq(A)
          /\ Len(SubSeq(m, 1, n - 1)) = IF 1 <= n - 1 THEN n - 1 - 1 + 1 ELSE 0
          /\ \A i \in 1 .. n - 1 - 1 + 1 : SubSeq(m, 1, n - 1)[i] = m[1 + i - 1]
      BY <3>1, <3>2, SubSeqProperties
    <3> QED BY <3>3, <2>1, <2>2
  <2>6. /\ b \in Seq(A) /\ Len(b) = Len(m) - n
        /\ \A i \in 1 .. Len(m) - n : b[i] = m[n + i]
    <3>1. \A i \in n + 1 .. Len(m) : m[i] \in A
      BY <2>1, <2>2, <2>4
    <3>2. n + 1 \in Int /\ Len(m) \in Int
      BY <2>1, <2>2
    <3>3. /\ SubSeq(m, n + 1, Len(m)) \in Seq(A)
          /\ Len(SubSeq(m, n + 1, Len(m)))
               = IF n + 1 <= Len(m) THEN Len(m) - (n + 1) + 1 ELSE 0
          /\ \A i \in 1 .. Len(m) - (n + 1) + 1 :
                 SubSeq(m, n + 1, Len(m))[i] = m[n + 1 + i - 1]
      BY <3>1, <3>2, SubSeqProperties
    <3> QED BY <3>3, <2>1, <2>2
  <2> DEFINE c == a \o b
  <2>7. /\ c \in Seq(A) /\ Len(c) = Len(m) - 1
        /\ \A i \in 1 .. n - 1 : c[i] = m[i]
        /\ \A i \in n .. Len(m) - 1 : c[i] = m[i + 1]
    <3> HIDE DEF a, b
    <3>1. /\ a \o b \in Seq(A)
          /\ Len(a \o b) = Len(a) + Len(b)
          /\ \A i \in 1 .. Len(a) + Len(b) :
                 (a \o b)[i] = IF i <= Len(a) THEN a[i] ELSE b[i - Len(a)]
      BY <2>5, <2>6, ConcatProperties
    <3>2. /\ n \in Int /\ 1 <= n /\ n <= Len(m) /\ Len(m) \in Int
          /\ Len(a) = n - 1 /\ Len(b) = Len(m) - n
      BY <2>1, <2>2, <2>5, <2>6
    <3>3. c \in Seq(A) /\ Len(c) = Len(m) - 1
      BY <3>1, <3>2
    <3>4. \A i \in 1 .. n - 1 : c[i] = m[i]
      <4>1. \A i \in 1 .. n - 1 : i \in 1 .. Len(a) + Len(b) /\ i <= Len(a)
        BY <3>2
      <4> QED BY <3>1, <4>1, <2>5
    <3>5. \A i \in n .. Len(m) - 1 : c[i] = m[i + 1]
      <4>1. TAKE i \in n .. Len(m) - 1
      <4>2. /\ i \in 1 .. Len(a) + Len(b) /\ ~(i <= Len(a))
            /\ i - Len(a) \in 1 .. Len(m) - n /\ n + (i - Len(a)) = i + 1
        BY <3>2
      <4>3. c[i] = b[i - Len(a)]
        BY <3>1, <4>2
      <4> QED BY <2>6, <4>2, <4>3
    <3> QED BY <3>3, <3>4, <3>5
  <2> HIDE DEF a, b, c
  <2>8. DOMAIN c = 1 .. Len(m) - 1
    BY <2>7, LenProperties
  <2>9. \A i \in 1 .. Len(m) - 1 :
            /\ i < n => i \in 1 .. Len(m) /\ c[i] = m[i]
            /\ i >= n => i + 1 \in 1 .. Len(m) /\ i + 1 > n /\ c[i] = m[i + 1]
    BY <2>1, <2>2, <2>7
  <2>10. T!IsInjective(c)
    <3> SUFFICES ASSUME NEW i \in 1 .. Len(m) - 1, NEW j \in 1 .. Len(m) - 1, c[i] = c[j]
                 PROVE  i = j
      BY <2>8 DEF T!IsInjective
    <3> DEFINE w(x) == IF x < n THEN x ELSE x + 1
    <3>1. w(i) \in 1 .. Len(m) /\ w(j) \in 1 .. Len(m) /\ m[w(i)] = m[w(j)]
      BY <2>1, <2>2, <2>9
    <3>2. w(i) = w(j)
      BY <3>1, <2>1 DEF T!IsInjective
    <3> QED BY <3>2, <2>1, <2>2
  <2>11. \A j \in 1 .. Len(m) : j # n => \E i \in 1 .. Len(m) - 1 : c[i] = m[j]
    <3>1. TAKE j \in 1 .. Len(m)
    <3>2. HAVE j # n
    <3>3. CASE j < n
      BY <3>3, <2>1, <2>2, <2>7
    <3>4. CASE j > n
      <4>1. j - 1 \in n .. Len(m) - 1 /\ j - 1 + 1 = j
        BY <3>4, <2>1, <2>2
      <4> QED BY <4>1, <2>1, <2>2, <2>7
    <3> QED BY <3>2, <3>3, <3>4, <2>1, <2>2
  <2>12. T!ToSet(c) = T!ToSet(m) \ {o}
    <3>1. \A i \in 1 .. Len(m) - 1 : c[i] \in T!ToSet(m) \ {o}
      BY <2>1, <2>2, <2>9 DEF T!ToSet, T!IsInjective
    <3>2. \A x \in T!ToSet(m) \ {o} : \E i \in 1 .. Len(m) - 1 : c[i] = x
      BY <2>1, <2>2, <2>11 DEF T!ToSet
    <3> QED BY <3>1, <3>2, <2>8 DEF T!ToSet
  <2> QED BY <2>3, <2>7, <2>10, <2>12 DEF c
<1> QED BY <1>1, <1>2

\* The oldest membership is one.
LEMMA OldestIsOne ==
    ASSUME NEW A, NEW m \in Seq(A), m # <<>>
    PROVE  Head(m) \in A /\ Head(m) \in T!ToSet(m)
<1>1. DOMAIN m = 1 .. Len(m) /\ Len(m) \in Nat /\ Len(m) # 0
  BY LenProperties, EmptySeq
<1>2. m[1] \in T!ToSet(m) /\ Head(m) = m[1]
  BY <1>1 DEF T!ToSet
<1> QED BY <1>2, HeadTailProperties

LEMMA NobodyJoined ==
    /\ \A A : <<>> \in Seq(A)
    /\ T!IsInjective(<<>>) /\ T!ToSet(<<>>) = {}
  BY DEF T!IsInjective, T!ToSet

-----------------------------------------------------------------------------
(* What the steps have in common. *)

LEMMA DeskMoves ==
    ASSUME T!TypeOK, NEW d \in Desks, NEW k \in T!DeskStates, T!Put(d, k)
    PROVE  /\ tDesks' \in [Desks -> T!DeskStates]
           /\ tDesks'[d] = k
           /\ \A e \in Desks : e # d => tDesks'[e] = tDesks[e]
  BY DEF T!TypeOK, T!Put

LEMMA OrganisationIsThere ==
    ASSUME T!TypeOK, NEW o \in T!AllOrgs, NEW p \in T!Everybody,
           T!EnsureOrganisation(o, p)
    PROVE  /\ orgs' = orgs \cup {o} /\ orgs' \subseteq T!AllOrgs
           /\ joined' \in [T!Everybody -> Seq(T!AllOrgs)]
           /\ \A q \in T!Everybody : T!IsInjective(joined'[q])
           /\ T!ToSet(joined'[p]) = T!ToSet(joined[p]) \cup {o}
           /\ \A q \in T!Everybody : q # p => joined'[q] = joined[q]
<1>1. joined \in [T!Everybody -> Seq(T!AllOrgs)] /\ \A q \in T!Everybody : T!IsInjective(joined[q])
  BY DEF T!TypeOK
<1>2. orgs' = orgs \cup {o} /\ orgs' \subseteq T!AllOrgs
  BY DEF T!TypeOK, T!EnsureOrganisation
<1>3. CASE o \in T!ToSet(joined[p])
  <2>1. joined' = joined
    BY <1>1, <1>3 DEF T!EnsureOrganisation
  <2> QED BY <1>1, <1>2, <1>3, <2>1
<1>4. CASE o \notin T!ToSet(joined[p])
  <2>1. joined' = [joined EXCEPT ![p] = Append(joined[p], o)]
    BY <1>4 DEF T!EnsureOrganisation
  <2>2. /\ Append(joined[p], o) \in Seq(T!AllOrgs)
        /\ T!IsInjective(Append(joined[p], o))
        /\ T!ToSet(Append(joined[p], o)) = T!ToSet(joined[p]) \cup {o}
    BY <1>1, <1>4, JoinsLast
  <2>3. joined'[p] = Append(joined[p], o) /\ \A q \in T!Everybody : q # p => joined'[q] = joined[q]
    BY <1>1, <2>1
  <2>4. joined' \in [T!Everybody -> Seq(T!AllOrgs)]
    BY <1>1, <2>1, <2>2
  <2>5. \A q \in T!Everybody : T!IsInjective(joined'[q])
    BY <1>1, <2>2, <2>3, Zenon
  <2> QED BY <1>2, <2>2, <2>3, <2>4, <2>5
<1> QED BY <1>3, <1>4

LEMMA OrganisationIsGone ==
    ASSUME T!TypeOK, NEW o \in T!AllOrgs, T!DeleteOrganisation(o)
    PROVE  /\ orgs' = orgs \ {o} /\ orgs' \subseteq T!AllOrgs
           /\ joined' \in [T!Everybody -> Seq(T!AllOrgs)]
           /\ \A q \in T!Everybody :
                  /\ T!IsInjective(joined'[q])
                  /\ T!ToSet(joined'[q]) = T!ToSet(joined[q]) \ {o}
           /\ named' = {n \in named : n[2] # o} /\ named' \subseteq T!Everybody \X T!AllOrgs
           /\ tSessions' = {s \in tSessions : s.org # o} /\ tSessions' \subseteq T!Sessions
<1>1. joined \in [T!Everybody -> Seq(T!AllOrgs)] /\ \A q \in T!Everybody : T!IsInjective(joined[q])
  BY DEF T!TypeOK
<1>2. \A q \in T!Everybody : /\ T!Without(joined[q], o) \in Seq(T!AllOrgs)
                             /\ T!IsInjective(T!Without(joined[q], o))
                             /\ T!ToSet(T!Without(joined[q], o)) = T!ToSet(joined[q]) \ {o}
  BY <1>1, LeavesAlone
<1>3. joined' = [q \in T!Everybody |-> T!Without(joined[q], o)]
  BY DEF T!DeleteOrganisation
<1>4. /\ joined' \in [T!Everybody -> Seq(T!AllOrgs)]
      /\ \A q \in T!Everybody : joined'[q] = T!Without(joined[q], o)
  BY <1>2, <1>3
<1>5. \A q \in T!Everybody : /\ T!IsInjective(joined'[q])
                             /\ T!ToSet(joined'[q]) = T!ToSet(joined[q]) \ {o}
  BY <1>2, <1>4, Zenon
<1> QED BY <1>4, <1>5 DEF T!TypeOK, T!DeleteOrganisation, T!SessionsOutside

\* No new name: whatever is named was.
LEMMA NamesStay ==
    ASSUME OneNamesIt, tDrawn \subseteq tDrawn',
           \A p \in T!Everybody, o \in T!AllOrgs : Names(p, o)' => Names(p, o)
    PROVE  OneNamesIt'
<1>1. \A p \in T!Everybody, o \in T!AllOrgs :
          Names(p, o)' => IF o = SandboxOrg THEN p = Operator ELSE o \in tDrawn'
  BY DEF OneNamesIt
<1>2. \A p, q \in T!Everybody, o \in T!AllOrgs : Names(p, o)' /\ Names(q, o)' => p = q
  BY DEF OneNamesIt
<1>3. (T!Everybody)' = T!Everybody /\ (T!AllOrgs)' = T!AllOrgs
  BY DEF T!Everybody, T!AllOrgs
<1> QED BY <1>1, <1>2, <1>3 DEF OneNamesIt

\* A request that moves and touches no row: what it carries was named before.
LEMMA OnlyCarries ==
    ASSUME TenancyInv, NEW d \in Desks, NEW k \in T!DeskStates, T!Put(d, k),
           UNCHANGED <<joined, tSessions>>, tDrawn \subseteq tDrawn',
           \A p \in T!Everybody, o \in T!AllOrgs : Carries(k, p, o) => Names(p, o)
    PROVE  OneNamesIt'
<1>1. tDesks'[d] = k /\ \A e \in Desks : e # d => tDesks'[e] = tDesks[e]
  BY DeskMoves DEF TenancyInv
<1>2. ASSUME NEW p \in T!Everybody, NEW o \in T!AllOrgs, Names(p, o)' PROVE Names(p, o)
  <2>1. CASE \E e \in Desks : Carries(tDesks'[e], p, o)
    BY <1>1, <2>1 DEF Names
  <2>3. CASE o \in T!ToSet(joined'[p]) \/ \E s \in tSessions' : s.who = p /\ s.org = o
    BY <2>3 DEF Names
  <2> QED BY <1>2, <2>1, <2>3 DEF Names, Carries
<1> QED BY <1>2, NamesStay DEF TenancyInv

\* A request that moves with a session it has read, or had.
LEMMA OnlyHolds ==
    ASSUME TenancyInv, NEW d \in Desks, NEW k \in T!DeskStates, T!Put(d, k),
           UNCHANGED tSessions, tDrawn \subseteq tDrawn',
           Holds(k) => \/ k.session \in tSessions
                       \/ Holds(tDesks[d]) /\ k.session = tDesks[d].session
    PROVE  TokensKnown'
<1>1. tDesks'[d] = k /\ \A e \in Desks : e # d => tDesks'[e] = tDesks[e]
  BY DeskMoves DEF TenancyInv
<1>2. Holds(k) => /\ k.session.token \in tDrawn
                  /\ \A s \in tSessions : k.session.token = s.token => k.session.who = s.who
  BY DEF TenancyInv, TokensKnown
<1> QED BY <1>1, <1>2 DEF TenancyInv, TokensKnown, Holds

\* No row changes, but for an account more.
LEMMA SameRows ==
    ASSUME TenancyInv, UNCHANGED <<orgs, joined, named, tSessions>>, users \subseteq users'
    PROVE  WhatItNames' /\ SessionsHaveRows'
  BY DEF TenancyInv, WhatItNames, SessionsHaveRows

\* A request that is in no erasure moves: whoever was owed is.
LEMMA StillOwed ==
    ASSUME TenancyInv, NEW d \in Desks, NEW k \in T!DeskStates, T!Put(d, k),
           tDesks[d].at # "erased", k.at # "erased", owed' = owed
    PROVE  T!NoAccountLeftBehind' /\ ErasesTheirOwn'
<1>1. tDesks'[d] = k /\ \A e \in Desks : e # d => tDesks'[e] = tDesks[e]
  BY DeskMoves DEF TenancyInv
<1> QED BY <1>1 DEF TenancyInv, T!NoAccountLeftBehind, ErasesTheirOwn

-----------------------------------------------------------------------------
(* One lemma per step. *)

LEMMA TenancyStarts ==
    ASSUME T!NamesAssumption, T!Init PROVE TenancyInv
<1>1. T!TypeOK
  BY NobodyJoined, TenancyMoves DEF T!Init, T!TypeOK
<1>2. \A p \in T!Everybody, o \in T!AllOrgs : ~Names(p, o)
  BY NobodyJoined DEF T!Init, Names, Carries, T!Idle
<1>3. OneNamesIt
  BY <1>2 DEF OneNamesIt
<1> QED
  BY <1>1, <1>3 DEF TenancyInv, T!Init, TokensKnown, WhatItNames, Holds, T!Idle,
     SessionsHaveRows, ErasesTheirOwn, T!NoAccountLeftBehind

LEMMA SignUpKeeps ==
    ASSUME T!NamesAssumption, TenancyInv, NEW d \in Desks, NEW p \in People, T!SignUp(d, p)
    PROVE  TenancyInv'
<1> DEFINE k == [at |-> "arriving", who |-> p, org |-> None]
<1>1. /\ k \in T!DeskStates /\ ~Holds(k) /\ T!Put(d, k) /\ tDesks[d].at # "erased"
      /\ k.at # "erased" /\ UNCHANGED <<orgs, joined, named, tSessions, owed>>
      /\ users' = users \cup {p} /\ tDrawn' = tDrawn \cup {p} /\ p \in T!Everybody
  <2>1. p \in T!Everybody
    BY DEF T!Everybody
  <2>2. k \in T!DeskStates
    BY <2>1, TenancyMoves
  <2> QED BY <2>1, <2>2 DEF T!SignUp, T!Idle, Holds
<1>2. \A q \in T!Everybody, o \in T!AllOrgs : ~Carries(k, q, o)
  BY DEF Carries, T!NamesAssumption, T!AllOrgs
<1> HIDE DEF k
<1>3. T!TypeOK'
  BY <1>1, DeskMoves DEF TenancyInv, T!TypeOK
<1>4. OneNamesIt'
  BY <1>1, <1>2, OnlyCarries
<1>5. TokensKnown'
  BY <1>1, OnlyHolds
<1> QED BY <1>1, <1>3, <1>4, <1>5, SameRows, StillOwed DEF TenancyInv

LEMMA SignInKeeps ==
    ASSUME T!NamesAssumption, TenancyInv, NEW d \in Desks, NEW p \in People, T!SignIn(d, p)
    PROVE  TenancyInv'
<1> DEFINE k == [at |-> "arriving", who |-> p, org |-> T!FirstOrganisation(p)]
<1>1. /\ p \in T!Everybody
      /\ T!FirstOrganisation(p) \in T!AllOrgs \cup {None}
      /\ T!FirstOrganisation(p) \in T!AllOrgs
            => T!FirstOrganisation(p) \in T!ToSet(joined[p])
  <2>1. p \in T!Everybody /\ joined[p] \in Seq(T!AllOrgs)
    BY DEF T!Everybody, TenancyInv, T!TypeOK
  <2>2. CASE joined[p] = <<>>
    BY <2>1, <2>2 DEF T!FirstOrganisation, T!NamesAssumption, T!AllOrgs
  <2>3. CASE joined[p] # <<>>
    BY <2>1, <2>3, OldestIsOne DEF T!FirstOrganisation
  <2> QED BY <2>1, <2>2, <2>3
<1>2. /\ k \in T!DeskStates /\ ~Holds(k) /\ T!Put(d, k) /\ tDesks[d].at # "erased"
      /\ k.at # "erased" /\ UNCHANGED <<users, orgs, joined, named, tSessions, tDrawn, owed>>
  <2>1. k \in T!DeskStates
    BY <1>1, TenancyMoves
  <2> QED BY <2>1 DEF T!SignIn, T!Idle, Holds
<1>3. \A q \in T!Everybody, o \in T!AllOrgs : Carries(k, q, o) => Names(q, o)
  BY <1>1 DEF Carries, Names
<1> HIDE DEF k
<1>4. T!TypeOK'
  BY <1>2, DeskMoves DEF TenancyInv, T!TypeOK
<1>5. OneNamesIt'
  BY <1>2, <1>3, OnlyCarries
<1>6. TokensKnown'
  BY <1>2, OnlyHolds
<1> QED BY <1>2, <1>4, <1>5, <1>6, SameRows, StillOwed DEF TenancyInv

LEMMA StartSessionKeeps ==
    ASSUME T!NamesAssumption, TenancyInv, NEW d \in Desks, T!StartSession(d)
    PROVE  TenancyInv'
<1> DEFINE k == tDesks[d]
           p == k.who
           o == k.org
<1>1. /\ k \in T!DeskStates /\ k.at = "arriving"
      /\ p \in T!Everybody /\ o \in T!AllOrgs \cup {None}
      /\ T!Put(d, T!Idle) /\ T!Idle \in T!DeskStates /\ ~Holds(T!Idle) /\ T!Idle.at # "erased"
      /\ UNCHANGED <<users, orgs, joined, named, owed>>
      /\ tDesks'[d] = T!Idle /\ \A e \in Desks : e # d => tDesks'[e] = tDesks[e]
      /\ tDesks' \in [Desks -> T!DeskStates]
  <2>1. /\ k \in T!DeskStates /\ k.at = "arriving"
        /\ T!Put(d, T!Idle) /\ UNCHANGED <<users, orgs, joined, named, owed>>
    BY DEF T!StartSession, T!Finish, TenancyInv, T!TypeOK
  <2> QED BY <2>1, TenancyDesks, TenancyMoves, DeskMoves DEF TenancyInv, Holds, T!Idle
<1>2. o \in T!AllOrgs => Names(p, o)
  BY <1>1 DEF Names, Carries
<1>3. \A q \in T!Everybody, x \in T!AllOrgs : ~Carries(T!Idle, q, x)
  BY DEF Carries, T!Idle
<1>4. T!NoAccountLeftBehind' /\ ErasesTheirOwn'
  BY <1>1, StillOwed
<1>5. CASE UNCHANGED <<tSessions, tDrawn>>
  <2>1. T!TypeOK'
    BY <1>1, <1>5 DEF TenancyInv, T!TypeOK
  <2>2. OneNamesIt' /\ TokensKnown'
    BY <1>1, <1>3, <1>5, OnlyCarries, OnlyHolds
  <2> QED BY <1>1, <1>4, <1>5, <2>1, <2>2, SameRows DEF TenancyInv
<1>6. ASSUME NEW t \in Tokens \ tDrawn, T!Referenced(p, o),
             tSessions' = tSessions \cup {[token |-> t, who |-> p, org |-> o]},
             tDrawn' = tDrawn \cup {t}
      PROVE  TenancyInv'
  <2> DEFINE s == [token |-> t, who |-> p, org |-> o]
  <2>1. s \in T!Sessions /\ s.token = t /\ s.who = p /\ s.org = o
    BY <1>1 DEF T!Sessions
  <2>2. p \in users /\ (o # None => o \in orgs /\ o \in T!AllOrgs)
    BY <1>1, <1>6 DEF T!Referenced
  <2> HIDE DEF s, k
  <2>3. T!TypeOK'
    BY <1>1, <1>6, <2>1 DEF TenancyInv, T!TypeOK, s
  <2>4. OneNamesIt'
    <3>1. ASSUME NEW q \in T!Everybody, NEW x \in T!AllOrgs, Names(q, x)' PROVE Names(q, x)
      <4>1. CASE \E e \in Desks : Carries(tDesks'[e], q, x)
        BY <1>1, <1>3, <4>1 DEF Names
      <4>2. CASE \E z \in tSessions' : z.who = q /\ z.org = x
        BY <1>1, <1>2, <1>6, <2>1, <4>2 DEF Names, s
      <4>3. CASE x \in T!ToSet(joined'[q])
        BY <1>1, <4>3 DEF Names
      <4> QED BY <3>1, <4>1, <4>2, <4>3 DEF Names, Carries
    <3> QED BY <1>6, <3>1, NamesStay DEF TenancyInv
  <2>5. TokensKnown'
    <3>1. \A z \in tSessions : z.token # t
      BY DEF TenancyInv, TokensKnown
    <3>2. \A e \in Desks : Holds(tDesks'[e]) =>
              /\ e # d /\ Holds(tDesks[e]) /\ tDesks'[e] = tDesks[e]
              /\ tDesks[e].session.token # t
      BY <1>1 DEF TenancyInv, TokensKnown
    <3>3. tSessions' = tSessions \cup {s}
      BY <1>6 DEF s
    <3> QED BY <3>1, <3>2, <3>3, <1>6, <2>1 DEF TenancyInv, TokensKnown
  <2>6. SessionsHaveRows'
    BY <1>1, <1>6, <2>1, <2>2 DEF TenancyInv, SessionsHaveRows, s
  <2>7. WhatItNames'
    BY <1>1 DEF TenancyInv, WhatItNames
  <2> QED BY <1>4, <2>3, <2>4, <2>5, <2>6, <2>7 DEF TenancyInv
<1> QED BY <1>5, <1>6 DEF T!StartSession

LEMMA EndSessionKeeps ==
    ASSUME TenancyInv, NEW s \in tSessions, T!EndSession(s)
    PROVE  TenancyInv'
<1>1. /\ tSessions' = tSessions \ {s}
      /\ UNCHANGED <<users, orgs, joined, named, tDesks, tDrawn, owed>>
  BY DEF T!EndSession
<1>2. T!TypeOK'
  BY <1>1 DEF TenancyInv, T!TypeOK
<1>3. \A p \in T!Everybody, o \in T!AllOrgs : Names(p, o)' => Names(p, o)
  BY <1>1 DEF Names
<1>4. OneNamesIt'
  BY <1>1, <1>3, NamesStay DEF TenancyInv
<1> QED
  BY <1>1, <1>2, <1>4 DEF TenancyInv, TokensKnown, WhatItNames, SessionsHaveRows,
     ErasesTheirOwn, T!NoAccountLeftBehind

LEMMA ClaimKeeps ==
    ASSUME T!NamesAssumption, TenancyInv, NEW d \in Desks, NEW s \in tSessions,
           T!ClaimOrganisation(d, s)
    PROVE  TenancyInv'
<1>1. PICK o \in IF s.org # None THEN {s.org} ELSE Orgs \ tDrawn :
          /\ tDrawn' = tDrawn \cup {o}
          /\ T!Put(d, [at |-> "claimed", session |-> s, org |-> o, isNew |-> s.org = None])
  BY DEF T!ClaimOrganisation
<1> DEFINE k == [at |-> "claimed", session |-> s, org |-> o, isNew |-> s.org = None]
<1>2. /\ s \in T!Sessions /\ s.who \in T!Everybody /\ s.org \in T!AllOrgs \cup {None}
      /\ tDesks[d].at # "erased"
      /\ UNCHANGED <<users, orgs, joined, named, tSessions, owed>>
  BY DEF T!ClaimOrganisation, TenancyInv, T!TypeOK, T!Sessions, T!Idle
<1>3. o \in T!AllOrgs
  BY <1>2 DEF T!AllOrgs
<1>4. k \in T!DeskStates
  <2>1. (s.org = None) \in BOOLEAN
    OBVIOUS
  <2> QED BY <1>2, <1>3, <2>1, TenancyMoves
<1>5. T!Put(d, k) /\ k.at = "claimed" /\ k.session = s /\ k.org = o
  BY <1>1
<1>6. tDrawn \subseteq tDrawn' /\ o \in tDrawn'
  BY <1>1
<1> HIDE DEF k
<1>7. /\ tDesks'[d] = k /\ \A e \in Desks : e # d => tDesks'[e] = tDesks[e]
      /\ tDesks' \in [Desks -> T!DeskStates]
  BY <1>4, <1>5, DeskMoves DEF TenancyInv
<1>8. T!TypeOK'
  BY <1>1, <1>2, <1>3, <1>7 DEF TenancyInv, T!TypeOK
<1>9. TokensKnown'
  BY <1>2, <1>4, <1>5, <1>6, OnlyHolds
<1>10. \A q \in T!Everybody, x \in T!AllOrgs : Carries(k, q, x) => q = s.who /\ x = o
  BY <1>5 DEF Carries
<1>11. CASE s.org # None
  <2>1. Names(s.who, o) /\ o = s.org
    BY <1>1, <1>2, <1>11 DEF Names
  <2>2. OneNamesIt'
    BY <1>2, <1>4, <1>5, <1>6, <1>10, <2>1, OnlyCarries
  <2> QED BY <1>2, <1>4, <1>5, <1>8, <1>9, <2>2, SameRows, StillOwed DEF TenancyInv
<1>12. CASE s.org = None
  <2>1. o \in Orgs /\ o \notin tDrawn /\ o # SandboxOrg
    BY <1>1, <1>12 DEF T!NamesAssumption
  <2>2. \A q \in T!Everybody : ~Names(q, o)
    BY <1>3, <2>1 DEF TenancyInv, OneNamesIt
  <2>3. ASSUME NEW q \in T!Everybody, NEW x \in T!AllOrgs, Names(q, x)'
        PROVE  Names(q, x) \/ (q = s.who /\ x = o)
    <3>1. CASE \E e \in Desks : Carries(tDesks'[e], q, x)
      BY <1>7, <1>10, <3>1 DEF Names
    <3>2. CASE x \in T!ToSet(joined'[q]) \/ \E z \in tSessions' : z.who = q /\ z.org = x
      BY <1>2, <3>2 DEF Names
    <3> QED BY <2>3, <3>1, <3>2 DEF Names, Carries
  <2>4. \A q \in T!Everybody, x \in T!AllOrgs :
            Names(q, x)' => IF x = SandboxOrg THEN q = Operator ELSE x \in tDrawn'
    BY <1>6, <2>1, <2>3 DEF TenancyInv, OneNamesIt
  <2>5. \A q, r \in T!Everybody, x \in T!AllOrgs : Names(q, x)' /\ Names(r, x)' => q = r
    BY <2>2, <2>3 DEF TenancyInv, OneNamesIt
  <2>6. OneNamesIt'
    BY <2>4, <2>5 DEF OneNamesIt, T!Everybody, T!AllOrgs
  <2> QED BY <1>2, <1>4, <1>5, <1>8, <1>9, <2>6, SameRows, StillOwed DEF TenancyInv
<1> QED BY <1>11, <1>12

\* A person joins an organisation a request of theirs carries: nothing else
\* is named, and everybody who was a member is.
LEMMA JoiningKeeps ==
    ASSUME TenancyInv, NEW d \in Desks, NEW k \in T!DeskStates, T!Put(d, k),
           NEW p \in T!Everybody, NEW o \in T!AllOrgs, T!EnsureOrganisation(o, p),
           Names(p, o), UNCHANGED <<users, tSessions, tDrawn, owed>>,
           tDesks[d].at # "erased", k.at # "erased",
           named \subseteq named', named' \subseteq named \cup {<<p, o>>},
           \A q \in T!Everybody, x \in T!AllOrgs : Carries(k, q, x) => q = p /\ x = o,
           Holds(k) => Holds(tDesks[d]) /\ k.session = tDesks[d].session
    PROVE  TenancyInv'
<1>1. /\ orgs' = orgs \cup {o} /\ orgs' \subseteq T!AllOrgs
      /\ joined' \in [T!Everybody -> Seq(T!AllOrgs)]
      /\ \A q \in T!Everybody : T!IsInjective(joined'[q])
      /\ T!ToSet(joined'[p]) = T!ToSet(joined[p]) \cup {o}
      /\ \A q \in T!Everybody : q # p => joined'[q] = joined[q]
  BY OrganisationIsThere DEF TenancyInv
<1>2. /\ tDesks'[d] = k /\ \A e \in Desks : e # d => tDesks'[e] = tDesks[e]
      /\ tDesks' \in [Desks -> T!DeskStates]
  BY DeskMoves DEF TenancyInv
<1>3. \A q \in T!Everybody :
          /\ T!ToSet(joined[q]) \subseteq T!ToSet(joined'[q])
          /\ \A x \in T!ToSet(joined'[q]) : x \in T!ToSet(joined[q]) \/ (q = p /\ x = o)
  BY <1>1
<1>4. T!TypeOK'
  <2>1. <<p, o>> \in T!Everybody \X T!AllOrgs
    OBVIOUS
  <2> QED BY <1>1, <1>2, <2>1 DEF TenancyInv, T!TypeOK
<1>5. OneNamesIt'
  <2>1. ASSUME NEW q \in T!Everybody, NEW x \in T!AllOrgs, Names(q, x)' PROVE Names(q, x)
    <3>1. CASE \E e \in Desks : Carries(tDesks'[e], q, x)
      BY <1>2, <3>1 DEF Names
    <3>2. CASE x \in T!ToSet(joined'[q])
      BY <1>3, <3>2 DEF Names
    <3>3. CASE \E z \in tSessions' : z.who = q /\ z.org = x
      BY <3>3 DEF Names
    <3> QED BY <2>1, <3>1, <3>2, <3>3 DEF Names, Carries
  <2> QED BY <2>1, NamesStay DEF TenancyInv
<1>6. TokensKnown'
  BY OnlyHolds
<1>7. WhatItNames'
  <2>1. \A n \in named : n[1] \in T!Everybody
    BY DEF TenancyInv, T!TypeOK
  <2>2. \A n \in named' : n \in named \/ (n[1] = p /\ n[2] = o)
    OBVIOUS
  <2> QED BY <1>1, <1>3, <2>1, <2>2 DEF TenancyInv, WhatItNames
<1>8. SessionsHaveRows'
  BY <1>1 DEF TenancyInv, SessionsHaveRows
<1>9. T!NoAccountLeftBehind' /\ ErasesTheirOwn'
  BY StillOwed
<1> QED BY <1>4, <1>5, <1>6, <1>7, <1>8, <1>9 DEF TenancyInv

LEMMA WriteKeeps ==
    ASSUME TenancyInv, NEW d \in Desks, NEW byHand \in BOOLEAN, T!WriteOrganisation(d, byHand)
    PROVE  TenancyInv'
<1> DEFINE k == tDesks[d]
           p == k.session.who
           o == k.org
           j == [k EXCEPT !.at = "written"]
<1>1. /\ k \in T!DeskStates /\ k.at = "claimed" /\ k.session \in T!Sessions
      /\ p \in T!Everybody /\ o \in T!AllOrgs
      /\ UNCHANGED <<users, tSessions, tDrawn, owed>>
  <2>1. k \in T!DeskStates /\ k.at = "claimed" /\ UNCHANGED <<users, tSessions, tDrawn, owed>>
    BY DEF T!WriteOrganisation, TenancyInv, T!TypeOK
  <2> QED BY <2>1, TenancyDesks DEF T!Sessions
<1>2. Names(p, o)
  BY <1>1 DEF Names, Carries
<1>3. CASE p \notin users
  <2>1. T!Put(d, T!Idle) /\ UNCHANGED <<orgs, joined, named>>
    BY <1>3 DEF T!WriteOrganisation, T!Finish
  <2>2. T!Idle \in T!DeskStates /\ ~Holds(T!Idle) /\ T!Idle.at # "erased"
        /\ \A q \in T!Everybody, x \in T!AllOrgs : ~Carries(T!Idle, q, x)
    BY TenancyMoves DEF T!Idle, Holds, Carries
  <2>3. T!TypeOK'
    BY <1>1, <2>1, <2>2, DeskMoves DEF TenancyInv, T!TypeOK
  <2> QED BY <1>1, <2>1, <2>2, <2>3, OnlyCarries, OnlyHolds, SameRows, StillOwed DEF TenancyInv
<1>4. CASE p \in users
  <2>1. /\ T!EnsureOrganisation(o, p) /\ T!Put(d, j)
        /\ named' = named \cup IF byHand THEN {<<p, o>>} ELSE {}
    BY <1>4 DEF T!WriteOrganisation
  <2>2. j \in T!DeskStates /\ j.at = "written" /\ j.org = o /\ j.session = k.session
    BY <1>1, Relabelled
  <2>3. Holds(k) /\ \A q \in T!Everybody, x \in T!AllOrgs : Carries(j, q, x) => q = p /\ x = o
    BY <1>1, <2>2 DEF Holds, Carries
  <2>4. named \subseteq named' /\ named' \subseteq named \cup {<<p, o>>}
    BY <2>1
  <2>5. UNCHANGED <<users, tSessions, tDrawn, owed>> /\ k.at # "erased"
    BY <1>1
  <2> HIDE DEF j
  <2> QED BY <1>1, <1>2, <2>1, <2>2, <2>3, <2>4, <2>5, JoiningKeeps
<1> QED BY <1>3, <1>4

LEMMA EnsureSandboxKeeps ==
    ASSUME TenancyInv, NEW d \in Desks, T!EnsureSandbox(d)
    PROVE  TenancyInv'
<1> DEFINE k == tDesks[d]
           j == [k EXCEPT !.at = "arriving"]
<1>1. k \in T!DeskStates /\ k.at = "opening"
      /\ UNCHANGED <<users, named, tSessions, tDrawn, owed>>
  BY DEF T!EnsureSandbox, TenancyInv, T!TypeOK
<1>2. CASE Operator \notin users
  <2>1. T!Put(d, T!Idle) /\ UNCHANGED <<orgs, joined>>
    BY <1>2 DEF T!EnsureSandbox, T!Finish
  <2>2. T!Idle \in T!DeskStates /\ ~Holds(T!Idle) /\ T!Idle.at # "erased"
        /\ \A q \in T!Everybody, x \in T!AllOrgs : ~Carries(T!Idle, q, x)
    BY TenancyMoves DEF T!Idle, Holds, Carries
  <2>3. T!TypeOK'
    BY <1>1, <2>1, <2>2, DeskMoves DEF TenancyInv, T!TypeOK
  <2> QED BY <1>1, <2>1, <2>2, <2>3, OnlyCarries, OnlyHolds, SameRows, StillOwed DEF TenancyInv
<1>3. CASE Operator \in users
  <2>1. T!EnsureOrganisation(SandboxOrg, Operator) /\ T!Put(d, j)
    BY <1>3 DEF T!EnsureSandbox
  <2>2. j \in T!DeskStates /\ j.at = "arriving" /\ j.org = k.org /\ j.who = k.who
    BY <1>1, Relabelled
  <2>3. k.who = Operator /\ k.org = SandboxOrg
    BY <1>1, TenancyDesks
  <2>4. Operator \in T!Everybody /\ SandboxOrg \in T!AllOrgs
    BY DEF T!Everybody, T!AllOrgs
  <2>5. Names(Operator, SandboxOrg) /\ ~Holds(j)
        /\ \A q \in T!Everybody, x \in T!AllOrgs :
               Carries(j, q, x) => q = Operator /\ x = SandboxOrg
    BY <1>1, <2>2, <2>3 DEF Names, Carries, Holds
  <2>6. /\ UNCHANGED <<users, tSessions, tDrawn, owed>> /\ k.at # "erased"
        /\ named \subseteq named' /\ named' \subseteq named \cup {<<Operator, SandboxOrg>>}
    BY <1>1
  <2> HIDE DEF j
  <2> QED BY <1>1, <2>1, <2>2, <2>4, <2>5, <2>6, JoiningKeeps
<1> QED BY <1>2, <1>3

LEMMA CommitKeeps ==
    ASSUME TenancyInv, NEW d \in Desks, T!CommitOrganisation(d)
    PROVE  TenancyInv'
<1> DEFINE k == tDesks[d]
           o == k.org
           Pointed(s) == IF s.token = k.session.token THEN [s EXCEPT !.org = o] ELSE s
<1>1. /\ k \in T!DeskStates /\ k.at = "written" /\ k.session \in T!Sessions
      /\ o \in T!AllOrgs /\ k.at # "erased" /\ T!Idle.at # "erased"
      /\ T!Put(d, T!Idle) /\ T!Idle \in T!DeskStates /\ ~Holds(T!Idle) /\ T!Idle.at # "erased"
      /\ \A q \in T!Everybody, x \in T!AllOrgs : ~Carries(T!Idle, q, x)
      /\ UNCHANGED <<users, orgs, joined, named, tDrawn, owed>>
      /\ tDesks'[d] = T!Idle /\ \A e \in Desks : e # d => tDesks'[e] = tDesks[e]
      /\ tDesks' \in [Desks -> T!DeskStates]
  <2>1. /\ k \in T!DeskStates /\ k.at = "written" /\ T!Put(d, T!Idle)
        /\ UNCHANGED <<users, orgs, joined, named, tDrawn, owed>>
    BY DEF T!CommitOrganisation, T!Finish, TenancyInv, T!TypeOK
  <2>2. T!Idle \in T!DeskStates /\ ~Holds(T!Idle) /\ T!Idle.at # "erased"
        /\ \A q \in T!Everybody, x \in T!AllOrgs : ~Carries(T!Idle, q, x)
    BY TenancyMoves DEF T!Idle, Holds, Carries
  <2> QED BY <2>1, <2>2, TenancyDesks, DeskMoves DEF TenancyInv
<1>2. T!NoAccountLeftBehind' /\ ErasesTheirOwn'
  BY <1>1, StillOwed
<1>3. CASE tSessions' = tSessions
  <2>1. T!TypeOK'
    BY <1>1, <1>3 DEF TenancyInv, T!TypeOK
  <2>2. OneNamesIt' /\ TokensKnown'
    BY <1>1, <1>3, OnlyCarries, OnlyHolds
  <2> QED BY <1>1, <1>2, <1>3, <2>1, <2>2, SameRows DEF TenancyInv
<1>4. CASE o \in orgs /\ tSessions' = {Pointed(s) : s \in tSessions}
  <2>1. \A s \in tSessions : s \in T!Sessions
    BY DEF TenancyInv, T!TypeOK
  <2>2. ASSUME NEW s \in tSessions
        PROVE  /\ Pointed(s) \in T!Sessions
               /\ Pointed(s).token = s.token /\ Pointed(s).who = s.who
               /\ s.who \in T!Everybody
               /\ Pointed(s).org = s.org
                    \/ (s.token = k.session.token /\ Pointed(s).org = o)
    BY <1>1, <2>1 DEF T!Sessions
  <2>3. \A s \in tSessions : s.token = k.session.token => s.who = k.session.who
    BY <1>1 DEF TenancyInv, TokensKnown, Holds
  <2>4. Names(k.session.who, o)
    BY <1>1 DEF Names, Carries
  <2>5. \A s \in tSessions : s.token = k.session.token => Names(s.who, o)
    BY <2>3, <2>4
  <2>6. \A z \in tSessions' : \E s \in tSessions : z = Pointed(s)
    BY <1>4
  <2> HIDE DEF Pointed, k, o
  <2>7. T!TypeOK'
    <3>1. tSessions' \subseteq T!Sessions
      BY <2>2, <2>6
    <3> QED BY <1>1, <3>1 DEF TenancyInv, T!TypeOK
  <2>8. OneNamesIt'
    <3>1. ASSUME NEW q \in T!Everybody, NEW x \in T!AllOrgs, Names(q, x)' PROVE Names(q, x)
      <4>1. CASE \E e \in Desks : Carries(tDesks'[e], q, x)
        BY <1>1, <4>1 DEF Names
      <4>2. CASE \E z \in tSessions' : z.who = q /\ z.org = x
        <5>1. PICK s \in tSessions : Pointed(s).who = q /\ Pointed(s).org = x
          BY <2>6, <4>2
        <5>2. CASE Pointed(s).org = s.org
          BY <2>2, <5>1, <5>2 DEF Names
        <5>3. CASE s.token = k.session.token /\ Pointed(s).org = o
          BY <2>2, <2>5, <5>1, <5>3
        <5> QED BY <2>2, <5>2, <5>3
      <4>3. CASE x \in T!ToSet(joined'[q])
        BY <1>1, <4>3 DEF Names
      <4> QED BY <3>1, <4>1, <4>2, <4>3 DEF Names, Carries
    <3> QED BY <1>1, <3>1, NamesStay DEF TenancyInv
  <2>9. TokensKnown'
    <3>1. \A z \in tSessions' : \E s \in tSessions : z.token = s.token /\ z.who = s.who
      BY <2>2, <2>6
    <3>2. \A e \in Desks : Holds(tDesks'[e]) => tDesks'[e] = tDesks[e]
      BY <1>1
    <3>3. \A z \in tSessions' : z.token \in tDrawn'
      BY <1>1, <3>1 DEF TenancyInv, TokensKnown
    <3>4. \A y, z \in tSessions' : y.token = z.token => y.who = z.who
      BY <3>1 DEF TenancyInv, TokensKnown
    <3>5. \A e \in Desks : Holds(tDesks'[e]) => tDesks'[e].session.token \in tDrawn'
      BY <1>1, <3>2 DEF TenancyInv, TokensKnown
    <3>6. \A z \in tSessions', e \in Desks :
              Holds(tDesks'[e]) /\ tDesks'[e].session.token = z.token
                  => tDesks'[e].session.who = z.who
      BY <3>1, <3>2 DEF TenancyInv, TokensKnown
    <3> QED BY <3>3, <3>4, <3>5, <3>6 DEF TokensKnown, Holds
  <2>10. SessionsHaveRows'
    <3>1. ASSUME NEW z \in tSessions'
          PROVE  z.who \in users /\ (z.org # None => z.org \in orgs)
      <4>1. PICK s \in tSessions : z = Pointed(s)
        BY <2>6
      <4>2. s.who \in users /\ (s.org # None => s.org \in orgs)
        BY DEF TenancyInv, SessionsHaveRows
      <4> QED BY <1>4, <2>2, <4>1, <4>2
    <3> QED BY <1>1, <3>1 DEF SessionsHaveRows
  <2>11. WhatItNames'
    BY <1>1 DEF TenancyInv, WhatItNames
  <2> QED BY <1>2, <2>7, <2>8, <2>9, <2>10, <2>11 DEF TenancyInv
<1> QED BY <1>3, <1>4 DEF T!CommitOrganisation

LEMMA ConfirmErasureKeeps ==
    ASSUME TenancyInv, NEW d \in Desks, NEW s \in tSessions, T!ConfirmErasure(d, s)
    PROVE  TenancyInv'
<1> DEFINE k == [at |-> "confirmed", who |-> s.who, org |-> s.org]
<1>1. /\ s.who \in T!Everybody /\ s.org \in T!AllOrgs /\ s.org \in T!ToSet(joined[s.who])
      /\ T!Put(d, k) /\ tDesks[d].at # "erased" /\ ~Holds(k) /\ k.at # "erased"
      /\ UNCHANGED <<users, orgs, joined, named, tSessions, tDrawn, owed>>
      /\ \A q \in T!Everybody, x \in T!AllOrgs : Carries(k, q, x) => q = s.who /\ x = s.org
  BY DEF T!ConfirmErasure, TenancyInv, T!TypeOK, T!Sessions, T!Idle, Holds, Carries
<1>2. k \in T!DeskStates
  BY <1>1, TenancyMoves
<1> HIDE DEF k
<1>3. T!TypeOK'
  BY <1>1, <1>2, DeskMoves DEF TenancyInv, T!TypeOK
<1>4. \A q \in T!Everybody, x \in T!AllOrgs : Carries(k, q, x) => Names(q, x)
  BY <1>1 DEF Names
<1> QED BY <1>1, <1>2, <1>3, <1>4, OnlyCarries, OnlyHolds, SameRows, StillOwed DEF TenancyInv

LEMMA OpenSandboxKeeps ==
    ASSUME T!NamesAssumption, TenancyInv, NEW d \in Desks, T!OpenSandbox(d)
    PROVE  TenancyInv'
<1> DEFINE k == [at |-> "opening", who |-> Operator, org |-> SandboxOrg]
<1>1. /\ k \in T!DeskStates /\ T!Put(d, k) /\ tDesks[d].at # "erased" /\ ~Holds(k)
      /\ k.at # "erased" /\ UNCHANGED <<orgs, joined, named, tSessions, tDrawn, owed>>
      /\ users' = users \cup {Operator} /\ Operator \in T!Everybody
      /\ \A q \in T!Everybody, x \in T!AllOrgs :
             Carries(k, q, x) => q = Operator /\ x = SandboxOrg
  BY TenancyMoves DEF T!OpenSandbox, T!Idle, Holds, Carries, T!Everybody
<1> HIDE DEF k
<1>2. tDesks'[d] = k /\ \A e \in Desks : e # d => tDesks'[e] = tDesks[e]
  BY <1>1, DeskMoves DEF TenancyInv
<1>3. T!TypeOK'
  BY <1>1, DeskMoves DEF TenancyInv, T!TypeOK
<1>4. ASSUME NEW q \in T!Everybody, NEW x \in T!AllOrgs, Names(q, x)'
      PROVE  Names(q, x) \/ (q = Operator /\ x = SandboxOrg)
  <2>1. CASE \E e \in Desks : Carries(tDesks'[e], q, x)
    BY <1>1, <1>2, <2>1 DEF Names
  <2>2. CASE x \in T!ToSet(joined'[q]) \/ \E z \in tSessions' : z.who = q /\ z.org = x
    BY <1>1, <2>2 DEF Names
  <2> QED BY <1>4, <2>1, <2>2 DEF Names, Carries
<1>5. \A q \in T!Everybody, x \in T!AllOrgs :
          Names(q, x)' => IF x = SandboxOrg THEN q = Operator ELSE x \in tDrawn'
  BY <1>1, <1>4 DEF TenancyInv, OneNamesIt
<1>6. \A q, r \in T!Everybody, x \in T!AllOrgs : Names(q, x)' /\ Names(r, x)' => q = r
  <2>1. \A q \in T!Everybody : Names(q, SandboxOrg) => q = Operator
    BY DEF TenancyInv, OneNamesIt, T!AllOrgs
  <2> QED BY <1>4, <2>1 DEF TenancyInv, OneNamesIt
<1>7. OneNamesIt'
  BY <1>5, <1>6 DEF OneNamesIt, T!Everybody, T!AllOrgs
<1> QED BY <1>1, <1>3, <1>7, OnlyHolds, SameRows, StillOwed DEF TenancyInv

\* An organisation goes with all that hangs off it: the others keep theirs.
LEMMA GoingKeeps ==
    ASSUME TenancyInv, NEW o \in T!AllOrgs, T!DeleteOrganisation(o),
           UNCHANGED <<users, tDrawn>>,
           tDesks' \in [Desks -> T!DeskStates],
           \A e \in Desks : tDesks'[e] # tDesks[e] =>
               /\ ~Holds(tDesks'[e])
               /\ \A p \in T!Everybody, x \in T!AllOrgs : ~Carries(tDesks'[e], p, x)
    PROVE  /\ owed' \subseteq T!Everybody => T!TypeOK'
           /\ OneNamesIt' /\ TokensKnown' /\ WhatItNames'
           /\ SessionsHaveRows' /\ NobodyIsCut
<1>1. /\ orgs' = orgs \ {o} /\ orgs' \subseteq T!AllOrgs
      /\ joined' \in [T!Everybody -> Seq(T!AllOrgs)]
      /\ \A q \in T!Everybody :
             /\ T!IsInjective(joined'[q])
             /\ T!ToSet(joined'[q]) = T!ToSet(joined[q]) \ {o}
      /\ named' = {n \in named : n[2] # o} /\ named' \subseteq T!Everybody \X T!AllOrgs
      /\ tSessions' = {s \in tSessions : s.org # o} /\ tSessions' \subseteq T!Sessions
  BY OrganisationIsGone DEF TenancyInv
<1>2. owed' \subseteq T!Everybody => T!TypeOK'
  BY <1>1 DEF TenancyInv, T!TypeOK
<1>3. OneNamesIt'
  <2>1. ASSUME NEW q \in T!Everybody, NEW x \in T!AllOrgs, Names(q, x)' PROVE Names(q, x)
    <3>1. CASE \E e \in Desks : Carries(tDesks'[e], q, x)
      BY <3>1 DEF Names
    <3>2. CASE x \in T!ToSet(joined'[q]) \/ \E z \in tSessions' : z.who = q /\ z.org = x
      BY <1>1, <3>2 DEF Names
    <3> QED BY <2>1, <3>1, <3>2 DEF Names, Carries
  <2> QED BY <2>1, NamesStay DEF TenancyInv
<1>4. TokensKnown'
  <2>1. \A e \in Desks : Holds(tDesks'[e]) => tDesks'[e] = tDesks[e]
    OBVIOUS
  <2>2. tSessions' \subseteq tSessions
    BY <1>1
  <2>3. \A e \in Desks : Holds(tDesks'[e]) => tDesks'[e].session.token \in tDrawn'
    BY <2>1 DEF TenancyInv, TokensKnown
  <2>4. \A z \in tSessions', e \in Desks :
            Holds(tDesks'[e]) /\ tDesks'[e].session.token = z.token
                => tDesks'[e].session.who = z.who
    BY <2>1, <2>2 DEF TenancyInv, TokensKnown
  <2>5. /\ \A z \in tSessions' : z.token \in tDrawn'
        /\ \A y, z \in tSessions' : y.token = z.token => y.who = z.who
    BY <2>2 DEF TenancyInv, TokensKnown
  <2> QED BY <2>3, <2>4, <2>5 DEF TokensKnown, Holds
<1>5. WhatItNames'
  <2>1. \A n \in named : n[1] \in T!Everybody
    BY DEF TenancyInv, T!TypeOK
  <2> QED BY <1>1, <2>1 DEF TenancyInv, WhatItNames
<1>6. SessionsHaveRows'
  BY <1>1 DEF TenancyInv, SessionsHaveRows
<1>7. NobodyIsCut
  BY <1>1 DEF NobodyIsCut, T!Members, T!Everybody
<1> QED BY <1>2, <1>3, <1>4, <1>5, <1>6, <1>7

LEMMA EraseOrganisationKeeps ==
    ASSUME TenancyInv, NEW d \in Desks, T!EraseOrganisation(d)
    PROVE  TenancyInv' /\ NobodyIsCut
<1> DEFINE o == tDesks[d].org
           q == tDesks[d].who
           m == T!Members(o)
           k == [at |-> "erased", who |-> q, members |-> m]
<1>1. /\ tDesks[d] \in T!DeskStates /\ tDesks[d].at = "confirmed" /\ o \in T!AllOrgs
      /\ q \in T!Everybody /\ owed' = owed \cup m /\ T!Put(d, k) /\ T!DeleteOrganisation(o)
      /\ UNCHANGED <<users, tDrawn>>
  <2>1. tDesks[d] \in T!DeskStates /\ tDesks[d].at = "confirmed"
    BY DEF T!EraseOrganisation, TenancyInv, T!TypeOK
  <2> QED BY <2>1, TenancyDesks DEF T!EraseOrganisation, T!MembersRead
<1>2. m \subseteq T!Everybody /\ k.at = "erased" /\ k.members = m /\ k.who = q
  BY DEF T!Members
<1>3. m \subseteq {q}
  <2>1. Names(q, o)
    BY <1>1 DEF Names, Carries
  <2>2. \A p \in m : p \in T!Everybody /\ Names(p, o)
    BY DEF T!Members, Names
  <2> QED BY <1>1, <2>1, <2>2 DEF TenancyInv, OneNamesIt
<1>4. k \in T!DeskStates /\ ~Holds(k)
      /\ \A p \in T!Everybody, x \in T!AllOrgs : ~Carries(k, p, x)
  BY <1>1, <1>2, TenancyMoves DEF Holds, Carries
<1> HIDE DEF k, m, o, q
<1>5. /\ tDesks'[d] = k /\ \A e \in Desks : e # d => tDesks'[e] = tDesks[e]
      /\ tDesks' \in [Desks -> T!DeskStates]
  BY <1>1, <1>4, DeskMoves DEF TenancyInv
<1>6. owed' \subseteq T!Everybody
  BY <1>1, <1>2 DEF TenancyInv, T!TypeOK
<1>7. T!NoAccountLeftBehind'
  BY <1>1, <1>2, <1>5 DEF TenancyInv, T!NoAccountLeftBehind
<1>8. ErasesTheirOwn'
  BY <1>2, <1>3, <1>5 DEF TenancyInv, ErasesTheirOwn
<1> QED BY <1>1, <1>4, <1>5, <1>6, <1>7, <1>8, GoingKeeps DEF TenancyInv

LEMMA ResetSandboxKeeps ==
    ASSUME TenancyInv, T!ResetSandbox PROVE TenancyInv' /\ NobodyIsCut
<1>1. /\ T!DeleteOrganisation(SandboxOrg) /\ UNCHANGED <<users, tDesks, tDrawn, owed>>
      /\ SandboxOrg \in T!AllOrgs
  BY DEF T!ResetSandbox, T!AllOrgs
<1>2. tDesks' \in [Desks -> T!DeskStates] /\ owed' \subseteq T!Everybody
  BY <1>1 DEF TenancyInv, T!TypeOK
<1>3. T!NoAccountLeftBehind' /\ ErasesTheirOwn'
  BY <1>1 DEF TenancyInv, T!NoAccountLeftBehind, ErasesTheirOwn
<1>4. \A e \in Desks : tDesks'[e] = tDesks[e]
  BY <1>1
<1> QED BY <1>1, <1>2, <1>3, <1>4, GoingKeeps DEF TenancyInv

\* The people an erasure deletes: nobody but the one who asked, and with them
\* all that is theirs, whatever the connecting role sees of it.
LEMMA EraseOrphansKeeps ==
    ASSUME TenancyInv, NEW d \in Desks, T!EraseOrphanedUsers(d)
    PROVE  TenancyInv' /\ CutByTheirOwn
<1> DEFINE k == tDesks[d]
           gone == {p \in k.members \cap users : T!LooksOrphaned(p)}
<1>1. /\ k \in T!DeskStates /\ k.at = "erased" /\ k.members \subseteq T!Everybody
      /\ k.members \subseteq {k.who}
      /\ T!Put(d, T!Idle) /\ T!Idle \in T!DeskStates /\ ~Holds(T!Idle) /\ T!Idle.at # "erased"
      /\ \A q \in T!Everybody, x \in T!AllOrgs : ~Carries(T!Idle, q, x)
      /\ UNCHANGED <<orgs, named, tDrawn>>
      /\ owed' = owed \ {p \in k.members : p \notin users' \/ joined'[p] # <<>>}
  <2>1. /\ k \in T!DeskStates /\ k.at = "erased" /\ T!Put(d, T!Idle)
        /\ UNCHANGED <<orgs, named, tDrawn>>
        /\ owed' = owed \ {p \in k.members : p \notin users' \/ joined'[p] # <<>>}
    BY DEF T!EraseOrphanedUsers, T!Finish, TenancyInv, T!TypeOK
  <2>2. k.members \subseteq {k.who}
    BY <2>1 DEF TenancyInv, ErasesTheirOwn
  <2> QED BY <2>1, <2>2, TenancyDesks, TenancyMoves DEF Holds, Carries, T!Idle
<1>2. gone \subseteq k.members /\ gone \subseteq T!Everybody
  BY <1>1
<1>3. \A p \in k.members \cap users : joined[p] = <<>> => p \in gone
  BY DEF T!LooksOrphaned
<1>4. \/ /\ \E n \in named : n[1] \in gone
         /\ UNCHANGED <<users, joined, tSessions>>
      \/ /\ \A n \in named : n[1] \notin gone
         /\ users' = users \ gone
         /\ joined' = [p \in T!Everybody |-> IF p \in gone THEN <<>> ELSE joined[p]]
         /\ tSessions' = {s \in tSessions : s.who \notin gone}
  BY DEF T!EraseOrphanedUsers
<1> HIDE DEF gone, k
<1>5. /\ users' \subseteq users /\ users \ users' \subseteq gone
      /\ tSessions' \subseteq tSessions
      /\ joined' \in [T!Everybody -> Seq(T!AllOrgs)]
      /\ \A p \in T!Everybody :
             /\ T!IsInjective(joined'[p])
             /\ p \notin gone => joined'[p] = joined[p]
             /\ T!ToSet(joined'[p]) \subseteq T!ToSet(joined[p])
  <2>1. joined \in [T!Everybody -> Seq(T!AllOrgs)] /\ \A p \in T!Everybody : T!IsInjective(joined[p])
    BY DEF TenancyInv, T!TypeOK
  <2>2. CASE UNCHANGED <<users, joined, tSessions>>
    BY <2>1, <2>2
  <2>3. CASE /\ users' = users \ gone
             /\ joined' = [p \in T!Everybody |-> IF p \in gone THEN <<>> ELSE joined[p]]
             /\ tSessions' = {s \in tSessions : s.who \notin gone}
    <3>1. \A p \in T!Everybody : joined'[p] = IF p \in gone THEN <<>> ELSE joined[p]
      BY <2>3
    <3>2. joined' \in [T!Everybody -> Seq(T!AllOrgs)]
      BY <2>1, <2>3, NobodyJoined
    <3>3. \A p \in T!Everybody : T!IsInjective(joined'[p])
      BY <2>1, <3>1, NobodyJoined
    <3> QED BY <2>3, <3>1, <3>2, <3>3, NobodyJoined
  <2> QED BY <1>4, <2>2, <2>3
<1>6. /\ tDesks'[d] = T!Idle /\ \A e \in Desks : e # d => tDesks'[e] = tDesks[e]
      /\ tDesks' \in [Desks -> T!DeskStates]
  BY <1>1, DeskMoves DEF TenancyInv
<1>7. T!TypeOK'
  BY <1>1, <1>5, <1>6 DEF TenancyInv, T!TypeOK
<1>8. OneNamesIt'
  <2>1. ASSUME NEW q \in T!Everybody, NEW x \in T!AllOrgs, Names(q, x)' PROVE Names(q, x)
    <3>1. CASE \E e \in Desks : Carries(tDesks'[e], q, x)
      BY <1>1, <1>6, <3>1 DEF Names
    <3>2. CASE x \in T!ToSet(joined'[q]) \/ \E z \in tSessions' : z.who = q /\ z.org = x
      BY <1>5, <3>2 DEF Names
    <3> QED BY <2>1, <3>1, <3>2 DEF Names, Carries
  <2> QED BY <1>1, <2>1, NamesStay DEF TenancyInv
<1>9. TokensKnown'
  <2>1. \A e \in Desks : Holds(tDesks'[e]) => tDesks'[e] = tDesks[e]
    BY <1>1, <1>6
  <2>2. \A e \in Desks : Holds(tDesks'[e]) => tDesks'[e].session.token \in tDrawn'
    BY <1>1, <2>1 DEF TenancyInv, TokensKnown
  <2>3. \A z \in tSessions', e \in Desks :
            Holds(tDesks'[e]) /\ tDesks'[e].session.token = z.token
                => tDesks'[e].session.who = z.who
    BY <1>5, <2>1 DEF TenancyInv, TokensKnown
  <2>4. /\ \A z \in tSessions' : z.token \in tDrawn'
        /\ \A y, z \in tSessions' : y.token = z.token => y.who = z.who
    BY <1>1, <1>5 DEF TenancyInv, TokensKnown
  <2> QED BY <2>2, <2>3, <2>4 DEF TokensKnown, Holds
<1>10. SessionsHaveRows'
  BY <1>1, <1>4 DEF TenancyInv, SessionsHaveRows
<1>11. WhatItNames'
  <2>1. \A n \in named : n[1] \in T!Everybody
    BY DEF TenancyInv, T!TypeOK
  <2> QED BY <1>1, <1>4, <1>5, <2>1 DEF TenancyInv, WhatItNames
<1>12. ErasesTheirOwn'
  BY <1>1, <1>6 DEF TenancyInv, ErasesTheirOwn
<1>13. T!NoAccountLeftBehind'
  <2> SUFFICES ASSUME NEW p \in owed'
               PROVE  \E e \in Desks : tDesks'[e].at = "erased" /\ p \in tDesks'[e].members
    BY DEF T!NoAccountLeftBehind
  <2>1. PICK e \in Desks : tDesks[e].at = "erased" /\ p \in tDesks[e].members
    BY <1>1 DEF TenancyInv, T!NoAccountLeftBehind
  <2>2. CASE p \in k.members
    <3>1. p \in users' /\ joined'[p] = <<>> /\ p \in T!Everybody
      BY <1>1, <2>2
    <3>2. CASE \E n \in named : n[1] \in gone /\ joined' = joined
      \* The one account this would delete is named by a row: its person is a
      \* member of that row's organisation, so nothing is owed.
      <4>1. PICK n \in named : n[1] \in gone
        BY <3>2
      <4>2. n[1] = p
        BY <1>1, <1>2, <2>2, <4>1
      <4>3. n[2] \in T!ToSet(joined[p])
        BY <4>2 DEF TenancyInv, WhatItNames
      <4> QED BY <3>1, <3>2, <4>3, NobodyJoined
    <3>3. CASE users' = users \ gone
      <4>1. p \in users /\ p \notin gone
        BY <1>5, <3>1, <3>3
      <4>2. joined[p] = <<>>
        BY <1>5, <3>1, <4>1
      <4> QED BY <1>3, <2>2, <4>1, <4>2
    <3> QED BY <1>4, <3>2, <3>3
  <2>3. CASE p \notin k.members
    BY <1>6, <2>1, <2>3 DEF k
  <2> QED BY <2>2, <2>3
<1>14. CutByTheirOwn
  <2> SUFFICES ASSUME NEW p \in T!Everybody,
                      p \in users \ users' \/ (\E o \in orgs' : p \in T!Members(o) \ T!Members(o)')
               PROVE  p \in gone
    BY <1>1, <1>2, <1>6 DEF CutByTheirOwn, k
  <2>1. CASE p \in users \ users'
    BY <1>5, <2>1
  <2>2. CASE \E o \in orgs' : p \in T!Members(o) \ T!Members(o)'
    BY <1>5, <2>2 DEF T!Members, T!Everybody
  <2> QED BY <2>1, <2>2
<1> QED
  BY <1>7, <1>8, <1>9, <1>10, <1>11, <1>12, <1>13, <1>14 DEF TenancyInv

LEMMA StopKeeps ==
    ASSUME TenancyInv, NEW d \in Desks, T!Stop(d) PROVE TenancyInv'
<1>1. /\ T!Put(d, T!Idle) /\ T!Idle \in T!DeskStates /\ ~Holds(T!Idle)
      /\ \A q \in T!Everybody, x \in T!AllOrgs : ~Carries(T!Idle, q, x)
      /\ UNCHANGED <<users, orgs, joined, named, tSessions, tDrawn>>
      /\ owed' = IF tDesks[d].at = "erased" THEN owed \ tDesks[d].members ELSE owed
  BY TenancyMoves DEF T!Stop, T!Finish, Holds, Carries, T!Idle
<1>2. /\ tDesks'[d] = T!Idle /\ \A e \in Desks : e # d => tDesks'[e] = tDesks[e]
      /\ tDesks' \in [Desks -> T!DeskStates]
  BY <1>1, DeskMoves DEF TenancyInv
<1>3. T!TypeOK'
  BY <1>1, <1>2 DEF TenancyInv, T!TypeOK
<1>4. T!NoAccountLeftBehind' /\ ErasesTheirOwn'
  BY <1>1, <1>2 DEF TenancyInv, T!NoAccountLeftBehind, ErasesTheirOwn, T!Idle
<1> QED BY <1>1, <1>3, <1>4, OnlyCarries, OnlyHolds, SameRows DEF TenancyInv

\* Where the memberships and the accounts stay, nobody is cut off.
LEMMA NothingTaken ==
    ASSUME joined' = joined, users \subseteq users' PROVE NobodyIsCut
  BY DEF NobodyIsCut, T!Members, T!Everybody

LEMMA JoiningCutsNobody ==
    ASSUME T!TypeOK, NEW o \in T!AllOrgs, NEW p \in T!Everybody, T!EnsureOrganisation(o, p),
           users' = users
    PROVE  NobodyIsCut
<1>1. \A q \in T!Everybody : T!ToSet(joined[q]) \subseteq T!ToSet(joined'[q])
  BY OrganisationIsThere
<1> QED BY <1>1 DEF NobodyIsCut, T!Members, T!Everybody

LEMMA TenancyNext ==
    ASSUME T!NamesAssumption, TenancyInv, [T!Next]_(T!vars)
    PROVE  TenancyInv' /\ [CutByTheirOwn]_(T!vars)
<1>1. CASE UNCHANGED T!vars
  <2>1. UNCHANGED <<users, orgs, joined, named, tSessions, tDesks, tDrawn, owed>>
    BY <1>1 DEF T!vars
  <2>2. T!TypeOK'
    BY <2>1 DEF TenancyInv, T!TypeOK
  <2>3. OneNamesIt'
    BY <2>1, NamesStay DEF TenancyInv, Names
  <2>4. TokensKnown' /\ T!NoAccountLeftBehind' /\ ErasesTheirOwn'
    BY <2>1 DEF TenancyInv, TokensKnown, T!NoAccountLeftBehind, ErasesTheirOwn
  <2> QED BY <1>1, <2>1, <2>2, <2>3, <2>4, SameRows DEF TenancyInv
<1>2. CASE T!Next
  <2>1. ASSUME NEW d \in Desks, NEW p \in People, T!SignUp(d, p) \/ T!SignIn(d, p)
        PROVE  TenancyInv' /\ NobodyIsCut
    BY <2>1, SignUpKeeps, SignInKeeps, NothingTaken DEF T!SignUp, T!SignIn
  <2>2. ASSUME NEW d \in Desks, NEW s \in tSessions,
               T!ClaimOrganisation(d, s) \/ T!ConfirmErasure(d, s)
        PROVE  TenancyInv' /\ NobodyIsCut
    BY <2>2, ClaimKeeps, ConfirmErasureKeeps, NothingTaken
    DEF T!ClaimOrganisation, T!ConfirmErasure
  <2>3. ASSUME NEW d \in Desks, NEW b \in BOOLEAN, T!WriteOrganisation(d, b)
        PROVE  TenancyInv' /\ NobodyIsCut
    <3>1. /\ tDesks[d].session.who \in T!Everybody /\ tDesks[d].org \in T!AllOrgs
          /\ T!TypeOK /\ users' = users
      BY <2>3, TenancyDesks DEF T!WriteOrganisation, TenancyInv, T!TypeOK, T!Sessions
    <3>2. joined' = joined \/ T!EnsureOrganisation(tDesks[d].org, tDesks[d].session.who)
      BY <2>3 DEF T!WriteOrganisation
    <3> QED BY <2>3, <3>1, <3>2, WriteKeeps, NothingTaken, JoiningCutsNobody
  <2>4. ASSUME NEW d \in Desks, T!StartSession(d) \/ T!CommitOrganisation(d)
        PROVE  TenancyInv' /\ NobodyIsCut
    BY <2>4, StartSessionKeeps, CommitKeeps, NothingTaken
    DEF T!StartSession, T!CommitOrganisation
  <2>5. ASSUME NEW d \in Desks, T!EraseOrganisation(d) \/ T!Stop(d)
        PROVE  TenancyInv' /\ NobodyIsCut
    BY <2>5, EraseOrganisationKeeps, StopKeeps, NothingTaken DEF T!Stop
  <2>6. ASSUME NEW d \in Desks, T!OpenSandbox(d) PROVE TenancyInv' /\ NobodyIsCut
    BY <2>6, OpenSandboxKeeps, NothingTaken DEF T!OpenSandbox
  <2>7. ASSUME NEW d \in Desks, T!EnsureSandbox(d) PROVE TenancyInv' /\ NobodyIsCut
    <3>1. /\ Operator \in T!Everybody /\ SandboxOrg \in T!AllOrgs /\ T!TypeOK
          /\ users' = users
      BY <2>7 DEF T!EnsureSandbox, TenancyInv, T!Everybody, T!AllOrgs
    <3>2. joined' = joined \/ T!EnsureOrganisation(SandboxOrg, Operator)
      BY <2>7 DEF T!EnsureSandbox
    <3> QED BY <2>7, <3>1, <3>2, EnsureSandboxKeeps, NothingTaken, JoiningCutsNobody
  <2>8. ASSUME NEW s \in tSessions, T!EndSession(s) PROVE TenancyInv' /\ NobodyIsCut
    BY <2>8, EndSessionKeeps, NothingTaken DEF T!EndSession
  <2>9. ASSUME T!ResetSandbox PROVE TenancyInv' /\ NobodyIsCut
    BY <2>9, ResetSandboxKeeps
  <2>10. ASSUME NEW d \in Desks, T!EraseOrphanedUsers(d) PROVE TenancyInv' /\ CutByTheirOwn
    BY <2>10, EraseOrphansKeeps
  <2>11. NobodyIsCut => CutByTheirOwn
    BY DEF NobodyIsCut, CutByTheirOwn
  <2>12. TenancyInv' /\ CutByTheirOwn
    BY <1>2, <2>1, <2>2, <2>3, <2>4, <2>5, <2>6, <2>7, <2>8, <2>9, <2>10, <2>11 DEF T!Next
  <2> QED BY <2>12
<1> QED BY <1>1, <1>2

\* Types by themselves.
LEMMA TenancyTypes ==
    ASSUME T!NamesAssumption, T!TypeOK, [T!Next]_(T!vars) PROVE T!TypeOK'
<1>1. ASSUME NEW d \in Desks, NEW k \in T!DeskStates, T!Put(d, k)
      PROVE  tDesks' \in [Desks -> T!DeskStates]
  BY <1>1, DeskMoves
<1>2. T!Idle \in T!DeskStates /\ \A d \in Desks : tDesks[d] \in T!DeskStates
  BY TenancyMoves DEF T!TypeOK
<1>3. CASE UNCHANGED T!vars
  BY <1>3 DEF T!vars, T!TypeOK
<1>4. ASSUME NEW d \in Desks, NEW p \in People, T!SignUp(d, p) PROVE T!TypeOK'
  <2>1. p \in T!Everybody /\ [at |-> "arriving", who |-> p, org |-> None] \in T!DeskStates
    BY TenancyMoves DEF T!Everybody
  <2> QED BY <1>1, <1>4, <2>1 DEF T!SignUp, T!TypeOK
<1>5. ASSUME NEW d \in Desks, NEW p \in People, T!SignIn(d, p) PROVE T!TypeOK'
  <2>1. p \in T!Everybody /\ T!FirstOrganisation(p) \in T!AllOrgs \cup {None}
    BY OldestIsOne DEF T!Everybody, T!TypeOK, T!FirstOrganisation
  <2>2. [at |-> "arriving", who |-> p, org |-> T!FirstOrganisation(p)] \in T!DeskStates
    BY <2>1, TenancyMoves
  <2> QED BY <1>1, <1>5, <2>2 DEF T!SignIn, T!TypeOK
<1>6. ASSUME NEW d \in Desks, T!StartSession(d) PROVE T!TypeOK'
  <2>1. tDesks[d].who \in T!Everybody /\ tDesks[d].org \in T!AllOrgs \cup {None}
    BY <1>2, <1>6, TenancyDesks DEF T!StartSession
  <2>2. \A t \in Tokens : [token |-> t, who |-> tDesks[d].who, org |-> tDesks[d].org] \in T!Sessions
    BY <2>1 DEF T!Sessions
  <2> QED BY <1>1, <1>2, <1>6, <2>2 DEF T!StartSession, T!Finish, T!TypeOK
<1>7. ASSUME NEW d \in Desks, NEW s \in tSessions, T!ClaimOrganisation(d, s) PROVE T!TypeOK'
  <2>1. PICK o \in IF s.org # None THEN {s.org} ELSE Orgs \ tDrawn :
            /\ tDrawn' = tDrawn \cup {o}
            /\ T!Put(d, [at |-> "claimed", session |-> s, org |-> o, isNew |-> s.org = None])
    BY <1>7 DEF T!ClaimOrganisation
  <2>2. s \in T!Sessions /\ o \in T!AllOrgs /\ (s.org = None) \in BOOLEAN
    BY DEF T!TypeOK, T!Sessions, T!AllOrgs
  <2>3. [at |-> "claimed", session |-> s, org |-> o, isNew |-> s.org = None] \in T!DeskStates
    BY <2>2, TenancyMoves
  <2> QED BY <1>1, <1>7, <2>1, <2>2, <2>3 DEF T!ClaimOrganisation, T!TypeOK
<1>8. ASSUME NEW d \in Desks, NEW b \in BOOLEAN, T!WriteOrganisation(d, b) PROVE T!TypeOK'
  <2>1. /\ tDesks[d].at = "claimed" /\ tDesks[d].session.who \in T!Everybody
        /\ tDesks[d].org \in T!AllOrgs
    BY <1>2, <1>8, TenancyDesks DEF T!WriteOrganisation, T!Sessions
  <2>2. [tDesks[d] EXCEPT !.at = "written"] \in T!DeskStates
    BY <1>2, <2>1, Relabelled
  <2>3. T!EnsureOrganisation(tDesks[d].org, tDesks[d].session.who)
           => /\ orgs' \subseteq T!AllOrgs /\ joined' \in [T!Everybody -> Seq(T!AllOrgs)]
              /\ \A p \in T!Everybody : T!IsInjective(joined'[p])
    <3> SUFFICES ASSUME T!EnsureOrganisation(tDesks[d].org, tDesks[d].session.who)
                 PROVE  /\ orgs' \subseteq T!AllOrgs
                        /\ joined' \in [T!Everybody -> Seq(T!AllOrgs)]
                        /\ \A p \in T!Everybody : T!IsInjective(joined'[p])
      OBVIOUS
    <3> QED BY <2>1, OrganisationIsThere
  <2>4. <<tDesks[d].session.who, tDesks[d].org>> \in T!Everybody \X T!AllOrgs
    BY <2>1
  <2> QED BY <1>1, <1>2, <1>8, <2>2, <2>3, <2>4 DEF T!WriteOrganisation, T!Finish, T!TypeOK
<1>9. ASSUME NEW d \in Desks, T!CommitOrganisation(d) PROVE T!TypeOK'
  <2>1. tDesks[d].org \in T!AllOrgs
    BY <1>2, <1>9, TenancyDesks DEF T!CommitOrganisation
  <2>2. \A s \in tSessions : s \in T!Sessions /\ [s EXCEPT !.org = tDesks[d].org] \in T!Sessions
    BY <2>1 DEF T!TypeOK, T!Sessions
  <2> QED BY <1>1, <1>2, <1>9, <2>2 DEF T!CommitOrganisation, T!Finish, T!TypeOK
<1>10. ASSUME NEW d \in Desks, NEW s \in tSessions, T!ConfirmErasure(d, s) PROVE T!TypeOK'
  <2>1. [at |-> "confirmed", who |-> s.who, org |-> s.org] \in T!DeskStates
    BY <1>10, TenancyMoves DEF T!ConfirmErasure, T!TypeOK, T!Sessions
  <2> QED BY <1>1, <1>10, <2>1 DEF T!ConfirmErasure, T!TypeOK
<1>11. ASSUME NEW d \in Desks, T!EraseOrganisation(d) PROVE T!TypeOK'
  <2>1. /\ tDesks[d].who \in T!Everybody /\ tDesks[d].org \in T!AllOrgs
        /\ T!Members(tDesks[d].org) \in SUBSET T!Everybody
    BY <1>2, <1>11, TenancyDesks DEF T!EraseOrganisation, T!Members
  <2>2. [at |-> "erased", who |-> tDesks[d].who, members |-> T!Members(tDesks[d].org)]
            \in T!DeskStates
    BY <2>1, TenancyMoves
  <2>3. T!DeleteOrganisation(tDesks[d].org)
    BY <1>11 DEF T!EraseOrganisation
  <2> QED
    BY <1>1, <1>11, <2>1, <2>2, <2>3, OrganisationIsGone
    DEF T!EraseOrganisation, T!MembersRead, T!TypeOK
<1>12. ASSUME NEW d \in Desks, T!EraseOrphanedUsers(d) PROVE T!TypeOK'
  <2> DEFINE gone == {p \in tDesks[d].members \cap users : T!LooksOrphaned(p)}
  <2>1. \/ UNCHANGED <<users, joined, tSessions>>
        \/ /\ users' = users \ gone
           /\ joined' = [p \in T!Everybody |-> IF p \in gone THEN <<>> ELSE joined[p]]
           /\ tSessions' = {s \in tSessions : s.who \notin gone}
    BY <1>12 DEF T!EraseOrphanedUsers
  <2> HIDE DEF gone
  <2>2. joined' \in [T!Everybody -> Seq(T!AllOrgs)] /\ \A p \in T!Everybody : T!IsInjective(joined'[p])
    BY <2>1, NobodyJoined DEF T!TypeOK
  <2>3. users' \subseteq T!Everybody /\ tSessions' \subseteq T!Sessions
    BY <2>1 DEF T!TypeOK
  <2>4. owed' \subseteq owed /\ UNCHANGED <<orgs, named, tDrawn>> /\ T!Put(d, T!Idle)
    BY <1>12 DEF T!EraseOrphanedUsers, T!Finish
  <2> QED BY <1>1, <1>2, <2>2, <2>3, <2>4 DEF T!TypeOK
<1>13. ASSUME NEW d \in Desks, T!OpenSandbox(d) PROVE T!TypeOK'
  <2>1. Operator \in T!Everybody /\ [at |-> "opening", who |-> Operator, org |-> SandboxOrg] \in T!DeskStates
    BY TenancyMoves DEF T!Everybody
  <2> QED BY <1>1, <1>13, <2>1 DEF T!OpenSandbox, T!TypeOK
<1>14. ASSUME NEW d \in Desks, T!EnsureSandbox(d) PROVE T!TypeOK'
  <2>1. [tDesks[d] EXCEPT !.at = "arriving"] \in T!DeskStates
    BY <1>2, <1>14, Relabelled DEF T!EnsureSandbox
  <2>2. T!EnsureOrganisation(SandboxOrg, Operator)
           => /\ orgs' \subseteq T!AllOrgs /\ joined' \in [T!Everybody -> Seq(T!AllOrgs)]
              /\ \A p \in T!Everybody : T!IsInjective(joined'[p])
    <3> SUFFICES ASSUME T!EnsureOrganisation(SandboxOrg, Operator)
                 PROVE  /\ orgs' \subseteq T!AllOrgs
                        /\ joined' \in [T!Everybody -> Seq(T!AllOrgs)]
                        /\ \A p \in T!Everybody : T!IsInjective(joined'[p])
      OBVIOUS
    <3>1. Operator \in T!Everybody /\ SandboxOrg \in T!AllOrgs
      BY DEF T!Everybody, T!AllOrgs
    <3> QED BY <3>1, OrganisationIsThere
  <2> QED BY <1>1, <1>2, <1>14, <2>1, <2>2 DEF T!EnsureSandbox, T!Finish, T!TypeOK
<1>15. ASSUME T!ResetSandbox PROVE T!TypeOK'
  <2>1. SandboxOrg \in T!AllOrgs /\ T!DeleteOrganisation(SandboxOrg)
    BY <1>15 DEF T!ResetSandbox, T!AllOrgs
  <2> QED BY <1>15, <2>1, OrganisationIsGone DEF T!ResetSandbox, T!TypeOK
<1>16. ASSUME NEW d \in Desks, T!Stop(d) PROVE T!TypeOK'
  BY <1>1, <1>2, <1>16 DEF T!Stop, T!Finish, T!TypeOK
<1>17. ASSUME NEW s \in tSessions, T!EndSession(s) PROVE T!TypeOK'
  BY <1>17 DEF T!EndSession, T!TypeOK
<1> QED
  BY <1>3, <1>4, <1>5, <1>6, <1>7, <1>8, <1>9, <1>10, <1>11, <1>12, <1>13, <1>14, <1>15,
     <1>16, <1>17 DEF T!Next

\* Every behaviour of the whole is one of the organisations.
LEMMA PeopleAreTenants ==
    /\ PeopleInit => T!Init
    /\ [PeopleNext]_allVars => [T!Next]_(T!vars)
<1>1. PeopleInit => T!Init
  BY DEF PeopleInit
<1>2. [PeopleNext]_allVars => [T!Next]_(T!vars)
  BY DEF PeopleNext, ConsoleStep, TenancyStep, SignInStep, ReviewStep, KeysStep,
         allVars, tVars, T!vars
<1> QED BY <1>1, <1>2

LEMMA SpecTenancyInv == PeopleSpec => []TenancyInv
<1>1. T!NamesAssumption
  BY OthersAssumption
<1>2. PeopleInit => TenancyInv
  BY <1>1, PeopleAreTenants, TenancyStarts
<1>3. TenancyInv /\ [PeopleNext]_allVars => TenancyInv'
  BY <1>1, PeopleAreTenants, TenancyNext
<1> QED BY <1>2, <1>3, PTL DEF PeopleSpec

(* A session acts only as an organisation that exists and that is nobody    *)
(* else's, for any number of people, organisations and requests in          *)
(* progress, and whether or not the connecting role sees every membership   *)
(* (src/app/session.ts, src/db/onboarding.ts, src/db/erasure.ts).           *)
THEOREM SpecSessionsAreTheirOwn == PeopleSpec => []SessionsAreTheirOwn
<1>1. TenancyInv => SessionsAreTheirOwn
  <2> SUFFICES ASSUME TenancyInv, NEW s \in tSessions
               PROVE  /\ s.who \in users
                      /\ s.org # None =>
                             /\ s.org \in orgs
                             /\ T!Members(s.org) \subseteq {s.who}
                             /\ \A z \in tSessions : z.org = s.org => z.who = s.who
    BY DEF SessionsAreTheirOwn, T!SessionsAreTheirOwn
  <2>1. s.who \in users /\ (s.org # None => s.org \in orgs)
    BY DEF TenancyInv, SessionsHaveRows
  <2>2. ASSUME s.org # None
        PROVE  /\ T!Members(s.org) \subseteq {s.who}
               /\ \A z \in tSessions : z.org = s.org => z.who = s.who
    <3>1. s.org \in T!AllOrgs /\ \A z \in tSessions : z.who \in T!Everybody
      BY <2>2 DEF TenancyInv, T!TypeOK, T!Sessions
    <3>2. \A z \in tSessions : z.org = s.org => Names(z.who, s.org)
      BY DEF Names
    <3>3. \A p \in T!Members(s.org) : p \in T!Everybody /\ Names(p, s.org)
      BY DEF T!Members, Names
    <3> QED BY <3>1, <3>2, <3>3 DEF TenancyInv, OneNamesIt
  <2> QED BY <2>1, <2>2
<1> QED BY <1>1, SpecTenancyInv, PTL

(* An erasure takes neither too little nor somebody else, whatever the      *)
(* connecting role sees: no account is left behind by one that ran to its   *)
(* end, and nobody is cut off but by an erasure they asked for              *)
(* (src/app/organisation/data-actions.ts, src/db/erasure.ts).               *)
THEOREM SpecErasureIsExact == PeopleSpec => ErasureIsExact
<1>1. TenancyInv => T!NoAccountLeftBehind
  BY DEF TenancyInv
<1>2. TenancyInv /\ [PeopleNext]_allVars => [CutByTheirOwn]_(T!vars)
  BY OthersAssumption, PeopleAreTenants, TenancyNext
<1>3. CutByTheirOwn
        => \A p \in T!Everybody :
               p \in users \ users' \/ (\E o \in orgs' : p \in T!Members(o) \ T!Members(o)')
                   => \E d \in Desks :
                          tDesks[d].at = "erased" /\ tDesks[d].who = p /\ tDesks'[d] = T!Idle
  BY DEF CutByTheirOwn
<1> QED
  BY <1>1, <1>2, <1>3, SpecTenancyInv, PTL DEF PeopleSpec, ErasureIsExact, T!NobodyElseIsCutOff

-----------------------------------------------------------------------------
(***************************************************************************)
(* Review links.  A reader counts what a link has left in one statement and *)
(* writes in the next, and reads the previous view in one and writes its    *)
(* own in another.  The invariant says what of it holds by then: those who  *)
(* have counted are few enough for what is left, a view only grows, and a   *)
(* link that was shut when it was asked for is shut.                        *)
(***************************************************************************)

\* Requests that have counted the comments of a link and not yet written.
Counted(s) == {r \in Readers : reading[r].at = "counted" /\ reading[r].share = s}

\* Each of them has a place.
PlacesLast ==
    \A s \in Shares : R!Left(s) + Cardinality(Counted(s)) < R!MostComments

\* Every line of the trail is a view of the row that is there.
LinesAreViews ==
    \A s \in Shares :
        IF share[s] = NoShare THEN trail[s] = 0 ELSE trail[s] <= share[s].views

\* A link that was shut when it was asked for has not opened since.
ShutStaysShut ==
    \A r \in Readers :
        LET q == reading[r] IN
        q.at = "asked" /\ q.shut /\ share[q.share] # NoShare
            => share[q.share].revoked # Never \/ share[q.share].expires <= q.now

\* The last view only moves on.
ViewsMoveOn ==
    /\ \A s \in Shares :
           share[s] # NoShare /\ share[s].last # Never => share[s].last <= clock
    /\ \A r \in Readers :
           LET q == reading[r] IN
           q.at = "viewed" /\ share[q.share] # NoShare /\ q.previous # Never
               => share[q.share].last # Never /\ q.previous <= share[q.share].last

LinkInv ==
    /\ R!TypeOK /\ PlacesLast /\ LinesAreViews /\ ShutStaysShut /\ ViewsMoveOn
    /\ R!LateReaderIsRefused

-----------------------------------------------------------------------------
\* What a reader's request holds at each of its steps.
LEMMA ReaderTypes ==
    ASSUME NEW q \in R!RequestStates
    PROVE  /\ q # R!Idle => q.share \in Shares /\ q.now \in R!Moments /\ q.shut \in BOOLEAN
           /\ q.at = "viewed" => q.previous \in R!Moments \cup {Never}
           /\ q.at \in {"idle", "asked", "viewing", "commenting", "counted", "viewed"}
           /\ q.at = "idle" => q = R!Idle
           /\ q.at # "idle" => q # R!Idle
  BY DEF R!RequestStates, R!Idle

LEMMA ReaderMoves ==
    /\ R!Idle \in R!RequestStates /\ R!Idle.at = "idle"
    /\ \A s \in Shares, m \in R!Moments, b \in BOOLEAN :
           /\ [at |-> "asked", share |-> s, now |-> m, shut |-> b] \in R!RequestStates
           /\ \A v \in R!Moments \cup {Never} :
                  [at |-> "viewed", share |-> s, now |-> m, shut |-> b, previous |-> v]
                      \in R!RequestStates
  BY DEF R!RequestStates, R!Idle

\* A request that moves on with its label changed keeps the rest.
LEMMA ReaderRelabelled ==
    ASSUME NEW q \in R!RequestStates, q.at \in {"asked", "commenting"},
           NEW a \in {"viewing", "commenting", "counted"}
    PROVE  /\ [q EXCEPT !.at = a] \in R!RequestStates
           /\ [q EXCEPT !.at = a].at = a
           /\ [q EXCEPT !.at = a].share = q.share
           /\ [q EXCEPT !.at = a].now = q.now
           /\ [q EXCEPT !.at = a].shut = q.shut
  BY DEF R!RequestStates, R!Idle

LEMMA ReaderPuts ==
    ASSUME R!TypeOK, NEW r \in Readers, NEW q \in R!RequestStates, R!Put(r, q)
    PROVE  /\ reading' \in [Readers -> R!RequestStates]
           /\ reading'[r] = q
           /\ \A x \in Readers : x # r => reading'[x] = reading[x]
  BY DEF R!TypeOK, R!Put

\* ReviewLink counts as this module does.
LEMMA OneCardinality ==
    \A A : (R!IsFiniteSet(A) <=> IsFiniteSet(A)) /\ R!Cardinality(A) = Cardinality(A)
  BY DEF R!IsFiniteSet, IsFiniteSet, R!Cardinality, Cardinality

\* The bounds are numbers, and some comment may be left.
LEMMA LinkSizes ==
    ASSUME R!LinkAssumption
    PROVE  /\ R!MostComments \in Nat /\ R!MostComments > 0
           /\ R!MostComments = MaxComments + Cardinality(Readers)
           /\ Cardinality(Readers) \in Nat /\ MaxComments \in Nat /\ MaxComments > 0
  BY FS_CardinalityType, OneCardinality DEF R!LinkAssumption, R!MostComments

\* How many have counted.
LEMMA CountedSizes ==
    ASSUME R!LinkAssumption, NEW s
    PROVE  /\ IsFiniteSet(Counted(s)) /\ Cardinality(Counted(s)) \in Nat
           /\ Cardinality(Counted(s)) <= Cardinality(Readers)
           /\ IsFiniteSet(Counted(s)') /\ Cardinality(Counted(s)') \in Nat
           /\ Cardinality(Counted(s)') <= Cardinality(Readers)
<1>1. Counted(s) \in SUBSET Readers /\ Counted(s)' \in SUBSET Readers
  BY DEF Counted
<1>2. IsFiniteSet(Readers)
  BY OneCardinality DEF R!LinkAssumption
<1> QED BY <1>1, <1>2, FS_Subset, FS_CardinalityType

LEMMA LinkStarts == ASSUME R!LinkAssumption, R!Init PROVE LinkInv
<1>1. \A s \in Shares : R!Left(s) = 0 /\ Counted(s) = {}
  BY DEF R!Init, R!Left, Counted, R!Idle
<1>2. PlacesLast
  BY <1>1, LinkSizes, FS_EmptySet DEF PlacesLast
<1>3. R!TypeOK
  <2>1. 0 \in R!Moments /\ 0 \in 0 .. MaxViews /\ 0 \in 0 .. R!MostComments
    BY LinkSizes DEF R!LinkAssumption, R!Moments
  <2> QED BY <2>1, ReaderMoves DEF R!Init, R!TypeOK
<1> QED
  BY <1>2, <1>3 DEF LinkInv, R!Init, LinesAreViews, ShutStaysShut, ViewsMoveOn, R!Idle,
     R!LateReaderIsRefused

\* A step of the applicant, of the clock or of a reader who writes nothing:
\* the counters stay, and whoever has counted had.
LEMMA NoMoreCounted ==
    ASSUME R!LinkAssumption, LinkInv, NEW s \in Shares,
           R!Left(s)' = R!Left(s), Counted(s)' \subseteq Counted(s),
           R!Left(s) \in Nat
    PROVE  R!Left(s)' + Cardinality(Counted(s)') < R!MostComments
<1>1. Cardinality(Counted(s)') <= Cardinality(Counted(s))
  BY CountedSizes, FS_Subset
<1> QED BY <1>1, CountedSizes, LinkSizes DEF LinkInv, PlacesLast

LEMMA LeftIsNat ==
    ASSUME R!LinkAssumption, R!TypeOK, NEW s \in Shares
    PROVE  /\ comments[s].open \in Nat /\ comments[s].handled \in Nat /\ R!Left(s) \in Nat
           /\ R!Left(s) = comments[s].open + comments[s].handled
  BY LinkSizes DEF R!TypeOK, R!Left

\* A row that is there is a row.
LEMMA RowIsRow ==
    ASSUME R!LinkAssumption, R!TypeOK, NEW s \in Shares, share[s] # NoShare
    PROVE  /\ share[s] \in R!ShareRows
           /\ share[s].expires \in Nat /\ share[s].views \in 0 .. MaxViews
           /\ share[s].last \in R!Moments \cup {Never}
           /\ share[s].revoked \in R!Moments \cup {Never}
  BY DEF R!TypeOK, R!ShareRows

LEMMA CreateKeeps ==
    ASSUME R!LinkAssumption, LinkInv, NEW s \in Shares, NEW days \in Lengths,
           R!CreateShare(s, days)
    PROVE  LinkInv'
<1> DEFINE row1 == R!NewShare(R!Expiry(clock, days))
<1>1. /\ clock \in Nat /\ days \in Nat /\ R!Expiry(clock, days) \in Nat
      /\ row1 \in R!ShareRows /\ row1 # NoShare
      /\ row1.views = 0 /\ row1.last = Never
  BY DEF LinkInv, R!TypeOK, R!LinkAssumption, R!Moments, R!Expiry, R!NewShare, R!ShareRows
<1>2. /\ share[s] = NoShare /\ s \notin R!Held
      /\ share' = [share EXCEPT ![s] = row1]
      /\ UNCHANGED <<clock, comments, trail, reading>>
  BY DEF R!CreateShare
<1> HIDE DEF row1
<1>3. /\ share'[s] = row1 /\ \A x \in Shares : x # s => share'[x] = share[x]
      /\ share' \in [Shares -> R!ShareRows \cup {NoShare}]
  BY <1>1, <1>2 DEF LinkInv, R!TypeOK
<1>4. \A r \in Readers : reading[r] # R!Idle => reading[r].share \in Shares /\ reading[r].share # s
  <2>1. \A r \in Readers : reading[r] # R!Idle => reading[r].share \in Shares
    BY ReaderTypes DEF LinkInv, R!TypeOK
  <2> QED BY <1>2, <2>1 DEF R!Held
<1>5. R!TypeOK'
  BY <1>2, <1>3 DEF LinkInv, R!TypeOK
<1>6. PlacesLast'
  BY <1>2 DEF LinkInv, PlacesLast, R!Left, Counted
<1>7. LinesAreViews'
  BY <1>1, <1>2, <1>3 DEF LinkInv, LinesAreViews
<1>8. ShutStaysShut' /\ ViewsMoveOn'
  <2>1. \A r \in Readers : reading[r].at # "idle" => share'[reading[r].share] = share[reading[r].share]
    BY <1>3, <1>4, ReaderTypes DEF LinkInv, R!TypeOK
  <2> QED BY <1>1, <1>2, <1>3, <2>1 DEF LinkInv, ShutStaysShut, ViewsMoveOn
<1>9. R!LateReaderIsRefused'
  BY <1>2 DEF LinkInv, R!LateReaderIsRefused
<1> QED BY <1>5, <1>6, <1>7, <1>8, <1>9 DEF LinkInv

LEMMA RevokeKeeps ==
    ASSUME R!LinkAssumption, LinkInv, NEW s \in Shares, R!RevokeShare(s)
    PROVE  LinkInv'
<1> DEFINE row1 == R!Withdrawn(share[s])
<1>1. /\ share[s] \in R!ShareRows /\ share[s] # NoShare
      /\ share' = [share EXCEPT ![s] = row1]
      /\ UNCHANGED <<clock, comments, trail, reading>>
  BY RowIsRow DEF LinkInv, R!RevokeShare
<1>2. /\ row1 \in R!ShareRows /\ row1 # NoShare
      /\ row1.views = share[s].views /\ row1.last = share[s].last
      /\ row1.expires = share[s].expires
      /\ row1.revoked # Never
  BY <1>1 DEF LinkInv, R!TypeOK, R!LinkAssumption, R!Moments, R!Withdrawn, R!ShareRows
<1> HIDE DEF row1
<1>3. /\ share'[s] = row1 /\ \A x \in Shares : x # s => share'[x] = share[x]
      /\ share' \in [Shares -> R!ShareRows \cup {NoShare}]
  BY <1>1, <1>2 DEF LinkInv, R!TypeOK
<1>4. \A x \in Shares :
          /\ share'[x] = NoShare <=> share[x] = NoShare
          /\ share[x] # NoShare =>
                 /\ share'[x].views = share[x].views /\ share'[x].last = share[x].last
                 /\ share'[x].expires = share[x].expires
                 /\ share[x].revoked # Never => share'[x].revoked # Never
  BY <1>1, <1>2, <1>3
<1>5. R!TypeOK'
  BY <1>1, <1>3 DEF LinkInv, R!TypeOK
<1>6. PlacesLast'
  BY <1>1 DEF LinkInv, PlacesLast, R!Left, Counted
<1>7. LinesAreViews'
  BY <1>1, <1>4 DEF LinkInv, LinesAreViews
<1>8. \A r \in Readers : reading[r].at # "idle" => reading[r].share \in Shares
  BY ReaderTypes DEF LinkInv, R!TypeOK
<1>9. ShutStaysShut' /\ ViewsMoveOn'
  BY <1>1, <1>4, <1>8 DEF LinkInv, ShutStaysShut, ViewsMoveOn
<1>10. R!LateReaderIsRefused'
  BY <1>1 DEF LinkInv, R!LateReaderIsRefused
<1> QED BY <1>5, <1>6, <1>7, <1>9, <1>10 DEF LinkInv

LEMMA HandledKeeps ==
    ASSUME R!LinkAssumption, LinkInv, NEW s \in Shares, NEW b \in BOOLEAN,
           R!SetCommentHandled(s, b)
    PROVE  LinkInv'
<1> DEFINE c == R!Moved(comments[s], b)
<1>1. /\ comments' = [comments EXCEPT ![s] = c]
      /\ UNCHANGED <<clock, share, trail, reading>>
  BY DEF R!SetCommentHandled
<1>2. /\ comments[s].open \in Nat /\ comments[s].handled \in Nat
      /\ comments[s] \in [open : 0 .. R!MostComments, handled : 0 .. R!MostComments]
      /\ comments[s].open + comments[s].handled < R!MostComments
      /\ R!MostComments \in Nat
  <2>1. R!Left(s) < R!MostComments
    BY CountedSizes, LeftIsNat, LinkSizes DEF LinkInv, PlacesLast
  <2> QED BY <2>1, LeftIsNat, LinkSizes DEF LinkInv, R!TypeOK
<1>3. /\ c \in [open : 0 .. R!MostComments, handled : 0 .. R!MostComments]
      /\ c.open + c.handled = comments[s].open + comments[s].handled
  <2>1. CASE b /\ comments[s].open > 0
    BY <1>2, <2>1 DEF R!Moved
  <2>2. CASE ~b /\ comments[s].handled > 0
    BY <1>2, <2>2 DEF R!Moved
  <2>3. CASE ~(b /\ comments[s].open > 0) /\ ~(~b /\ comments[s].handled > 0)
    BY <1>2, <2>3 DEF R!Moved
  <2> QED BY <2>1, <2>2, <2>3
<1> HIDE DEF c
<1>4. R!TypeOK'
  BY <1>1, <1>3 DEF LinkInv, R!TypeOK
<1>5. \A x \in Shares : R!Left(x)' = R!Left(x)
  BY <1>1, <1>3 DEF LinkInv, R!TypeOK, R!Left
<1>6. PlacesLast'
  BY <1>1, <1>5 DEF LinkInv, PlacesLast, Counted
<1> QED
  BY <1>1, <1>4, <1>6 DEF LinkInv, LinesAreViews, ShutStaysShut, ViewsMoveOn,
     R!LateReaderIsRefused

LEMMA EraseKeeps ==
    ASSUME R!LinkAssumption, LinkInv, R!Erase PROVE LinkInv'
<1>1. /\ \A s \in Shares : share'[s] = NoShare /\ trail'[s] = 0 /\ R!Left(s)' = 0
      /\ UNCHANGED <<clock, reading>>
  BY DEF R!Erase, R!Left
<1>2. R!TypeOK'
  <2>1. 0 \in 0 .. MaxViews /\ 0 \in 0 .. R!MostComments
    BY LinkSizes DEF R!LinkAssumption
  <2> QED BY <2>1 DEF LinkInv, R!Erase, R!TypeOK
<1>3. PlacesLast'
  <2>1. \A s \in Shares : 0 + Cardinality(Counted(s)') < R!MostComments
    BY CountedSizes, LinkSizes
  <2> QED BY <1>1, <2>1 DEF PlacesLast
<1>4. \A r \in Readers : reading[r].at # "idle" => reading[r].share \in Shares
  BY ReaderTypes DEF LinkInv, R!TypeOK
<1> QED
  BY <1>1, <1>2, <1>3, <1>4 DEF LinkInv, LinesAreViews, ShutStaysShut, ViewsMoveOn,
     R!LateReaderIsRefused

\* A reader's request moves on and writes nothing: what it now holds is fit
\* to be held.
LEMMA ReaderMovesOn ==
    ASSUME R!LinkAssumption, LinkInv, NEW r \in Readers, NEW q \in R!RequestStates,
           R!Put(r, q), UNCHANGED <<clock, share, comments, trail>>,
           q.at = "counted" => R!Left(q.share) < MaxComments,
           q.at = "asked" /\ q.shut
               => share[q.share].revoked # Never \/ share[q.share].expires <= q.now,
           q.at = "viewed" /\ q.previous # Never
               => share[q.share].last # Never /\ q.previous <= share[q.share].last,
           q # R!Idle /\ q.at # "asked" => ~q.shut
    PROVE  LinkInv'
<1>1. /\ reading' \in [Readers -> R!RequestStates]
      /\ reading'[r] = q
      /\ \A x \in Readers : x # r => reading'[x] = reading[x]
  BY ReaderPuts DEF LinkInv
<1>2. R!TypeOK'
  BY <1>1 DEF LinkInv, R!TypeOK
<1>3. PlacesLast'
  <2>1. ASSUME NEW s \in Shares
        PROVE  R!Left(s)' + Cardinality(Counted(s)') < R!MostComments
    <3>1. R!Left(s)' = R!Left(s) /\ R!Left(s) \in Nat
      BY LeftIsNat DEF LinkInv, R!Left
    <3>2. CASE q.at = "counted" /\ q.share = s
      BY <3>1, <3>2, CountedSizes, LinkSizes
    <3>3. CASE ~(q.at = "counted" /\ q.share = s)
      <4>1. Counted(s)' \subseteq Counted(s)
        BY <1>1, <3>3 DEF Counted
      <4> QED BY <3>1, <4>1, NoMoreCounted
    <3> QED BY <3>2, <3>3
  <2> QED BY <2>1 DEF PlacesLast
<1>4. ShutStaysShut' /\ ViewsMoveOn'
  BY <1>1 DEF LinkInv, ShutStaysShut, ViewsMoveOn
<1>5. R!LateReaderIsRefused'
  BY <1>1 DEF LinkInv, R!LateReaderIsRefused
<1>6. LinesAreViews'
  BY DEF LinkInv, LinesAreViews
<1> QED BY <1>2, <1>3, <1>4, <1>5, <1>6 DEF LinkInv

LEMMA AskKeeps ==
    ASSUME R!LinkAssumption, LinkInv, NEW r \in Readers, NEW s \in Shares, R!Ask(r, s)
    PROVE  LinkInv'
<1> DEFINE q == [at |-> "asked", share |-> s, now |-> clock, shut |-> R!Shut(s)]
<1>1. R!Shut(s) \in BOOLEAN /\ clock \in R!Moments
  BY DEF R!Shut, LinkInv, R!TypeOK
<1>2. q \in R!RequestStates
  BY <1>1, ReaderMoves
<1>3. R!Put(r, q) /\ UNCHANGED <<clock, share, comments, trail>>
  BY DEF R!Ask
<1>4. q.at = "asked" /\ q.share = s /\ q.now = clock /\ q.shut = R!Shut(s)
  OBVIOUS
<1> HIDE DEF q
<1> QED BY <1>2, <1>3, <1>4, ReaderMovesOn DEF R!Shut

LEMMA ResolveKeeps ==
    ASSUME R!LinkAssumption, LinkInv, NEW r \in Readers, NEW to \in {"viewing", "commenting"},
           R!ResolveShare(r, to)
    PROVE  LinkInv'
<1> DEFINE q == [reading[r] EXCEPT !.at = to]
           s == reading[r].share
<1>1. /\ reading[r] \in R!RequestStates /\ reading[r].at = "asked"
      /\ share[s] # NoShare /\ R!Standing(s, reading[r].now) = "live"
      /\ R!Put(r, q) /\ UNCHANGED <<clock, share, comments, trail>>
  BY DEF R!ResolveShare, LinkInv, R!TypeOK
<1>2. /\ q \in R!RequestStates /\ q.at = to /\ q.shut = reading[r].shut
  <2>1. to \in {"viewing", "commenting", "counted"} /\ reading[r].at \in {"asked", "commenting"}
    BY <1>1
  <2> QED BY <1>1, <2>1, ReaderRelabelled
<1>3. ~reading[r].shut
  <2>1. s \in Shares /\ reading[r].now \in Nat /\ reading[r].shut \in BOOLEAN
    BY <1>1, ReaderTypes DEF R!Moments, R!LinkAssumption
  <2>2. share[s].expires \in Nat
    BY <1>1, <2>1, RowIsRow DEF LinkInv
  <2>3. share[s].revoked = Never /\ share[s].expires > reading[r].now
    BY <1>1 DEF R!Standing
  <2> QED BY <1>1, <2>1, <2>2, <2>3 DEF LinkInv, ShutStaysShut
<1> HIDE DEF q
<1> QED BY <1>1, <1>2, <1>3, ReaderMovesOn

LEMMA CountKeeps ==
    ASSUME R!LinkAssumption, LinkInv, NEW r \in Readers, R!CountComments(r)
    PROVE  LinkInv'
<1> DEFINE q == [reading[r] EXCEPT !.at = "counted"]
<1>1. /\ reading[r] \in R!RequestStates /\ reading[r].at = "commenting"
      /\ R!Left(reading[r].share) < MaxComments
      /\ R!Put(r, q) /\ UNCHANGED <<clock, share, comments, trail>>
  BY DEF R!CountComments, LinkInv, R!TypeOK
<1>2. /\ q \in R!RequestStates /\ q.at = "counted" /\ q.share = reading[r].share
      /\ q.shut = reading[r].shut
  BY <1>1, ReaderRelabelled
<1>3. ~reading[r].shut
  BY <1>1, ReaderTypes DEF LinkInv, R!LateReaderIsRefused
<1> HIDE DEF q
<1> QED BY <1>1, <1>2, <1>3, ReaderMovesOn

LEMMA BeginKeeps ==
    ASSUME R!LinkAssumption, LinkInv, NEW r \in Readers, R!BeginView(r)
    PROVE  LinkInv'
<1> DEFINE s == reading[r].share
           q == [at |-> "viewed", share |-> s, now |-> reading[r].now,
                 shut |-> reading[r].shut, previous |-> R!PreviousView(s)]
<1>1. /\ reading[r] \in R!RequestStates /\ reading[r].at = "viewing"
      /\ share[s] # NoShare /\ R!Put(r, q) /\ UNCHANGED <<clock, share, comments, trail>>
  BY DEF R!BeginView, LinkInv, R!TypeOK
<1>2. /\ s \in Shares /\ reading[r].now \in R!Moments /\ reading[r].shut \in BOOLEAN
      /\ ~reading[r].shut
  BY <1>1, ReaderTypes DEF LinkInv, R!LateReaderIsRefused
<1>3. share[s].last \in R!Moments \cup {Never}
  BY <1>1, <1>2, RowIsRow DEF LinkInv
<1>4. q \in R!RequestStates
  BY <1>2, <1>3, ReaderMoves DEF R!PreviousView
<1>5. /\ q.at = "viewed" /\ q.share = s /\ q.shut = reading[r].shut
      /\ q.previous = share[s].last
  BY DEF R!PreviousView
<1>6. share[s].last # Never => share[s].last <= share[s].last
  BY <1>3 DEF R!Moments, R!LinkAssumption
<1> HIDE DEF q
<1> QED BY <1>1, <1>2, <1>4, <1>5, <1>6, ReaderMovesOn

LEMMA ReaderStopKeeps ==
    ASSUME R!LinkAssumption, LinkInv, NEW r \in Readers, R!Stop(r)
    PROVE  LinkInv'
  BY ReaderMoves, ReaderMovesOn DEF R!Stop

LEMMA AddKeeps ==
    ASSUME R!LinkAssumption, LinkInv, NEW r \in Readers, R!AddComment(r)
    PROVE  LinkInv'
<1>1. reading[r] \in R!RequestStates /\ reading[r].at = "counted"
  BY DEF R!AddComment, LinkInv, R!TypeOK
<1>2. PICK s \in Shares : s = reading[r].share
  BY <1>1, ReaderTypes
<1> DEFINE c == R!OneMoreOpen(comments[s])
<1>3. /\ comments' = [comments EXCEPT ![s] = c]
      /\ R!Put(r, R!Idle) /\ UNCHANGED <<clock, share, trail>>
  BY <1>2 DEF R!AddComment
<1>4. r \in Counted(s)
  BY <1>1, <1>2 DEF Counted
<1>5. /\ reading' \in [Readers -> R!RequestStates]
      /\ reading'[r] = R!Idle /\ R!Idle.at = "idle"
      /\ \A x \in Readers : x # r => reading'[x] = reading[x]
  BY <1>3, ReaderMoves, ReaderPuts DEF LinkInv
<1>6. /\ comments[s].open \in Nat /\ comments[s].handled \in Nat
      /\ R!Left(s) = comments[s].open + comments[s].handled
      /\ comments[s] \in [open : 0 .. R!MostComments, handled : 0 .. R!MostComments]
      /\ R!MostComments \in Nat
  BY LeftIsNat, LinkSizes DEF LinkInv, R!TypeOK
<1>7. Counted(s)' = Counted(s) \ {r}
  BY <1>4, <1>5 DEF Counted
<1>8. Cardinality(Counted(s)') = Cardinality(Counted(s)) - 1
  BY <1>4, <1>7, CountedSizes, FS_RemoveElement
<1>9. Cardinality(Counted(s)) \in Nat /\ Cardinality(Counted(s)') \in Nat
  BY CountedSizes
<1>10. R!Left(s) + Cardinality(Counted(s)) < R!MostComments
  BY DEF LinkInv, PlacesLast
<1>11. /\ c \in [open : 0 .. R!MostComments, handled : 0 .. R!MostComments]
      /\ c.open + c.handled = comments[s].open + comments[s].handled + 1
  BY <1>6, <1>8, <1>9, <1>10 DEF R!OneMoreOpen
<1> HIDE DEF c
<1>12. /\ comments'[s] = c /\ \A x \in Shares : x # s => comments'[x] = comments[x]
  BY <1>3, <1>4 DEF LinkInv, R!TypeOK
<1>13. R!TypeOK'
  BY <1>3, <1>4, <1>5, <1>11 DEF LinkInv, R!TypeOK
<1>14. PlacesLast'
  <2>1. R!Left(s)' + Cardinality(Counted(s)') < R!MostComments
    BY <1>6, <1>8, <1>9, <1>10, <1>11, <1>12 DEF R!Left
  <2>2. ASSUME NEW x \in Shares, x # s
        PROVE  R!Left(x)' + Cardinality(Counted(x)') < R!MostComments
    <3>1. R!Left(x)' = R!Left(x) /\ R!Left(x) \in Nat
      BY <1>12, <2>2, LeftIsNat DEF LinkInv, R!Left
    <3>2. Counted(x)' \subseteq Counted(x)
      BY <1>5 DEF Counted
    <3> QED BY <3>1, <3>2, NoMoreCounted
  <2> QED BY <2>1, <2>2 DEF PlacesLast
<1>15. ShutStaysShut' /\ ViewsMoveOn'
  BY <1>3, <1>5 DEF LinkInv, ShutStaysShut, ViewsMoveOn
<1>16. R!LateReaderIsRefused' /\ LinesAreViews'
  BY <1>3, <1>5 DEF LinkInv, R!LateReaderIsRefused, LinesAreViews
<1> QED BY <1>13, <1>14, <1>15, <1>16 DEF LinkInv

\* A visit that is counted moves the last view on, never back.
LEMMA RecordKeeps ==
    ASSUME R!LinkAssumption, LinkInv, NEW r \in Readers, R!RecordView(r)
    PROVE  LinkInv'
<1>1. reading[r] \in R!RequestStates /\ reading[r].at = "viewed"
  BY DEF R!RecordView, LinkInv, R!TypeOK
<1>2. PICK s \in Shares : s = reading[r].share
  BY <1>1, ReaderTypes
<1> DEFINE row1 == [share[s] EXCEPT !.views = share[s].views + 1, !.last = clock]
<1>3. /\ share[s] # NoShare /\ share[s].views < MaxViews
      /\ share' = [share EXCEPT ![s].views = @ + 1, ![s].last = clock]
      /\ trail' \in {[trail EXCEPT ![s] = @ + 1], [trail EXCEPT ![s] = @]}
      /\ R!Put(r, R!Idle) /\ UNCHANGED <<clock, comments>>
  BY <1>2 DEF R!RecordView
<1>4. /\ share[s] \in R!ShareRows /\ share[s].views \in 0 .. MaxViews
      /\ share[s].last \in R!Moments \cup {Never}
      /\ clock \in R!Moments /\ clock \in Nat /\ MaxViews \in Nat
  BY <1>3, <1>2, RowIsRow DEF LinkInv, R!TypeOK, R!Moments, R!LinkAssumption
<1>5. /\ row1 \in R!ShareRows /\ row1 # NoShare
      /\ row1.views = share[s].views + 1 /\ row1.last = clock
      /\ row1.revoked = share[s].revoked /\ row1.expires = share[s].expires
  <2>1. share[s].views + 1 \in 0 .. MaxViews
    BY <1>3, <1>4
  <2>2. row1 \in R!ShareRows
    BY <1>4, <2>1 DEF R!ShareRows
  <2>3. row1 # NoShare
    BY <2>2 DEF R!LinkAssumption
  <2> QED BY <1>4, <2>2, <2>3 DEF R!ShareRows
<1>6. /\ share' \in [Shares -> R!ShareRows \cup {NoShare}]
      /\ share'[s] = row1 /\ \A x \in Shares : x # s => share'[x] = share[x]
  BY <1>3, <1>2, <1>5 DEF LinkInv, R!TypeOK
<1>7. /\ trail[s] \in 0 .. MaxViews /\ trail[s] <= share[s].views
      /\ trail'[s] \in {trail[s] + 1, trail[s]}
      /\ \A x \in Shares : x # s => trail'[x] = trail[x]
      /\ trail' \in [Shares -> 0 .. MaxViews]
  <2>1. /\ trail[s] \in 0 .. MaxViews /\ trail[s] <= share[s].views
    BY <1>3, <1>2 DEF LinkInv, LinesAreViews, R!TypeOK
  <2>2. trail[s] + 1 \in 0 .. MaxViews
    BY <1>3, <1>4, <2>1
  <2> QED BY <1>3, <1>2, <2>1, <2>2 DEF LinkInv, R!TypeOK
<1>8. /\ reading' \in [Readers -> R!RequestStates]
      /\ reading'[r] = R!Idle /\ R!Idle.at = "idle"
      /\ \A x \in Readers : x # r => reading'[x] = reading[x]
  BY <1>3, ReaderMoves, ReaderPuts DEF LinkInv
<1>9. \A x \in Readers : reading[x] \in R!RequestStates
      /\ (reading[x].at # "idle" => reading[x].share \in Shares)
  BY ReaderTypes DEF LinkInv, R!TypeOK
<1> HIDE DEF row1
<1>10. R!TypeOK'
  BY <1>3, <1>6, <1>7, <1>8 DEF LinkInv, R!TypeOK
<1>11. PlacesLast'
  <2>1. ASSUME NEW x \in Shares
        PROVE  R!Left(x)' + Cardinality(Counted(x)') < R!MostComments
    <3>1. R!Left(x)' = R!Left(x) /\ R!Left(x) \in Nat
      BY <1>3, LeftIsNat DEF LinkInv, R!Left
    <3>2. Counted(x)' \subseteq Counted(x)
      BY <1>8 DEF Counted
    <3> QED BY <3>1, <3>2, NoMoreCounted
  <2> QED BY <2>1 DEF PlacesLast
<1>12. LinesAreViews'
  <2>1. trail'[s] <= share'[s].views /\ share'[s] # NoShare
    BY <1>4, <1>5, <1>6, <1>7
  <2>2. \A x \in Shares : x # s =>
            IF share'[x] = NoShare THEN trail'[x] = 0 ELSE trail'[x] <= share'[x].views
    BY <1>6, <1>7 DEF LinkInv, LinesAreViews
  <2> QED BY <2>1, <2>2 DEF LinesAreViews
<1>13. ShutStaysShut'
  BY <1>5, <1>6, <1>8, <1>9, <1>3 DEF LinkInv, ShutStaysShut
<1>14. ViewsMoveOn'
  <2>1. \A x \in Shares : share'[x] # NoShare /\ share'[x].last # Never => share'[x].last <= clock
    BY <1>4, <1>5, <1>6 DEF LinkInv, ViewsMoveOn
  <2>2. ASSUME NEW x \in Readers, reading'[x].at = "viewed",
               share'[reading'[x].share] # NoShare, reading'[x].previous # Never
        PROVE  /\ share'[reading'[x].share].last # Never
               /\ reading'[x].previous <= share'[reading'[x].share].last
    <3>1. x # r /\ reading'[x] = reading[x] /\ reading[x].share \in Shares
      BY <1>8, <1>9, <2>2
    <3>2. reading[x].previous \in Nat
      BY <1>9, <2>2, <3>1, ReaderTypes DEF R!Moments, R!LinkAssumption
    <3>3. CASE reading[x].share # s
      BY <1>6, <2>2, <3>1, <3>3 DEF LinkInv, ViewsMoveOn
    <3>4. CASE reading[x].share = s
      <4>1. share[s].last # Never /\ reading[x].previous <= share[s].last /\ share[s].last <= clock
        BY <1>1, <1>3, <1>2, <2>2, <3>1, <3>4 DEF LinkInv, ViewsMoveOn
      <4>2. share[s].last \in Nat /\ clock # Never
        BY <1>4, <4>1 DEF R!Moments, R!LinkAssumption
      <4> QED BY <1>4, <1>5, <1>6, <3>1, <3>2, <3>4, <4>1, <4>2
    <3> QED BY <3>3, <3>4
  <2> QED BY <1>3, <2>1, <2>2 DEF ViewsMoveOn
<1>15. R!LateReaderIsRefused'
  BY <1>8 DEF LinkInv, R!LateReaderIsRefused
<1> QED BY <1>10, <1>11, <1>12, <1>13, <1>14, <1>15 DEF LinkInv

LEMMA ClockKeeps ==
    ASSUME R!LinkAssumption, LinkInv, R!TimePasses PROVE LinkInv'
<1>1. /\ clock < MaxClock /\ clock' = clock + 1
      /\ UNCHANGED <<share, comments, trail, reading>>
  BY DEF R!TimePasses
<1>2. clock \in Nat /\ clock' \in R!Moments /\ MaxClock \in Nat
  BY <1>1 DEF LinkInv, R!TypeOK, R!Moments, R!LinkAssumption
<1>3. R!TypeOK'
  BY <1>1, <1>2 DEF LinkInv, R!TypeOK
<1>4. PlacesLast' /\ LinesAreViews' /\ ShutStaysShut' /\ R!LateReaderIsRefused'
  BY <1>1 DEF LinkInv, PlacesLast, LinesAreViews, ShutStaysShut, R!LateReaderIsRefused,
     R!Left, Counted
<1>5. ViewsMoveOn'
  <2>1. \A s \in Shares : share[s] # NoShare /\ share[s].last # Never => share[s].last \in Nat
    BY RowIsRow DEF LinkInv, R!Moments, R!LinkAssumption
  <2> QED BY <1>1, <1>2, <2>1 DEF LinkInv, ViewsMoveOn
<1> QED BY <1>3, <1>4, <1>5 DEF LinkInv

LEMMA LinkNext ==
    ASSUME R!LinkAssumption, LinkInv, [R!Next]_(R!vars) PROVE LinkInv'
<1>1. CASE UNCHANGED R!vars
  <2>1. UNCHANGED <<clock, share, comments, trail, reading>>
    BY <1>1 DEF R!vars
  <2> QED
    BY <2>1 DEF LinkInv, R!TypeOK, PlacesLast, LinesAreViews, ShutStaysShut, ViewsMoveOn,
       R!LateReaderIsRefused, R!Left, Counted
<1>2. CASE R!Next
  BY <1>2, CreateKeeps, RevokeKeeps, HandledKeeps, EraseKeeps, AskKeeps, ResolveKeeps,
     CountKeeps, AddKeeps, BeginKeeps, RecordKeeps, ReaderStopKeeps, ClockKeeps DEF R!Next
<1> QED BY <1>1, <1>2

\* A reading that is new by the last view there is now was new by the one
\* its own transaction read.
LEMMA NewVisitsShow ==
    ASSUME R!LinkAssumption, LinkInv, [R!Next]_(R!vars)
    PROVE  [\A r \in Readers :
               (R!ReadNow(r) /\ R!IsNewVisit(share[reading[r].share].last, reading[r].now))
                   => trail'[reading[r].share] > trail[reading[r].share]]_(R!vars)
<1> SUFFICES ASSUME R!Next, NEW r \in Readers, R!ReadNow(r),
                    R!IsNewVisit(share[reading[r].share].last, reading[r].now)
             PROVE  trail'[reading[r].share] > trail[reading[r].share]
  OBVIOUS
<1> DEFINE q == reading[r]
           s == reading[r].share
<1>1. /\ q.at = "viewed" /\ reading'[r] = R!Idle /\ share' # share
      /\ q \in R!RequestStates
  BY DEF R!ReadNow, LinkInv, R!TypeOK
<1>2. s \in Shares /\ q.now \in Nat /\ q.previous \in R!Moments \cup {Never} /\ q # R!Idle
  BY <1>1, ReaderTypes DEF R!Moments, R!LinkAssumption
<1>3. \E x \in Readers : R!RecordView(x) /\ reading'[x] = R!Idle
  <2>1. \E x \in Readers : R!RecordView(x)
    <3>1. ASSUME NEW t \in Shares, NEW days \in Lengths, R!CreateShare(t, days) PROVE FALSE
      BY <1>1, <3>1 DEF R!CreateShare, R!Idle
    <3>2. ASSUME NEW t \in Shares, R!RevokeShare(t) PROVE FALSE
      BY <1>1, <3>2 DEF R!RevokeShare, R!Idle
    <3>3. R!Erase => FALSE
      BY <1>1 DEF R!Erase, R!Idle
    <3> QED
      BY <1>1, <3>1, <3>2, <3>3
      DEF R!Next, R!SetCommentHandled, R!Ask, R!ResolveShare, R!CountComments, R!AddComment,
          R!BeginView, R!Stop, R!TimePasses
  <2> QED
    BY <2>1, ReaderMoves, ReaderPuts DEF R!RecordView, LinkInv
<1>4. R!RecordView(r)
  BY <1>1, <1>2, <1>3, ReaderMoves, ReaderPuts DEF R!RecordView, LinkInv
<1>5. share[s] # NoShare /\ trail' = [trail EXCEPT ![s] =
          IF R!IsNewVisit(q.previous, q.now) THEN trail[s] + 1 ELSE trail[s]]
  BY <1>4 DEF R!RecordView
<1>6. trail \in [Shares -> 0 .. MaxViews] /\ share[s].last \in R!Moments \cup {Never}
  BY <1>2, <1>5, RowIsRow DEF LinkInv, R!TypeOK
<1>7. R!IsNewVisit(q.previous, q.now)
  <2>1. CASE q.previous = Never
    BY <2>1 DEF R!IsNewVisit
  <2>2. CASE q.previous # Never
    <3>1. share[s].last # Never /\ q.previous <= share[s].last
      BY <1>1, <1>5, <2>2 DEF LinkInv, ViewsMoveOn
    <3>2. q.previous \in Nat /\ share[s].last \in Nat
      BY <1>2, <1>6, <2>2, <3>1 DEF R!Moments, R!LinkAssumption
    <3>3. q.now - share[s].last >= 1
      BY <3>1 DEF R!IsNewVisit, R!Tick, R!Gap
    <3> QED BY <1>2, <2>2, <3>1, <3>2, <3>3 DEF R!IsNewVisit, R!Tick, R!Gap
  <2> QED BY <2>1, <2>2
<1> HIDE DEF q, s
<1>8. trail'[s] = trail[s] + 1 /\ trail[s] \in Nat
  BY <1>2, <1>5, <1>6, <1>7
<1> QED BY <1>8 DEF s

LEMMA PeopleHaveReaders ==
    /\ PeopleInit => R!Init
    /\ [PeopleNext]_allVars => [R!Next]_(R!vars)
<1>1. PeopleInit => R!Init
  BY DEF PeopleInit
<1>2. [PeopleNext]_allVars => [R!Next]_(R!vars)
  BY DEF PeopleNext, ConsoleStep, TenancyStep, SignInStep, ReviewStep, KeysStep,
         allVars, rVars, R!vars
<1> QED BY <1>1, <1>2

LEMMA SpecLinkInv == PeopleSpec => []LinkInv
<1>1. R!LinkAssumption
  BY OthersAssumption
<1>2. PeopleInit => LinkInv
  BY <1>1, PeopleHaveReaders, LinkStarts
<1>3. LinkInv /\ [PeopleNext]_allVars => LinkInv'
  BY <1>1, PeopleHaveReaders, LinkNext
<1> QED BY <1>2, <1>3, PTL DEF PeopleSpec

(* A link that was withdrawn or ran out opens nothing for a request that    *)
(* comes later, its comments pass the cap by no more than the requests in   *)
(* progress, and a visit leaves a line, for any number of links, readers,   *)
(* comments and views (src/db/shares.ts, src/db/comments.ts).               *)
THEOREM SpecLinkLimitsHold == PeopleSpec => LinkLimitsHold
<1>1. PeopleSpec => []LinkInv
  BY SpecLinkInv
<1>2. LinkInv => R!LateReaderIsRefused /\ R!CapIsNearlyHeld
  <2> SUFFICES ASSUME LinkInv PROVE R!CapIsNearlyHeld
    BY DEF LinkInv
  <2>1. R!LinkAssumption
    BY OthersAssumption
  <2>2. \A s \in Shares : R!Left(s) \in Nat /\ Cardinality(Counted(s)) \in Nat
                          /\ R!Left(s) + Cardinality(Counted(s)) < R!MostComments
    BY <2>1, LeftIsNat, CountedSizes DEF LinkInv, PlacesLast
  <2> QED BY <2>1, <2>2, LinkSizes DEF R!CapIsNearlyHeld
<1>3. LinkInv /\ [PeopleNext]_allVars
        => [\A r \in Readers :
               (R!ReadNow(r) /\ R!IsNewVisit(share[reading[r].share].last, reading[r].now))
                   => trail'[reading[r].share] > trail[reading[r].share]]_(R!vars)
  BY OthersAssumption, PeopleHaveReaders, NewVisitsShow
<1> QED
  BY <1>1, <1>2, <1>3, PTL DEF PeopleSpec, LinkLimitsHold, R!NoVisitUntrailed

-----------------------------------------------------------------------------
(***************************************************************************)
(* The composition.  Whatever part moves, the variables of SignIn change   *)
(* only by a step of SignIn, so what is proved of it holds of People.      *)
(***************************************************************************)
SP == INSTANCE SignInProofs WITH
        Desks <- Doors,
        hash <- sHash, sessions <- sSessions, desks <- sDesks, drawn <- sDrawn,
        chosen <- typedLast

(* SignIn as People instantiates it and as its proofs do are one module.    *)
LEMMA OneSignIn ==
    /\ S!Init <=> SP!Init
    /\ S!Next <=> SP!Next
    /\ S!vars = SP!vars
    /\ S!NothingAssumption <=> SP!NothingAssumption
    /\ S!ResetsAreFinal <=> SP!ResetsAreFinal
<1>1. S!Init <=> SP!Init
  BY DEF S!Init, SP!Init, S!NoHash, SP!NoHash, S!Idle, SP!Idle
<1>2. S!Next <=> SP!Next
  BY DEF S!Next, SP!Next, S!FindNobody, SP!FindNobody, S!VerifyPassword,
       SP!VerifyPassword, S!ClaimLink, SP!ClaimLink, S!CreateAccount,
       SP!CreateAccount, S!Rehash, SP!Rehash, S!StartSession, SP!StartSession,
       S!RefusePassword, SP!RefusePassword, S!ReplacePassword,
       SP!ReplacePassword, S!CommitReset, SP!CommitReset, S!BreakTheCircle,
       SP!BreakTheCircle, S!Stop, SP!Stop, S!SendLink, SP!SendLink,
       S!LinkLapses, SP!LinkLapses, S!EndSession, SP!EndSession,
       S!RaiseWorkFactor, SP!RaiseWorkFactor, S!Free, SP!Free, S!Claimable,
       SP!Claimable, S!Outstanding, SP!Outstanding, S!InACircle, SP!InACircle,
       S!Put, SP!Put, S!Finish, SP!Finish, S!LinksOf, SP!LinksOf, S!Locked,
       SP!Locked, S!HoldsPassword, SP!HoldsPassword, S!Fresh, SP!Fresh,
       S!NoHash, SP!NoHash, S!Idle, SP!Idle
<1>3. S!vars = SP!vars /\ (S!NothingAssumption <=> SP!NothingAssumption)
  BY DEF S!vars, SP!vars, S!NothingAssumption, SP!NothingAssumption
<1>4. S!ResetsAreFinal <=> SP!ResetsAreFinal
  BY DEF S!ResetsAreFinal, SP!ResetsAreFinal, S!SpentLinksAreDead,
       SP!SpentLinksAreDead, S!ChosenPasswordStands, SP!ChosenPasswordStands
<1> QED
  BY <1>1, <1>2, <1>3, <1>4

LEMMA PeopleSignsIn == PeopleSpec => SP!Spec
<1>1. PeopleInit => SP!Init
  BY OneSignIn DEF PeopleInit
<1>2. [PeopleNext]_allVars => [SP!Next]_(SP!vars)
  <2>1. [PeopleNext]_allVars => [S!Next]_(S!vars)
    BY DEF PeopleNext, ConsoleStep, TenancyStep, SignInStep, ReviewStep, KeysStep,
           allVars, sVars, S!vars
  <2> QED
    BY <2>1, OneSignIn DEF S!vars, SP!vars
<1> QED
  BY <1>1, <1>2, PTL DEF PeopleSpec, SP!Spec

(* Resets stay final in the running whole (src/db/password-reset.ts,        *)
(* src/app/(auth)/actions.ts).                                              *)
THEOREM PeopleResetsAreFinal == PeopleSpec => []ResetsAreFinal
<1>1. SP!NothingAssumption
  BY OthersAssumption, OneSignIn
<1>2. SP!Spec => []SP!ResetsAreFinal
  BY <1>1, SP!SpecResetsAreFinal
<1>3. SP!ResetsAreFinal => ResetsAreFinal
  BY OneSignIn DEF ResetsAreFinal
<1> QED
  BY <1>2, <1>3, PeopleSignsIn, PTL

\* Every behaviour of the whole is one of the console and of the settings.
LEMMA PeopleAreOperators == PeopleSpec => Spec /\ KeysSpec
<1>1. PeopleInit => Init /\ KeysInit
  BY DEF PeopleInit
<1>2. [PeopleNext]_allVars => [Next]_vars
  BY DEF PeopleNext, ConsoleStep, TenancyStep, SignInStep, ReviewStep, KeysStep, allVars, vars
<1>3. [PeopleNext]_allVars => [KeysNext]_keyVars
  BY DEF PeopleNext, ConsoleStep, TenancyStep, SignInStep, ReviewStep, KeysStep, allVars, keyVars
<1> QED BY <1>1, <1>2, <1>3, PTL DEF PeopleSpec, Spec, KeysSpec

(* All five parts keep their types side by side, for every value of the     *)
(* constants.                                                               *)
THEOREM PeopleTypesOK == PeopleSpec => []TypesOK
<1>1. PeopleSpec => []T!TypeOK
  <2>1. PeopleInit => T!TypeOK
    BY PeopleAreTenants, NobodyJoined, TenancyMoves DEF T!Init, T!TypeOK
  <2>2. T!TypeOK /\ [PeopleNext]_allVars => T!TypeOK'
    BY OthersAssumption, PeopleAreTenants, TenancyTypes
  <2> QED BY <2>1, <2>2, PTL DEF PeopleSpec
<1>2. PeopleSpec => []S!TypeOK
  <2>1. SP!NothingAssumption
    BY OthersAssumption, OneSignIn
  <2>2. SP!Spec => []SP!TypeOK
    BY <2>1, SP!SpecTypeOK
  <2>3. SP!TypeOK => S!TypeOK
    BY DEF SP!TypeOK, S!TypeOK, SP!Hashes, S!Hashes, SP!NoHash, S!NoHash, SP!Idle, S!Idle,
           SP!DeskStates, S!DeskStates, SP!DoorStates, S!DoorStates,
           SP!ResetStates, S!ResetStates
  <2> QED BY <2>2, <2>3, PeopleSignsIn, PTL
<1>3. LinkInv => R!TypeOK
  BY DEF LinkInv
<1>4. TypeOK /\ T!TypeOK /\ S!TypeOK /\ R!TypeOK /\ KeysTypeOK => TypesOK
  BY DEF TypesOK
<1> QED
  BY <1>1, <1>2, <1>3, <1>4, SpecLinkInv, PeopleAreOperators, SpecTypeOK, SpecKeysTypeOK, PTL

(* What is promised of each part holds of the whole.                        *)
THEOREM PeopleKeepTheirPromises ==
    PeopleSpec =>
        /\ [](OnlyCrossingsClose /\ EndedStaysEnded /\ SessionsAreTheirOwn)
        /\ [](ResetsAreFinal /\ OperatorIsObeyed)
        /\ ErasureIsExact /\ LinkLimitsHold
  BY PeopleAreOperators, SpecOnlyCrossingsClose, SpecEndedStaysEnded, SpecSessionsAreTheirOwn,
     PeopleResetsAreFinal, SpecOperatorIsObeyed, SpecErasureIsExact, SpecLinkLimitsHold, PTL
=============================================================================
