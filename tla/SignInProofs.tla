------------------------------ MODULE SignInProofs ------------------------------
(***************************************************************************)
(* Reset links and passwords, for any number of addresses, links, tokens   *)
(* and requests in progress.                                               *)
(*                                                                         *)
(* Links die with a reset because of the row locks: a request under way    *)
(* holds the row of its link, no two hold the same one, and a reset can    *)
(* only commit when every row it deletes is nobody else's.  The password   *)
(* stands because a rewrite of an old hash puts back what it was checked   *)
(* against, unless a reset was stored in between.                          *)
(***************************************************************************)
EXTENDS SignIn, TLAPS

Resetting(k) == k.at \in {"claimed", "replacing"}

\* A link is one row, drawn once, and no link that a reset ended is left.
LinksOnce ==
    /\ \A r \in resets : r[1] \in drawn /\ r[1] \notin spent
    /\ spent \subseteq drawn
    /\ \A r, s \in resets : r[1] = s[1] => r = s

\* A request under way holds the row of its link.
ClaimsHold == \A d \in Desks : Resetting(desks[d]) => <<desks[d].link, desks[d].who>> \in resets

\* No two hold the same.
ClaimsApart ==
    \A d, e \in Desks :
        Resetting(desks[d]) /\ Resetting(desks[e]) /\ desks[d].link = desks[e].link => d = e

LinkInv == LinksOnce /\ ClaimsHold /\ ClaimsApart

\* What a sign-in is about to write back is the password there is.
RewritesAgree ==
    \A d \in Desks :
        desks[d].at = "rehashing" /\ desks[d].who \notin raced
            => hash[desks[d].who].pw = desks[d].pw

PasswordInv == RewritesAgree /\ ChosenPasswordStands

-----------------------------------------------------------------------------
\* What a request holds at each of its steps.
LEMMA DeskTypes ==
    ASSUME NEW k \in DeskStates
    PROVE  /\ k.at \in {"creating", "rehashing", "starting"} => k \in DoorStates
           /\ Resetting(k) => k \in ResetStates
  BY DEF DeskStates, DoorStates, ResetStates, Idle, Resetting

\* An idle desk is no reset and no rewrite.
LEMMA IdleIs == Idle \in DeskStates /\ ~Resetting(Idle) /\ Idle.at = "idle"
  BY DEF Idle, DeskStates, Resetting

LEMMA PutType ==
    ASSUME desks \in [Desks -> DeskStates], NEW d \in Desks, NEW k \in DeskStates, Put(d, k)
    PROVE  /\ desks' \in [Desks -> DeskStates]
           /\ desks'[d] = k
           /\ \A e \in Desks \ {d} : desks'[e] = desks[e]
  BY DEF Put

\* The states a step puts a desk into.
LEMMA NextStates ==
    ASSUME NEW k \in DeskStates
    PROVE  /\ k \in DoorStates => [k EXCEPT !.at = "starting"] \in DoorStates
           /\ k \in ResetStates => [k EXCEPT !.at = "replacing"] \in ResetStates
           /\ \A j \in DoorStates : j \in DeskStates /\ ~Resetting(j)
           /\ \A j \in ResetStates : j \in DeskStates /\ Resetting(j) /\ j.at # "rehashing"
  BY DEF DeskStates, DoorStates, ResetStates, Resetting

LEMMA HashesExist ==
    ASSUME NothingAssumption
    PROVE  /\ \A p \in Passwords : Fresh(p) \in Hashes /\ Fresh(p).pw = p
           /\ \A h \in Hashes : /\ h # NoHash => h.pw \in Passwords /\ h.pw # Nothing
                                /\ h # NoHash => [h EXCEPT !.old = TRUE] \in Hashes
                                /\ h # NoHash => [h EXCEPT !.old = TRUE].pw = h.pw
           /\ NoHash \in Hashes /\ NoHash.pw = Nothing
  BY DEF Fresh, Hashes, NoHash, NothingAssumption

\* Types, a step at a time: a desk, then the tables.
LEMMA DeskTypeOK ==
    ASSUME TypeOK, NEW d \in Desks, NEW k \in DeskStates, Put(d, k),
           UNCHANGED <<hash, sessions, resets, inbox, drawn, spent, chosen, raced>>
    PROVE  TypeOK'
  BY PutType DEF TypeOK

-----------------------------------------------------------------------------
\* A desk that claims nothing leaves the links alone.
LEMMA LinkQuiet ==
    ASSUME desks \in [Desks -> DeskStates], LinkInv,
           NEW d \in Desks, NEW k \in DeskStates, Put(d, k), ~Resetting(k),
           drawn \subseteq drawn', UNCHANGED <<resets, spent>>
    PROVE  LinkInv'
  <1>1. \A e \in Desks : Resetting(desks'[e]) => e # d /\ desks'[e] = desks[e]
    BY PutType
  <1>2. LinksOnce'
    BY DEF LinkInv, LinksOnce
  <1>3. ClaimsHold' /\ ClaimsApart'
    BY <1>1 DEF LinkInv, ClaimsHold, ClaimsApart, Resetting
  <1> QED BY <1>2, <1>3 DEF LinkInv

\* A step about links leaves the passwords alone.
LEMMA PasswordQuiet ==
    ASSUME desks \in [Desks -> DeskStates], PasswordInv,
           NEW d \in Desks, NEW k \in DeskStates, Put(d, k), k.at # "rehashing",
           UNCHANGED <<hash, chosen, raced>>
    PROVE  PasswordInv'
  <1>1. \A e \in Desks : desks'[e].at = "rehashing" => desks'[e] = desks[e]
    BY PutType
  <1> QED BY <1>1 DEF PasswordInv, RewritesAgree, ChosenPasswordStands

-----------------------------------------------------------------------------
\* The door: signing up, signing in and out, a raised work factor.
LEMMA FindNobodyInv ==
    ASSUME TypeOK, LinkInv, PasswordInv,
           NEW d \in Desks, NEW a \in Addresses, NEW p \in Passwords, FindNobody(d, a, p)
    PROVE  TypeOK' /\ LinkInv' /\ PasswordInv'
  <1> DEFINE k == [at |-> "creating", who |-> a, pw |-> p]
  <1>1. k \in DeskStates /\ ~Resetting(k) /\ k.at # "rehashing"
    BY DEF DeskStates, DoorStates, Resetting
  <1> QED BY <1>1, DeskTypeOK, LinkQuiet, PasswordQuiet DEF FindNobody, TypeOK

LEMMA VerifyPasswordInv ==
    ASSUME TypeOK, LinkInv, PasswordInv,
           NEW d \in Desks, NEW a \in Addresses, NEW p \in Passwords, VerifyPassword(d, a, p)
    PROVE  TypeOK' /\ LinkInv' /\ PasswordInv'
  <1> DEFINE k == [at |-> IF hash[a].old THEN "rehashing" ELSE "starting",
                   who |-> a, pw |-> p]
  <1>1. k \in DeskStates /\ ~Resetting(k) /\ k.who = a /\ k.pw = p
    BY DEF DeskStates, DoorStates, Resetting
  <1>2. Put(d, k) /\ UNCHANGED <<hash, sessions, resets, inbox, drawn, spent, chosen, raced>>
        /\ hash[a].pw = p
    BY DEF VerifyPassword
  <1> HIDE DEF k
  <1>3. TypeOK' /\ LinkInv'
    BY <1>1, <1>2, DeskTypeOK, LinkQuiet DEF TypeOK
  <1>4. \A e \in Desks : desks'[e] = k \/ desks'[e] = desks[e]
    BY <1>1, <1>2, PutType DEF TypeOK
  <1>5. PasswordInv'
    BY <1>1, <1>2, <1>4 DEF PasswordInv, RewritesAgree, ChosenPasswordStands
  <1> QED BY <1>3, <1>5

LEMMA CreateAccountInv ==
    ASSUME NothingAssumption, TypeOK, LinkInv, PasswordInv,
           NEW d \in Desks, CreateAccount(d)
    PROVE  TypeOK' /\ LinkInv' /\ PasswordInv'
  <1> DEFINE a == desks[d].who
             p == desks[d].pw
             k == [desks[d] EXCEPT !.at = "starting"]
  <1>1. desks[d] \in DoorStates /\ a \in Addresses /\ p \in Passwords
    BY DeskTypes DEF CreateAccount, TypeOK, DoorStates
  <1>2. k \in DeskStates /\ ~Resetting(k) /\ k.at = "starting"
    BY <1>1, NextStates DEF TypeOK, DoorStates
  <1>3. hash[a] \in Hashes /\ chosen[a] \in Passwords \cup {Nothing}
    BY <1>1 DEF TypeOK
  <1>4. UNCHANGED <<sessions, resets, inbox, drawn, spent, raced>>
        /\ chosen' = IF chosen[a] = Nothing THEN [chosen EXCEPT ![a] = p] ELSE chosen
    BY DEF CreateAccount
  <1> HIDE DEF k
  <1>5. CASE hash[a] = NoHash
    <2>1. Put(d, k) /\ hash' = [hash EXCEPT ![a] = Fresh(p)]
      BY <1>5 DEF CreateAccount, Free, k
    <2>2. TypeOK'
      BY <1>1, <1>2, <1>4, <2>1, PutType, HashesExist DEF TypeOK
    <2>3. LinkInv'
      BY <1>2, <1>4, <2>1, LinkQuiet DEF TypeOK
    <2>4. a \notin raced => chosen[a] = Nothing
      BY <1>1, <1>5, HashesExist DEF PasswordInv, ChosenPasswordStands
    <2>5. ChosenPasswordStands'
      BY <1>1, <1>4, <2>1, <2>4, HashesExist DEF TypeOK, PasswordInv, ChosenPasswordStands
    <2>6. \A e \in Desks : desks'[e].at = "rehashing" =>
              desks'[e] = desks[e] /\ desks[e] \in DoorStates
      BY <1>2, <2>1, PutType, DeskTypes DEF TypeOK
    <2>7. \A e \in Desks :
              desks[e].at = "rehashing" /\ desks[e] \in DoorStates /\ desks[e].who \notin raced
                  => desks[e].who # a /\ desks[e].who \in Addresses
      BY <1>5, HashesExist DEF PasswordInv, RewritesAgree, DoorStates, NothingAssumption
    <2>8. RewritesAgree'
      BY <1>4, <2>1, <2>6, <2>7 DEF TypeOK, PasswordInv, RewritesAgree
    <2> QED BY <2>2, <2>3, <2>5, <2>8 DEF PasswordInv
  <1>6. CASE hash[a] # NoHash
    <2>1. Put(d, Idle) /\ hash' = hash
      BY <1>6 DEF CreateAccount, Free, Finish
    <2>2. a \notin raced => chosen[a] # Nothing
      BY <1>1, <1>3, <1>6, HashesExist DEF PasswordInv, ChosenPasswordStands
    <2>3. TypeOK'
      BY <1>1, <1>4, <2>1, IdleIs, PutType DEF TypeOK
    <2>4. LinkInv'
      BY <1>4, <2>1, IdleIs, LinkQuiet DEF TypeOK
    <2>5. ChosenPasswordStands'
      BY <1>1, <1>4, <2>1, <2>2 DEF TypeOK, PasswordInv, ChosenPasswordStands
    <2>6. \A e \in Desks : desks'[e].at = "rehashing" => desks'[e] = desks[e]
      BY <2>1, IdleIs, PutType DEF TypeOK
    <2>7. RewritesAgree'
      BY <1>4, <2>1, <2>6 DEF PasswordInv, RewritesAgree
    <2> QED BY <2>3, <2>4, <2>5, <2>7 DEF PasswordInv
  <1> QED BY <1>5, <1>6

LEMMA RehashInv ==
    ASSUME NothingAssumption, TypeOK, LinkInv, PasswordInv, NEW d \in Desks, Rehash(d)
    PROVE  TypeOK' /\ LinkInv' /\ PasswordInv'
  <1> DEFINE a == desks[d].who
             p == desks[d].pw
             k == [desks[d] EXCEPT !.at = "starting"]
  <1>1. desks[d] \in DoorStates /\ a \in Addresses /\ p \in Passwords
    BY DeskTypes DEF Rehash, TypeOK, DoorStates
  <1>2. k \in DeskStates /\ ~Resetting(k) /\ k.at = "starting"
    BY <1>1, NextStates DEF TypeOK, DoorStates
  <1>3. /\ UNCHANGED <<sessions, resets, inbox, drawn, spent, chosen, raced>>
        /\ Put(d, k) /\ hash' = [hash EXCEPT ![a] = Fresh(p)]
    BY DEF Rehash
  <1> HIDE DEF k
  <1>4. TypeOK'
    BY <1>1, <1>2, <1>3, PutType, HashesExist DEF TypeOK
  <1>5. LinkInv'
    BY <1>2, <1>3, LinkQuiet DEF TypeOK
  <1>6. \A b \in Addresses \ raced : hash'[b].pw = hash[b].pw
    BY <1>1, <1>3, HashesExist DEF Rehash, TypeOK, PasswordInv, RewritesAgree
  <1>7. ChosenPasswordStands'
    BY <1>3, <1>6 DEF PasswordInv, ChosenPasswordStands
  <1>8. \A e \in Desks : desks'[e].at = "rehashing" =>
            desks'[e] = desks[e] /\ desks[e].who \in Addresses
    BY <1>2, <1>3, PutType, DeskTypes DEF TypeOK, DoorStates
  <1>9. RewritesAgree'
    BY <1>3, <1>6, <1>8 DEF PasswordInv, RewritesAgree
  <1> QED BY <1>4, <1>5, <1>7, <1>9 DEF PasswordInv

LEMMA StartSessionInv ==
    ASSUME TypeOK, LinkInv, PasswordInv, NEW d \in Desks, StartSession(d)
    PROVE  TypeOK' /\ LinkInv' /\ PasswordInv'
  <1>1. PICK t \in Tokens \ drawn : /\ sessions' = sessions \cup {<<t, desks[d].who>>}
                                    /\ drawn' = drawn \cup {t}
    BY DEF StartSession
  <1>2. Put(d, Idle) /\ UNCHANGED <<hash, resets, inbox, spent, chosen, raced>>
    BY DEF StartSession, Finish
  <1>3. desks[d].who \in Addresses
    BY DeskTypes DEF StartSession, TypeOK, DoorStates
  <1>4. TypeOK'
    BY <1>1, <1>2, <1>3, IdleIs, PutType DEF TypeOK
  <1> QED BY <1>1, <1>2, <1>4, IdleIs, LinkQuiet, PasswordQuiet DEF TypeOK

LEMMA EndSessionInv ==
    ASSUME TypeOK, LinkInv, PasswordInv, NEW s \in sessions, EndSession(s)
    PROVE  TypeOK' /\ LinkInv' /\ PasswordInv'
  BY DEF EndSession, TypeOK, LinkInv, LinksOnce, ClaimsHold, ClaimsApart,
         PasswordInv, RewritesAgree, ChosenPasswordStands

LEMMA RaiseInv ==
    ASSUME NothingAssumption, TypeOK, LinkInv, PasswordInv, RaiseWorkFactor
    PROVE  TypeOK' /\ LinkInv' /\ PasswordInv'
  <1>1. UNCHANGED <<sessions, resets, inbox, desks, drawn, spent, chosen, raced>>
    BY DEF RaiseWorkFactor
  <1>2. \A a \in Addresses : hash'[a] \in Hashes /\ hash'[a].pw = hash[a].pw
    BY HashesExist DEF RaiseWorkFactor, TypeOK
  <1>3. TypeOK'
    BY <1>1, <1>2 DEF RaiseWorkFactor, TypeOK
  <1>4. LinkInv'
    BY <1>1 DEF LinkInv, LinksOnce, ClaimsHold, ClaimsApart
  <1>5. \A d \in Desks : desks[d].at = "rehashing" => desks[d].who \in Addresses
    BY DeskTypes DEF TypeOK, DoorStates
  <1>6. PasswordInv'
    BY <1>1, <1>2, <1>5 DEF PasswordInv, RewritesAgree, ChosenPasswordStands
  <1> QED BY <1>3, <1>4, <1>6

-----------------------------------------------------------------------------
\* Links: sent, lapsed, claimed, given back.
LEMMA SendLinkInv ==
    ASSUME TypeOK, LinkInv, PasswordInv,
           NEW a \in Addresses, NEW l \in Links, NEW arrives \in BOOLEAN,
           SendLink(a, l, arrives)
    PROVE  TypeOK' /\ LinkInv' /\ PasswordInv'
  <1>1. /\ UNCHANGED <<hash, sessions, desks, spent, chosen, raced>>
        /\ resets' = resets \cup {<<l, a>>} /\ drawn' = drawn \cup {l} /\ l \notin drawn
        /\ inbox' \in {inbox, inbox \cup {l}}
    BY DEF SendLink
  <1>2. TypeOK'
    BY <1>1 DEF TypeOK
  <1>3. LinksOnce'
    BY <1>1 DEF TypeOK, LinkInv, LinksOnce
  <1>4. ClaimsHold' /\ ClaimsApart'
    BY <1>1 DEF LinkInv, ClaimsHold, ClaimsApart
  <1>5. PasswordInv'
    BY <1>1 DEF PasswordInv, RewritesAgree, ChosenPasswordStands
  <1> QED BY <1>2, <1>3, <1>4, <1>5 DEF LinkInv

LEMMA LinkLapsesInv ==
    ASSUME TypeOK, LinkInv, PasswordInv, NEW r \in resets, LinkLapses(r)
    PROVE  TypeOK' /\ LinkInv' /\ PasswordInv'
  <1>1. /\ UNCHANGED <<hash, sessions, inbox, desks, drawn, spent, chosen, raced>>
        /\ resets' = resets \ {r} /\ r \notin Locked
    BY DEF LinkLapses
  <1>2. TypeOK' /\ LinksOnce'
    BY <1>1 DEF TypeOK, LinkInv, LinksOnce
  <1>3. \A d \in Desks : Resetting(desks[d]) => <<desks[d].link, desks[d].who>> # r
    BY <1>1 DEF Locked, Resetting
  <1>4. ClaimsHold' /\ ClaimsApart'
    BY <1>1, <1>3 DEF LinkInv, ClaimsHold, ClaimsApart
  <1>5. PasswordInv'
    BY <1>1 DEF PasswordInv, RewritesAgree, ChosenPasswordStands
  <1> QED BY <1>2, <1>4, <1>5 DEF LinkInv

LEMMA ClaimLinkInv ==
    ASSUME TypeOK, LinkInv, PasswordInv,
           NEW d \in Desks, NEW r \in resets, NEW p \in Passwords, ClaimLink(d, r, p)
    PROVE  TypeOK' /\ LinkInv' /\ PasswordInv'
  <1> DEFINE k == [at |-> "claimed", link |-> r[1], who |-> r[2], pw |-> p]
  <1>1. r[1] \in Links /\ r[2] \in Addresses /\ r = <<r[1], r[2]>>
    BY DEF TypeOK
  <1>2. k \in ResetStates /\ k \in DeskStates /\ k.at # "rehashing"
        /\ k.link = r[1] /\ k.who = r[2]
    BY <1>1 DEF DeskStates, ResetStates
  <1>3. Put(d, k) /\ UNCHANGED <<hash, sessions, resets, inbox, drawn, spent, chosen, raced>>
        /\ r \notin Locked
    BY DEF ClaimLink, Claimable
  <1> HIDE DEF k
  <1>4. TypeOK' /\ PasswordInv'
    BY <1>2, <1>3, DeskTypeOK, PasswordQuiet DEF TypeOK
  <1>5. desks'[d] = k /\ \A e \in Desks \ {d} : desks'[e] = desks[e]
    BY <1>2, <1>3, PutType DEF TypeOK
  <1>6. LinksOnce'
    BY <1>3 DEF LinkInv, LinksOnce
  <1>7. ClaimsHold'
    BY <1>1, <1>2, <1>3, <1>5 DEF LinkInv, ClaimsHold
  <1>8. \A e \in Desks : Resetting(desks[e]) => desks[e].link # r[1]
    <2>1. SUFFICES ASSUME NEW e \in Desks, Resetting(desks[e]), desks[e].link = r[1]
                   PROVE  FALSE
      OBVIOUS
    <2>2. <<desks[e].link, desks[e].who>> \in resets
      BY <2>1 DEF LinkInv, ClaimsHold
    <2>3. <<desks[e].link, desks[e].who>> = r
      BY <2>1, <2>2 DEF LinkInv, LinksOnce
    <2>4. <<desks[e].link, desks[e].who>> \in Locked
      BY <2>1 DEF Locked, Resetting
    <2> QED BY <1>3, <2>3, <2>4
  <1>9. ClaimsApart'
    BY <1>2, <1>5, <1>8 DEF LinkInv, ClaimsApart
  <1> QED BY <1>4, <1>6, <1>7, <1>9 DEF LinkInv

LEMMA GiveBackInv ==
    ASSUME TypeOK, LinkInv, PasswordInv,
           NEW d \in Desks, RefusePassword(d) \/ BreakTheCircle(d) \/ Stop(d)
    PROVE  TypeOK' /\ LinkInv' /\ PasswordInv'
  <1>1. Put(d, Idle) /\ UNCHANGED <<hash, sessions, resets, inbox, drawn, spent, chosen, raced>>
    BY DEF RefusePassword, BreakTheCircle, Stop, Finish
  <1> QED BY <1>1, IdleIs, DeskTypeOK, LinkQuiet, PasswordQuiet DEF TypeOK

LEMMA ReplacePasswordInv ==
    ASSUME TypeOK, LinkInv, PasswordInv, NEW d \in Desks, ReplacePassword(d)
    PROVE  TypeOK' /\ LinkInv' /\ PasswordInv'
  <1> DEFINE k == [desks[d] EXCEPT !.at = "replacing"]
  <1>1. desks[d] \in ResetStates /\ Resetting(desks[d])
    BY DeskTypes DEF ReplacePassword, TypeOK, Resetting
  <1>2. k \in ResetStates /\ k.link = desks[d].link /\ k.who = desks[d].who
    BY <1>1 DEF ResetStates
  <1>3. k \in DeskStates /\ Resetting(k) /\ k.at # "rehashing"
    BY <1>2, NextStates DEF DeskStates
  <1>4. Put(d, k) /\ UNCHANGED <<hash, sessions, resets, inbox, drawn, spent, chosen, raced>>
    BY DEF ReplacePassword
  <1> HIDE DEF k
  <1>5. TypeOK' /\ PasswordInv'
    BY <1>3, <1>4, DeskTypeOK, PasswordQuiet DEF TypeOK
  <1>6. \A e \in Desks : Resetting(desks'[e]) =>
            /\ Resetting(desks[e])
            /\ desks'[e].link = desks[e].link /\ desks'[e].who = desks[e].who
    BY <1>1, <1>2, <1>3, <1>4, PutType DEF TypeOK
  <1>7. LinksOnce' /\ ClaimsHold' /\ ClaimsApart'
    BY <1>4, <1>6 DEF LinkInv, LinksOnce, ClaimsHold, ClaimsApart
  <1> QED BY <1>5, <1>7 DEF LinkInv

\* The commit: every row it deletes is its own to delete, so whoever else is
\* under way holds a link of another account.
LEMMA CommitResetInv ==
    ASSUME NothingAssumption, TypeOK, LinkInv, PasswordInv, NEW d \in Desks, CommitReset(d)
    PROVE  TypeOK' /\ LinkInv' /\ PasswordInv'
  <1> DEFINE a == desks[d].who
             p == desks[d].pw
             l == desks[d].link
  <1>1. Resetting(desks[d]) /\ a \in Addresses /\ p \in Passwords /\ l \in Links
    BY DeskTypes DEF CommitReset, TypeOK, Resetting, ResetStates
  <1>2. /\ hash' = [hash EXCEPT ![a] = Fresh(p)]
        /\ sessions' = {s \in sessions : s[2] # a}
        /\ resets' = resets \ LinksOf(a)
        /\ Put(d, Idle)
        /\ spent' = spent \cup {r[1] : r \in LinksOf(a)} \cup {l}
        /\ chosen' = [chosen EXCEPT ![a] = p]
        /\ raced \subseteq raced' /\ raced' \subseteq raced \cup {a}
        /\ (\E e \in Desks : desks[e].at = "rehashing" /\ desks[e].who = a) => a \in raced'
        /\ UNCHANGED <<inbox, drawn>>
        /\ LinksOf(a) \cap Locked \subseteq {<<l, a>>}
    BY <1>1 DEF CommitReset, Finish, Outstanding
  <1>3. <<l, a>> \in LinksOf(a) /\ LinksOf(a) \subseteq resets
    BY <1>1 DEF LinkInv, ClaimsHold, LinksOf
  <1>4. spent' = spent \cup {r[1] : r \in LinksOf(a)}
    BY <1>2, <1>3
  <1>5. /\ desks' \in [Desks -> DeskStates]
        /\ \A e \in Desks : Resetting(desks'[e]) \/ desks'[e].at = "rehashing"
               => e # d /\ desks'[e] = desks[e]
    BY <1>2, IdleIs, PutType DEF TypeOK
  <1>6. TypeOK'
    <2>1. hash' \in [Addresses -> Hashes] /\ chosen' \in [Addresses -> Passwords \cup {Nothing}]
      BY <1>1, <1>2, HashesExist DEF TypeOK
    <2>2. spent' \subseteq Links /\ raced' \subseteq Addresses
      BY <1>1, <1>2, <1>3, <1>4 DEF TypeOK
    <2> QED BY <1>2, <1>5, <2>1, <2>2 DEF TypeOK
  <1>7. LinksOnce'
    <2>1. \A r \in resets' : r \in resets /\ r[1] \notin spent'
      BY <1>2, <1>3, <1>4 DEF LinkInv, LinksOnce
    <2>2. spent' \subseteq drawn'
      BY <1>2, <1>3, <1>4 DEF LinkInv, LinksOnce
    <2> QED BY <1>2, <2>1, <2>2 DEF LinkInv, LinksOnce
  <1>8. ClaimsHold'
    <2>1. SUFFICES ASSUME NEW e \in Desks, e # d, Resetting(desks[e])
                   PROVE  <<desks[e].link, desks[e].who>> \in resets'
      BY <1>5 DEF ClaimsHold
    <2>2. <<desks[e].link, desks[e].who>> \in resets \cap Locked
      BY <2>1 DEF LinkInv, ClaimsHold, Locked, Resetting
    <2>3. desks[e].link # l
      BY <1>1, <2>1 DEF LinkInv, ClaimsApart
    <2> QED BY <1>2, <2>2, <2>3
  <1>9. ClaimsApart'
    BY <1>5 DEF LinkInv, ClaimsApart
  <1>10. ChosenPasswordStands'
    BY <1>1, <1>2, HashesExist DEF TypeOK, PasswordInv, ChosenPasswordStands
  <1>11. RewritesAgree'
    <2>1. SUFFICES ASSUME NEW e \in Desks, desks[e].at = "rehashing", desks[e].who \notin raced'
                   PROVE  hash'[desks[e].who].pw = desks[e].pw
      BY <1>5 DEF RewritesAgree
    <2>2. desks[e].who # a /\ desks[e].who \notin raced
      BY <1>2, <2>1
    <2>3. hash'[desks[e].who] = hash[desks[e].who]
      BY <1>2, <2>2, <2>1, DeskTypes DEF TypeOK, DoorStates
    <2> QED BY <2>1, <2>2, <2>3 DEF PasswordInv, RewritesAgree
  <1> QED BY <1>6, <1>7, <1>8, <1>9, <1>10, <1>11 DEF LinkInv, PasswordInv

-----------------------------------------------------------------------------
IInv == TypeOK /\ LinkInv /\ PasswordInv

LEMMA InitIInv == ASSUME NothingAssumption, Init PROVE IInv
  <1>1. \A d \in Desks : desks[d] = Idle
    BY DEF Init
  <1>2. TypeOK
    BY <1>1, HashesExist, IdleIs DEF Init, TypeOK
  <1>3. LinkInv
    BY <1>1, IdleIs DEF Init, LinkInv, LinksOnce, ClaimsHold, ClaimsApart
  <1>4. PasswordInv
    BY <1>1, IdleIs, HashesExist DEF Init, PasswordInv, RewritesAgree, ChosenPasswordStands
  <1> QED BY <1>2, <1>3, <1>4 DEF IInv

LEMMA NextIInv == ASSUME NothingAssumption, IInv, [Next]_vars PROVE IInv'
  <1> USE DEF IInv
  <1>1. CASE UNCHANGED vars
    BY <1>1
    DEF vars, TypeOK, LinkInv, LinksOnce, ClaimsHold, ClaimsApart,
        PasswordInv, RewritesAgree, ChosenPasswordStands
  <1>2. CASE \E d \in Desks, a \in Addresses, p \in Passwords :
                 FindNobody(d, a, p) \/ VerifyPassword(d, a, p)
    BY <1>2, FindNobodyInv, VerifyPasswordInv
  <1>3. CASE \E d \in Desks, r \in resets, p \in Passwords : ClaimLink(d, r, p)
    BY <1>3, ClaimLinkInv
  <1>4. ASSUME NEW d \in Desks,
               \/ CreateAccount(d) \/ Rehash(d) \/ StartSession(d)
               \/ RefusePassword(d) \/ ReplacePassword(d) \/ CommitReset(d)
               \/ BreakTheCircle(d) \/ Stop(d)
        PROVE  IInv'
    BY <1>4, CreateAccountInv, RehashInv, StartSessionInv, GiveBackInv,
       ReplacePasswordInv, CommitResetInv
  <1>5. CASE \E a \in Addresses, l \in Links, arrives \in BOOLEAN : SendLink(a, l, arrives)
    BY <1>5, SendLinkInv
  <1>6. CASE \E r \in resets : LinkLapses(r)
    BY <1>6, LinkLapsesInv
  <1>7. CASE \E s \in sessions : EndSession(s)
    BY <1>7, EndSessionInv
  <1>8. CASE RaiseWorkFactor
    BY <1>8, RaiseInv
  <1> QED BY <1>1, <1>2, <1>3, <1>4, <1>5, <1>6, <1>7, <1>8 DEF Next

\* Once a reset is stored, no link of that account is left, in the table or in
\* a request already under way.
THEOREM SpecSpentLinksAreDead ==
    ASSUME NothingAssumption PROVE Spec => []SpentLinksAreDead
  <1>1. Init => IInv BY InitIInv
  <1>2. IInv /\ [Next]_vars => IInv' BY NextIInv
  <1>3. IInv => SpentLinksAreDead
    <2>1. SUFFICES ASSUME IInv PROVE SpentLinksAreDead
      OBVIOUS
    <2>2. \A d \in Desks : Resetting(desks[d]) => <<desks[d].link, desks[d].who>> \in resets
      BY <2>1 DEF IInv, LinkInv, ClaimsHold
    <2>3. \A r \in resets : r[1] \notin spent
      BY <2>1 DEF IInv, LinkInv, LinksOnce
    <2> QED BY <2>2, <2>3 DEF SpentLinksAreDead, Resetting
  <1> QED BY <1>1, <1>2, <1>3, PTL DEF Spec

\* The password that opens an account is the one its owner chose last, but for
\* an address reset while a sign-in was about to rewrite its hash.
THEOREM SpecChosenPasswordStands ==
    ASSUME NothingAssumption PROVE Spec => []ChosenPasswordStands
  <1>1. Init => IInv BY InitIInv
  <1>2. IInv /\ [Next]_vars => IInv' BY NextIInv
  <1>3. IInv => ChosenPasswordStands BY DEF IInv, PasswordInv
  <1> QED BY <1>1, <1>2, <1>3, PTL DEF Spec

\* Passwords, links, sessions and requests keep their types.
THEOREM SpecTypeOK == ASSUME NothingAssumption PROVE Spec => []TypeOK
  <1>1. Init => IInv BY InitIInv
  <1>2. IInv /\ [Next]_vars => IInv' BY NextIInv
  <1>3. IInv => TypeOK BY DEF IInv
  <1> QED BY <1>1, <1>2, <1>3, PTL DEF Spec

\* A reset is final: no older link and no older password survives it.
THEOREM SpecResetsAreFinal ==
    ASSUME NothingAssumption PROVE Spec => []ResetsAreFinal
  <1>1. ResetsAreFinal <=> SpentLinksAreDead /\ ChosenPasswordStands
    BY DEF ResetsAreFinal
  <1> QED BY <1>1, SpecSpentLinksAreDead, SpecChosenPasswordStands, PTL
=============================================================================
