------------------------------ MODULE ReviewLink ------------------------------
(***************************************************************************)
(* Links that let a named outsider read one application and comment on it  *)
(* (src/db/shares.ts, src/db/comments.ts, src/app/review/[token]).         *)
(*                                                                         *)
(* A reader's request takes the time, resolves its token in a transaction  *)
(* of its own, and reads or writes in a second one; the applicant may      *)
(* withdraw the link, the link may expire and other readers may act        *)
(* between any two of these.  Both writes of a reader start with a read    *)
(* that takes no lock: the count of comments, and the previous view.       *)
(***************************************************************************)
EXTENDS Integers, FiniteSets

CONSTANTS
    Shares,       \* ids of application_shares rows
    Readers,      \* requests carrying a token at one moment
    NoShare,      \* no row (not made yet, or erased with its organisation)
    Never,        \* revoked_at or last_viewed_at IS NULL
    Lengths,      \* SHARE_LENGTHS, in units of the visit gap
    MaxComments,  \* MAX_COMMENTS_PER_SHARE
    MaxClock,     \* bound: the last moment of the behaviour
    MaxViews      \* bound: readings of one link

VARIABLES
    clock,    \* in units of VISIT_GAP_MINUTES
    share,    \* the application_shares rows
    comments, \* per share: its share_comments, still open and dealt with
    trail,    \* per share: its 'share.viewed' lines in audit_logs
    request   \* per reader: how far its request is

vars == <<clock, share, comments, trail, request>>

Gap == 1
Moments == 0 .. MaxClock
Tick(m) == IF m = Never THEN -1 ELSE m
MostComments == MaxComments + Cardinality(Readers)

ShareRows ==
    [expires : Nat, revoked : Moments \cup {Never},
     last : Moments \cup {Never}, views : 0 .. MaxViews]
Idle == [at |-> "idle"]

LinkAssumption ==
    /\ IsFiniteSet(Readers)
    /\ MaxComments \in Nat \ {0} /\ MaxClock \in Nat /\ MaxViews \in Nat
    /\ Lengths \subseteq Nat
    /\ Never \notin Nat /\ NoShare \notin ShareRows

RequestStates ==
    {Idle}
    \cup [at : {"asked", "viewing", "commenting", "counted"}, share : Shares,
          now : Moments, shut : BOOLEAN]
    \cup [at : {"viewed"}, share : Shares, now : Moments, shut : BOOLEAN,
          previous : Moments \cup {Never}]

Init ==
    /\ clock = 0
    /\ share = [s \in Shares |-> NoShare]
    /\ comments = [s \in Shares |-> [open |-> 0, handled |-> 0]]
    /\ trail = [s \in Shares |-> 0]
    /\ request = [r \in Readers |-> Idle]

Left(s) == comments[s].open + comments[s].handled
Held == {request[r].share : r \in {q \in Readers : request[q] # Idle}}
Put(r, state) == request' = [request EXCEPT ![r] = state]

-----------------------------------------------------------------------------
(* History: the link was withdrawn, or has run out, by now. *)
Shut(s) == share[s].revoked # Never \/ share[s].expires <= clock

(* Mutant: an expired link still opens. *)
NeverExpires(s, now) == IF share[s].revoked # Never THEN "revoked" ELSE "live"

(* shareStanding: withdrawn beats expired. *)
Standing(s, now) ==
    IF share[s].revoked # Never THEN "revoked"
    ELSE IF share[s].expires > now THEN "live" ELSE "expired"

Expiry(now, days) == now + days

NewShare(expires) ==
    [expires |-> expires, revoked |-> Never, last |-> Never, views |-> 0]

(* createShareAction: every link has an expiry.  An id is never used twice, *)
(* so one that is taken again here is in no request.                        *)
CreateShare(s, days) ==
    /\ share[s] = NoShare
    /\ s \notin Held
    /\ share' = [share EXCEPT ![s] = NewShare(Expiry(clock, days))]
    /\ UNCHANGED <<clock, comments, trail, request>>

(* revokeShare: withdrawing twice keeps the first time. *)
Withdrawn(row) == IF row.revoked = Never THEN [row EXCEPT !.revoked = clock] ELSE row

RevokeShare(s) ==
    /\ share[s] # NoShare
    /\ share' = [share EXCEPT ![s] = Withdrawn(@)]
    /\ UNCHANGED <<clock, comments, trail, request>>

(* setCommentHandled: one comment changes sides, unless it already has. *)
Moved(left, handled) ==
    CASE handled /\ left.open > 0 ->
            [open |-> left.open - 1, handled |-> left.handled + 1]
      [] ~handled /\ left.handled > 0 ->
            [open |-> left.open + 1, handled |-> left.handled - 1]
      [] OTHER -> left

(* The button asks for a state, so pressing it twice changes nothing more. *)
SetCommentHandled(s, handled) ==
    /\ Left(s) > 0
    /\ comments' = [comments EXCEPT ![s] = Moved(@, handled)]
    /\ UNCHANGED <<clock, share, trail, request>>

(* The organisation is erased: its shares, comments and audit lines go too. *)
Erase ==
    /\ share' = [s \in Shares |-> NoShare]
    /\ comments' = [s \in Shares |-> [open |-> 0, handled |-> 0]]
    /\ trail' = [s \in Shares |-> 0]
    /\ UNCHANGED <<clock, request>>

-----------------------------------------------------------------------------
(* A request arrives with a token, to read the page or to leave a comment.  *)
(* `shut` is history: the link was already withdrawn or out of time.        *)
Ask(r, s) ==
    /\ request[r] = Idle
    /\ share[s] # NoShare
    /\ Put(r, [at |-> "asked", share |-> s, now |-> clock,
               shut |-> Shut(s)])
    /\ UNCHANGED <<clock, share, comments, trail>>

(* resolveShare on the owner's connection; a link that is not live stops it.*)
ResolveShare(r, to) ==
    /\ request[r].at = "asked"
    /\ share[request[r].share] # NoShare
    /\ Standing(request[r].share, request[r].now) = "live"
    /\ Put(r, [request[r] EXCEPT !.at = to])
    /\ UNCHANGED <<clock, share, comments, trail>>

(* Mutant: one comment past the limit. *)
CountsPast(r) ==
    /\ request[r].at = "commenting"
    /\ Left(request[r].share) <= MaxComments
    /\ Put(r, [request[r] EXCEPT !.at = "counted"])
    /\ UNCHANGED <<clock, share, comments, trail>>

(* leaveCommentAction's own transaction: count what the link has left...    *)
CountComments(r) ==
    /\ request[r].at = "commenting"
    /\ Left(request[r].share) < MaxComments
    /\ Put(r, [request[r] EXCEPT !.at = "counted"])
    /\ UNCHANGED <<clock, share, comments, trail>>

OneMoreOpen(left) == [left EXCEPT !.open = @ + 1]

(* ...and insert one more; a row that is gone is a foreign-key error.       *)
AddComment(r) ==
    /\ request[r].at = "counted"
    /\ share[request[r].share] # NoShare
    /\ comments' = [comments EXCEPT ![request[r].share] = OneMoreOpen(@)]
    /\ Put(r, Idle)
    /\ UNCHANGED <<clock, share, trail>>

-----------------------------------------------------------------------------
(* Mutant: the previous view is the one this statement has just written. *)
PreviousIsOwn(s) == clock

(* recordShareView's CTE reads the row as the statement finds it. *)
PreviousView(s) == share[s].last

(* The review page: its transaction looks for the application first. *)
BeginView(r) ==
    /\ request[r].at = "viewing"
    /\ share[request[r].share] # NoShare
    /\ Put(r, [at |-> "viewed", share |-> request[r].share, now |-> request[r].now,
               shut |-> request[r].shut, previous |-> PreviousView(request[r].share)])
    /\ UNCHANGED <<clock, share, comments, trail>>

(* isNewVisit, at the moment the request began. *)
IsNewVisit(previous, now) == previous = Never \/ now - Tick(previous) >= Gap

(* The view is counted on the row as it is by then, and a visit leaves a line. *)
RecordView(r) ==
    LET s == request[r].share IN
    /\ request[r].at = "viewed"
    /\ share[s] # NoShare /\ share[s].views < MaxViews
    /\ share' = [share EXCEPT ![s].views = @ + 1, ![s].last = clock]
    /\ trail' = [trail EXCEPT ![s] =
          IF IsNewVisit(request[r].previous, request[r].now) THEN @ + 1 ELSE @]
    /\ Put(r, Idle)
    /\ UNCHANGED <<clock, comments>>

(* A refusal, a full link, an erased row, an error: the request just ends.  *)
Stop(r) ==
    /\ request[r] # Idle
    /\ Put(r, Idle)
    /\ UNCHANGED <<clock, share, comments, trail>>

(* A transaction that reads a page is short beside the visit gap. *)
TimePasses ==
    /\ clock < MaxClock
    /\ \A r \in Readers : request[r].at # "viewed"
    /\ clock' = clock + 1
    /\ UNCHANGED <<share, comments, trail, request>>

Next ==
    \/ \E s \in Shares, days \in Lengths : CreateShare(s, days)
    \/ \E s \in Shares : RevokeShare(s)
    \/ \E s \in Shares, handled \in BOOLEAN : SetCommentHandled(s, handled)
    \/ Erase
    \/ \E r \in Readers, s \in Shares : Ask(r, s)
    \/ \E r \in Readers, to \in {"viewing", "commenting"} : ResolveShare(r, to)
    \/ \E r \in Readers :
        CountComments(r) \/ AddComment(r) \/ BeginView(r) \/ RecordView(r) \/ Stop(r)
    \/ TimePasses

Spec == Init /\ [][Next]_vars

-----------------------------------------------------------------------------
(* The types of the rows and of the requests. *)
TypeOK ==
    /\ clock \in Moments
    /\ share \in [Shares -> ShareRows \cup {NoShare}]
    /\ comments \in [Shares -> [open : 0 .. MostComments, handled : 0 .. MostComments]]
    /\ trail \in [Shares -> 0 .. MaxViews]
    /\ request \in [Readers -> RequestStates]

(* "Revocable. In one click, taking effect on the next request"             *)
(* (domain/review/share.ts): a request that began after its link was        *)
(* withdrawn or had run out never reaches the application.                  *)
LateReaderIsRefused ==
    \A r \in Readers : request[r] # Idle /\ request[r].at # "asked" => ~request[r].shut

(* The count and the insert are two statements: one link leaves at most     *)
(* MaxComments, and one more for every other request it has in progress     *)
(* (MAX_COMMENTS_PER_SHARE in domain/review/comments.ts).                   *)
CapIsNearlyHeld == \A s \in Shares : Left(s) < MostComments

(* This step is the reading of its link by r. *)
ReadNow(r) ==
    /\ request[r].at = "viewed" /\ request'[r] = Idle
    /\ share' # share /\ share'[request[r].share] # NoShare

(* "A line too many in an audit trail is a smaller fault than a missing     *)
(* one" (domain/review/share.ts): a read that began a whole gap after every *)
(* earlier read of its link leaves a line, whichever reads overlap it.      *)
NoVisitUntrailed ==
    [][\A r \in Readers :
        (ReadNow(r) /\ IsNewVisit(share[request[r].share].last, request[r].now))
            => trail'[request[r].share] > trail[request[r].share]]_vars

(* "A link withdrawn in the meantime must not still be able to write"       *)
(* (app/review/[token]/actions.ts).                                         *)
WithdrawnWritesNoMore ==
    [][\A s \in Shares :
        (share[s] # NoShare /\ Standing(s, clock) = "revoked") => Left(s)' <= Left(s)]_vars
=============================================================================
