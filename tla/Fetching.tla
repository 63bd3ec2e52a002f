------------------------------- MODULE Fetching -------------------------------
(***************************************************************************)
(* The calls the program makes to the world outside: a page of 360Giving's *)
(* lists (src/ingestion/threesixtygiving/http.ts and connector.ts), a      *)
(* company looked up by name or by number                                  *)
(* (src/ingestion/companieshouse/client.ts), a web page somebody gave the  *)
(* address of (src/ingestion/web/fetch.ts), and a question put to a model  *)
(* (src/ai/run.ts).  The other side answers what it likes, as slowly as it *)
(* likes, in pieces or not at all; a name may resolve to something else    *)
(* each time it is asked for.                                              *)
(*                                                                         *)
(* Time is counted in ticks, by what is left of each timer and by how long *)
(* ago the last list request was started.                                  *)
(***************************************************************************)
EXTENDS Integers, Sequences

CONSTANTS
    Calls,          \* calls that may be under way at once
    Addresses,      \* what a person may type, and a page redirect to
    Resolved,       \* what a name may resolve to: sets of IPv4 numbers
    MinInterval,    \* ticks between two list requests
    Timeouts,       \* ticks each kind of call is given
    MaxRedirects, MaxBytes, MaxAttempts,
    Off, Nowhere

FetchingAssumption ==
    /\ MinInterval \in Nat /\ MaxRedirects \in Nat
    /\ MaxBytes \in Nat \ {0} /\ MaxAttempts \in Nat \ {0}
    /\ Timeouts \in [{"list", "search", "profile", "page"} -> Nat \ {0}]
    /\ Off \notin Nat

VARIABLES
    call,     \* each call: where it stands, its timer, and what it was sent
    chain,    \* the list requests in the order they were asked for
    since     \* ticks since the last list request was started

fetchVars == <<call, chain, since>>

Kinds == {"list", "search", "profile", "page", "prompt"}
Lookups == {"search", "profile"}

NoCall ==
    [kind |-> "list", at |-> "idle", due |-> Off, tries |-> 0, held |-> 0, to |-> Nowhere,
     reached |-> Nowhere, status |-> "none", body |-> "none", out |-> "none"]

FetchingInit ==
    /\ call = [c \in Calls |-> NoCall]
    /\ chain = <<>>
    /\ since = MinInterval

-----------------------------------------------------------------------------
(* Addresses.                                                              *)

IsPublicHostname(host) == host = "public"   \* not local, not a number, with a dot

(* Why an address is not read; "none" when it may be.                      *)
CheckWebAddress(a) ==
    IF a.scheme = "none" THEN "not-a-url"
    ELSE IF a.scheme # "https" THEN "not-https"
    ELSE IF a.credentials THEN "has-credentials"
    ELSE IF a.port # 443 THEN "odd-port"
    ELSE IF ~IsPublicHostname(a.host) THEN "not-public"
    ELSE "none"

(* The ranges the internet does not route, by the first two numbers.       *)
IsPrivateAddress(ip) ==
    LET a == ip[1] b == ip[2] IN
    \/ a \in {0, 10, 127} \/ a >= 224
    \/ a = 169 /\ b = 254
    \/ a = 172 /\ b \in 16 .. 31
    \/ a = 192 /\ b \in {0, 168}
    \/ a = 100 /\ b \in 64 .. 127
    \/ a = 198 /\ b \in {18, 19}

\* The bug of asking it of one answer only.
FirstIsPublic(ips) == \E ip \in ips : ~IsPrivateAddress(ip)

(* guardedLookup: every answer has to be one the internet routes.          *)
MayConnect(ips) == ips # {} /\ \A ip \in ips : ~IsPrivateAddress(ip)

-----------------------------------------------------------------------------
(* What each kind of call makes of what it is sent.                        *)

\* The bug of not looking at the status.
AnyStatus(status) == status # "none"

(* A status that lets the body be read.                                    *)
Continues(status) == status = "fine"

ParsesAsJson(body) == body \in {"whole", "shape"}

(* A page of grants has its results, an answer of a model fits its schema, *)
(* a company's record can be read: JSON of another shape is refused.       *)
ReadPage(body) == ParsesAsJson(body) /\ body # "shape"
FitsSchema(body) == ParsesAsJson(body) /\ body # "shape"
ReadProfile(body) == IF ParsesAsJson(body) /\ body # "shape" THEN "read" ELSE "refused"

(* A search takes JSON of another shape for an answer without companies.   *)
SearchByName(body) ==
    IF ~ParsesAsJson(body) THEN "refused" ELSE IF body = "shape" THEN "empty" ELSE "read"

Reading(kind, body) ==
    CASE kind = "search" -> SearchByName(body)
      [] kind = "profile" -> ReadProfile(body)
      [] kind = "prompt" -> IF FitsSchema(body) THEN "read" ELSE "refused"
      [] OTHER -> IF ReadPage(body) THEN "read" ELSE "refused"

\* The bug of clearing every timer there.
TimerStops(kind, due) == Off

(* The timer of a list request covers the wait for its first line only.    *)
TimerAfterHeaders(kind, due) == IF kind = "list" THEN Off ELSE due

\* The bug of going on only after a success.
LeftBehind(c, out) == IF call[c].kind = "list" /\ out = "read" THEN Tail(chain) ELSE chain

(* The next in the queue goes on whether this one was read or failed.      *)
ChainAfter(c, out) == IF call[c].kind = "list" THEN Tail(chain) ELSE chain

Settle(c, out, status, body) ==
    /\ call' = [call EXCEPT ![c] =
            [NoCall EXCEPT !.kind = call[c].kind, !.to = call[c].to, !.reached = call[c].reached,
                           !.status = status, !.body = body, !.out = out]]
    /\ chain' = ChainAfter(c, out)

-----------------------------------------------------------------------------
(* Asking.                                                                 *)

AskList(c) ==
    /\ call[c].at = "idle"
    /\ call' = [call EXCEPT ![c] = [NoCall EXCEPT !.at = "queued"]]
    /\ chain' = Append(chain, c)
    /\ UNCHANGED since

\* The bug of not waiting for the one before.
AnyTurn(c) == call[c].at = "queued"

MayTurn(c) == call[c].at = "queued" /\ Head(chain) = c

(* Its turn: how long to wait is worked out once, then slept.              *)
Turn(c) ==
    /\ MayTurn(c)
    /\ call' = [call EXCEPT ![c].at = "spacing", ![c].due = MinInterval - since]
    /\ UNCHANGED <<chain, since>>

Start(c) ==
    /\ call[c].at = "spacing" /\ call[c].due = 0
    /\ call' = [call EXCEPT ![c].at = "asked", ![c].due = Timeouts["list"]]
    /\ since' = 0
    /\ UNCHANGED chain

(* A search of fewer than two letters asks nobody, and is left out.        *)
AskLookup(c, kind) ==
    /\ call[c].at = "idle"
    /\ call' = [call EXCEPT ![c] =
            [NoCall EXCEPT !.kind = kind, !.at = "asked", !.due = Timeouts[kind]]]
    /\ UNCHANGED <<chain, since>>

AskPage(c, a) ==
    /\ call[c].at = "idle"
    /\ call' = [call EXCEPT ![c] =
            IF CheckWebAddress(a) = "none"
            THEN [NoCall EXCEPT !.kind = "page", !.at = "connecting", !.to = a,
                                !.due = Timeouts["page"]]
            ELSE [NoCall EXCEPT !.kind = "page", !.out = "refused"]]
    /\ UNCHANGED <<chain, since>>

AskPrompt(c) ==
    /\ call[c].at = "idle"
    /\ call' = [call EXCEPT ![c] =
            [NoCall EXCEPT !.kind = "prompt", !.at = "asked", !.tries = 1]]
    /\ UNCHANGED <<chain, since>>

-----------------------------------------------------------------------------
(* Answers.                                                                *)

(* The one lookup of a page's name: the socket goes where it says.         *)
Connect(c, ips) ==
    /\ call[c].at = "connecting"
    /\ IF MayConnect(ips)
       THEN \E ip \in ips :
            /\ call' = [call EXCEPT ![c].at = "asked", ![c].reached = ip]
            /\ UNCHANGED chain
       ELSE Settle(c, "refused", "none", "none")
    /\ UNCHANGED since

\* The bug of checking the first address only.
FollowsAnywhere(c, a) == call[c].tries < MaxRedirects

(* Where a redirect is followed to.                                        *)
Follows(c, a) == CheckWebAddress(a) = "none" /\ call[c].tries < MaxRedirects

Redirect(c, a) ==
    /\ call[c].at = "asked" /\ call[c].kind = "page"
    /\ IF Follows(c, a)
       THEN /\ call' = [call EXCEPT ![c].at = "connecting", ![c].to = a,
                                    ![c].reached = Nowhere, ![c].tries = @ + 1]
            /\ UNCHANGED chain
       ELSE Settle(c, "refused", "none", "none")
    /\ UNCHANGED since

(* The first line of an answer.  What is not 2xx, not a web page where one *)
(* was asked for, or says it is too long, is "error".                      *)
Headers(c, status) ==
    /\ call[c].at = "asked" /\ call[c].kind # "prompt"
    /\ IF Continues(status)
       THEN /\ call' = [call EXCEPT ![c].at = "reading", ![c].status = status,
                                    ![c].due = TimerAfterHeaders(call[c].kind, @)]
            /\ UNCHANGED chain
       ELSE Settle(c, "refused", status, "none")
    /\ UNCHANGED since

(* A page is counted as it comes in.                                       *)
WithinBytes(held) == held < MaxBytes

Piece(c) ==
    /\ call[c].at = "reading" /\ call[c].kind = "page"
    /\ IF WithinBytes(call[c].held)
       THEN call' = [call EXCEPT ![c].held = @ + 1] /\ UNCHANGED chain
       ELSE Settle(c, "refused", "fine", "huge")
    /\ UNCHANGED since

(* The end of the body: whole and of the shape asked for, JSON of another  *)
(* shape, not JSON, or (of a list) longer than it may be.                  *)
BodyEnds(c, body) ==
    /\ call[c].at = "reading"
    /\ call[c].kind = "page" => body = "whole"
    /\ body = "huge" => call[c].kind = "list"
    /\ Settle(c, Reading(call[c].kind, body), call[c].status, body)
    /\ UNCHANGED since

(* The connection fails, at any moment.                                    *)
Broken(c) ==
    /\ call[c].at \in {"connecting", "asked", "reading"} /\ call[c].kind # "prompt"
    /\ Settle(c, "refused", "broken", "none")
    /\ UNCHANGED since

(* A model's reply: fit to use, JSON of another shape, not JSON, or none   *)
(* (it declined, or the service failed).  What cannot be used is asked for *)
(* again, once; a service that fails is not.                               *)
Reply(c, body) ==
    /\ call[c].at = "asked" /\ call[c].kind = "prompt"
    /\ IF body # "none" /\ ~FitsSchema(body) /\ call[c].tries < MaxAttempts
       THEN call' = [call EXCEPT ![c].tries = @ + 1] /\ UNCHANGED chain
       ELSE Settle(c, Reading("prompt", body), IF body = "none" THEN "error" ELSE "fine", body)
    /\ UNCHANGED since

TimeOut(c) ==
    /\ call[c].at \in {"connecting", "asked", "reading"} /\ call[c].due = 0
    /\ Settle(c, "refused", "none", "none")
    /\ UNCHANGED since

Later(due) == IF due = Off \/ due = 0 THEN due ELSE due - 1

Tick ==
    /\ since < MinInterval \/ \E c \in Calls : Later(call[c].due) # call[c].due
    /\ since' = IF since < MinInterval THEN since + 1 ELSE since
    /\ call' = [c \in Calls |-> [call[c] EXCEPT !.due = Later(@)]]
    /\ UNCHANGED chain

FetchingNext ==
    \/ Tick
    \/ \E c \in Calls :
        \/ AskList(c) \/ AskPrompt(c) \/ (\E kind \in Lookups : AskLookup(c, kind))
        \/ (\E a \in Addresses : AskPage(c, a) \/ Redirect(c, a))
        \/ Turn(c) \/ Start(c) \/ Piece(c) \/ Broken(c) \/ TimeOut(c)
        \/ \E ips \in Resolved : Connect(c, ips)
        \/ \E status \in {"fine", "error"} : Headers(c, status)
        \/ \E body \in {"whole", "shape", "text", "huge"} : BodyEnds(c, body)
        \/ \E body \in {"whole", "shape", "text", "none"} : Reply(c, body)

(* The event loop runs what is due and the clock goes on.  Of the other    *)
(* side nothing is asked but what the runtime itself sees to: a list whose *)
(* first line has come ends or breaks (the platform's own limit on a       *)
(* silent body), and a model's library answers or gives up.                *)
GoesOn(c) ==
    \/ Turn(c) \/ Start(c) \/ TimeOut(c)
    \/ call[c].kind = "list" /\ \E body \in {"whole", "huge"} : BodyEnds(c, body)
    \/ \E body \in {"whole", "text", "none"} : Reply(c, body)

FetchingSpec ==
    /\ FetchingInit /\ [][FetchingNext]_fetchVars
    /\ WF_fetchVars(Tick) /\ \A c \in Calls : WF_fetchVars(GoesOn(c))

-----------------------------------------------------------------------------
(* Types.                                                                  *)
CallStates ==
    [kind : Kinds, at : {"idle", "queued", "spacing", "connecting", "asked", "reading"},
     due : Nat \cup {Off}, tries : Nat, held : Nat, to : Addresses \cup {Nowhere},
     reached : (UNION Resolved) \cup {Nowhere}, status : {"none", "fine", "error", "broken"},
     body : {"none", "whole", "shape", "text", "huge"},
     out : {"none", "read", "empty", "refused"}]

FetchingTypeOK ==
    /\ since \in 0 .. MinInterval
    /\ call \in [Calls -> CallStates]
    /\ \A c \in Calls : call[c].tries <= MaxRedirects \/ call[c].tries <= MaxAttempts
    /\ chain \in Seq(Calls)
    /\ \A i, j \in DOMAIN chain : chain[i] = chain[j] => i = j
    /\ \A c \in Calls :
        (\E i \in DOMAIN chain : chain[i] = c) <=>
            call[c].kind = "list" /\ call[c].at \in {"queued", "spacing", "asked", "reading"}

(* What is passed on as an answer was sent as one, whole and fit to use: an *)
(* outage, a page of another kind or half a body is never taken for an      *)
(* empty list, a page or a draft (http.ts:19-21, run.ts:7-14).              *)
NothingHalfRead ==
    \A c \in Calls :
        /\ call[c].out = "read" => call[c].status = "fine" /\ call[c].body = "whole"
        /\ call[c].out = "empty" => call[c].kind = "search"
        /\ call[c].held <= MaxBytes

(* However a page moves and whatever its names resolve to, what is          *)
(* connected to and read is a public https address (fetch.ts:5-36).         *)
GoesWhereItMay ==
    \A c \in Calls : call[c].kind = "page" /\ call[c].reached # Nowhere =>
        /\ CheckWebAddress(call[c].to) = "none"
        /\ ~IsPrivateAddress(call[c].reached)

(* List requests go out one at a time in the order they were asked for,     *)
(* at least MinInterval apart, whichever of them fail (http.ts:9-14).       *)
OneAtATime ==
    \A c \in Calls :
        call[c].kind = "list" /\ call[c].at \in {"spacing", "asked", "reading"} =>
            Head(chain) = c
Spaced ==
    [][(\E c \in Calls : call[c].at = "spacing" /\ call'[c].at = "asked")
        => since = MinInterval]_fetchVars

(* Every call is answered or given up, those that wait behind a failed one  *)
(* included, whatever the other side does (http.ts:15, fetch.ts:16).        *)
EveryCallEnds == \A c \in Calls : call[c].at # "idle" ~> call[c].at = "idle"

(* What http.ts:15 says of the timer and the code does not keep: a request  *)
(* that never returns is given up.  The timer of a list request is cleared  *)
(* when its first line has come, and its body may take for ever.            *)
AlwaysOnAClock ==
    \A c \in Calls : call[c].at \in {"asked", "reading"} /\ call[c].kind # "prompt" =>
        call[c].due # Off
=============================================================================
