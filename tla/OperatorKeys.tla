---------------------------- MODULE OperatorKeys -----------------------------
(***************************************************************************)
(* What an operator sets for the whole platform on the settings screen of  *)
(* the console: the key of a service (src/secrets,                         *)
(* src/app/admin/settings) and one setting of the outbound requests        *)
(* (src/settings).  A save of a key verifies it over the network and then  *)
(* writes the row; a test of the stored key reads it in one transaction,   *)
(* verifies it, and writes the verdict in another.  Two screens may be     *)
(* open at once; each sends its requests one after the other.              *)
(*                                                                         *)
(* A verdict is a choice: the service may refuse the key, limit the check  *)
(* or be unreachable.  A ciphertext is the key and the master key it was   *)
(* encrypted under.  The process restarts at any moment, with another      *)
(* environment.                                                            *)
(***************************************************************************)
EXTENDS Integers

CONSTANTS
    Keys,       \* keys an operator may paste
    EnvKey,     \* the key given to the process as ANTHROPIC_API_KEY
    Masters,    \* values of APP_ENCRYPTION_KEY
    Screens,    \* settings screens open in browsers
    Typed,      \* what may be typed into, or set in the environment for, a
                \* cap; what is not a number reads as zero
    NoKey, NoMaster, NoRow, NoText, NoRequest, Nobody

Rows == [secret : Keys, under : Masters, ok : BOOLEAN, about : Keys]
KeyRequests == [op : {"save", "recheck"}, key : Keys, overtaken : BOOLEAN]

ASSUME KeysAssumption ==
    /\ NoKey \notin Keys /\ NoMaster \notin Masters /\ EnvKey \notin Keys
    /\ NoRow \notin Rows /\ NoRequest \notin KeyRequests /\ Nobody \notin Screens

VARIABLES
    row,        \* the service's row of app_credentials, or NoRow
    env,        \* [key : is ANTHROPIC_API_KEY set, master, cap]
    request,    \* Screens -> NoRequest or the request under way
    shown,      \* Screens -> the status the screen draws
    cap,        \* the stored value of threesixtygiving.maxPages, or NoText
    \* what was asked for, in the order it took effect
    chosen,     \* the key saved last, or NoKey after a removal
    overtaken,  \* the verdict in the row is of a test another write overtook
    writer,     \* the screen that wrote the row last
    capChosen   \* the cap accepted last, NoText once cleared

keyVars == <<row, env, request, shown, cap, chosen, overtaken, writer, capChosen>>

(* What readCredentialStatuses returns: never the key itself. *)
Status(r) == IF r = NoRow THEN NoRow ELSE [masked |-> r.secret, ok |-> r.ok]

KeysInit ==
    /\ row = NoRow
    /\ env \in [key : BOOLEAN, master : Masters \cup {NoMaster}, cap : {NoText}]
    /\ request = [s \in Screens |-> NoRequest]
    /\ shown = [s \in Screens |-> NoRow]
    /\ cap = NoText
    /\ chosen = NoKey
    /\ overtaken = FALSE
    /\ writer = Nobody
    /\ capChosen = NoText

-----------------------------------------------------------------------------
(* Who asks which key.                                                     *)

(* The two rules of what is available look at the row and the environment; *)
(* neither decrypts anything.                                              *)
IsWriterAvailable == env.key \/ (row # NoRow /\ row.ok)
LookupState == IF row = NoRow THEN "absent" ELSE IF row.ok THEN "available" ELSE "failing"

Decrypts == row # NoRow /\ env.master # NoMaster /\ row.under = env.master

(* The stored key wins; any reason it cannot be had leaves the environment *)
ProviderKey == IF Decrypts THEN row.secret ELSE IF env.key THEN EnvKey ELSE NoKey

(* The register's client has no such fall back: a row under another master *)
(* key is an error of the whole request.                                   *)
BuildClient ==
    IF env.master = NoMaster \/ row = NoRow THEN NoKey
    ELSE IF Decrypts THEN row.secret ELSE "throws"

-----------------------------------------------------------------------------
(* The setting: the database, then the environment, then the default.      *)

DefaultCap == 50
Legal(text) == text \in 1 .. 500

\* The bug of letting the environment win.
EnvironmentFirst ==
    IF env.cap # NoText THEN env.cap ELSE IF cap # NoText THEN cap ELSE DefaultCap

EffectiveSetting ==
    IF cap # NoText THEN cap ELSE IF env.cap # NoText THEN env.cap ELSE DefaultCap

(* The read of a funder takes a number above zero, and its own default for *)
(* anything else an environment may say.                                   *)
PagesInUse == IF EffectiveSetting > 0 THEN EffectiveSetting ELSE DefaultCap

(* An empty box clears; what is not a whole number in range is refused.    *)
SaveSetting(text) ==
    /\ text = NoText \/ Legal(text)
    /\ cap # text
    /\ cap' = text
    /\ capChosen' = text
    /\ UNCHANGED <<row, env, request, shown, chosen, overtaken, writer>>

-----------------------------------------------------------------------------
(* A key is saved.                                                         *)

\* The shape is right and the platform can encrypt; the check has begun.
BeginSave(s, key) ==
    /\ request[s] = NoRequest
    /\ env.master # NoMaster
    /\ request' = [request EXCEPT ![s] = [op |-> "save", key |-> key, overtaken |-> FALSE]]
    /\ UNCHANGED <<row, env, shown, cap, chosen, overtaken, writer, capChosen>>

\* Every test under way is from here on of a key that was read too early.
Overtake(s) ==
    [t \in Screens |-> IF t = s THEN NoRequest
                       ELSE IF request[t] # NoRequest /\ request[t].op = "recheck"
                            THEN [request[t] EXCEPT !.overtaken = TRUE]
                       ELSE request[t]]

(* The verdict is in: the key is stored whatever it says.                  *)
SaveCredential(s, ok) ==
    /\ request[s] # NoRequest /\ request[s].op = "save"
    /\ row' = [secret |-> request[s].key, under |-> env.master, ok |-> ok,
               about |-> request[s].key]
    /\ shown' = [shown EXCEPT ![s] = Status(row')]
    /\ request' = Overtake(s)
    /\ chosen' = request[s].key
    /\ overtaken' = FALSE
    /\ writer' = s
    /\ UNCHANGED <<env, cap, capChosen>>

DeleteCredential(s) ==
    /\ request[s] = NoRequest
    /\ shown[s] # NoRow             \* the button is drawn only beside a key
    /\ row' = NoRow
    /\ shown' = [shown EXCEPT ![s] = NoRow]
    /\ request' = Overtake(s)
    /\ chosen' = NoKey
    /\ overtaken' = FALSE
    /\ writer' = s
    /\ UNCHANGED <<env, cap, capChosen>>

-----------------------------------------------------------------------------
(* The stored key is tested again.                                         *)

BeginRecheck(s) ==
    /\ request[s] = NoRequest
    /\ shown[s] # NoRow
    /\ Decrypts
    /\ request' = [request EXCEPT ![s] = [op |-> "recheck", key |-> row.secret,
                                          overtaken |-> FALSE]]
    /\ UNCHANGED <<row, env, shown, cap, chosen, overtaken, writer, capChosen>>

\* The bug of writing the outcome with the upsert a save uses.
SavedBack(r, key, ok) == [secret |-> key, under |-> env.master, ok |-> ok, about |-> key]

(* UPDATE ... WHERE provider: the verdict alone, and only of a row there.  *)
WithVerdict(r, key, ok) ==
    IF r = NoRow THEN NoRow ELSE [r EXCEPT !.ok = ok, !.about = key]

RecordCredentialCheck(s, ok) ==
    /\ request[s] # NoRequest /\ request[s].op = "recheck"
    /\ row' = WithVerdict(row, request[s].key, ok)
    /\ shown' = [shown EXCEPT ![s] = Status(row')]
    /\ request' = [request EXCEPT ![s] = NoRequest]
    /\ overtaken' = request[s].overtaken
    /\ writer' = s
    /\ UNCHANGED <<env, cap, chosen, capChosen>>

-----------------------------------------------------------------------------
\* A screen is opened, or loaded again.
Load(s) ==
    /\ request[s] = NoRequest
    /\ shown[s] # Status(row)
    /\ shown' = [shown EXCEPT ![s] = Status(row)]
    /\ UNCHANGED <<row, env, request, cap, chosen, overtaken, writer, capChosen>>

\* The process is replaced; what was under way is lost with it.
Restart ==
    /\ env' \in [key : BOOLEAN, master : Masters \cup {NoMaster}, cap : Typed \cup {NoText}]
    /\ env' # env
    /\ request' = [s \in Screens |-> NoRequest]
    /\ UNCHANGED <<row, shown, cap, chosen, overtaken, writer, capChosen>>

KeysNext ==
    \/ \E s \in Screens :
          \/ \E key \in Keys : BeginSave(s, key)
          \/ \E ok \in BOOLEAN : SaveCredential(s, ok) \/ RecordCredentialCheck(s, ok)
          \/ DeleteCredential(s) \/ BeginRecheck(s) \/ Load(s)
    \/ \E text \in Typed \cup {NoText} : SaveSetting(text)
    \/ Restart

KeysSpec == KeysInit /\ [][KeysNext]_keyVars

-----------------------------------------------------------------------------
Statuses == [masked : Keys, ok : BOOLEAN]

(* The state keeps its shape. *)
KeysTypeOK ==
    /\ row \in Rows \cup {NoRow}
    /\ env \in [key : BOOLEAN, master : Masters \cup {NoMaster}, cap : Typed \cup {NoText}]
    /\ request \in [Screens -> KeyRequests \cup {NoRequest}]
    /\ shown \in [Screens -> Statuses \cup {NoRow}]
    /\ {cap, capChosen} \subseteq Typed \cup {NoText}
    /\ chosen \in Keys \cup {NoKey} /\ overtaken \in BOOLEAN
    /\ writer \in Screens \cup {Nobody}

(* The operator's last word stands, whatever tests, restarts and other     *)
(* screens do in between: the key stored is the one saved last and none    *)
(* after a removal, a test loses no key and brings none back, its verdict  *)
(* is of the key stored unless another write overtook it, the screen that  *)
(* wrote last draws what is stored; and the cap accepted last is the one a *)
(* read of a funder uses (src/secrets/store.ts, src/settings/registry.ts). *)
OperatorIsObeyed ==
    /\ IF chosen = NoKey THEN row = NoRow ELSE row # NoRow /\ row.secret = chosen
    /\ row # NoRow /\ ~overtaken => row.about = row.secret
    /\ writer # Nobody => shown[writer] = Status(row)
    /\ capChosen # NoText => PagesInUse = capChosen
    /\ capChosen = NoText /\ env.cap = NoText => PagesInUse = DefaultCap
    /\ PagesInUse > 0

(* "Record a fresh verification against the key already stored": the       *)
(* verdict drawn beside a key is of that key.  Not kept: the test writes   *)
(* by service, whichever key is there by then.                             *)
VerdictIsTheKeys == row # NoRow => row.about = row.secret

(* "'Available' is deliberately strict ... a key that is missing, or whose *)
(* last check failed ... all mean the person writes it themselves."  Not   *)
(* kept: a failing stored key beats a working one of the environment, and  *)
(* a key under another master key cannot be read at all.                   *)
AvailableMeansWorking ==
    IsWriterAvailable => ProviderKey # NoKey /\ (ProviderKey \in Keys => row.ok)

(* "Every failure path leaves the user able to continue by entering their  *)
(* details themselves."  Not kept after the master key was changed.        *)
LookupNeverBreaks == LookupState = "available" => BuildClient # "throws"
=============================================================================
