------------------------------- MODULE Serving -------------------------------
(***************************************************************************)
(* The processes of a deployment and their connections: the handle each    *)
(* process caches, the migrations it applies before it serves, the pool,   *)
(* and the transaction that gives a request its role and its tenant        *)
(* (src/db/index.ts, migrate.ts, postgres.ts, client.ts).                  *)
(*                                                                         *)
(* Several instances start at once on a host that may fail them at any     *)
(* moment; migrations are serialised by one advisory lock.  The SQL and the *)
(* record of a migration are one transaction, taken here as one step under *)
(* the lock.                                                               *)
(***************************************************************************)
EXTENDS Naturals, FiniteSets

CONSTANTS
    Instances, Requests, Tenants,
    Nobody,          \* no tenant, no request, no instance
    Migrations,      \* how many there are; they are numbered in order
    PoolMax,         \* max of createPool
    MaxFailures      \* bound: how often the host or the database fails a process

ASSUME ServingAssumption ==
    /\ {Migrations, PoolMax, MaxFailures} \subseteq Nat /\ PoolMax > 0
    /\ Nobody \notin Requests \cup Instances

VARIABLES
    handle,          \* the cached promise of each process
    build,           \* where its migrate() stands
    table,           \* whether schema_migrations exists
    applied,         \* schema_migrations
    lock,            \* who holds the advisory lock
    twice,           \* migrations whose SQL was run when they were recorded
    pool,            \* the connections of each process
    request,         \* what each request is doing
    failures

servingVars ==
    <<handle, build, table, applied, lock, twice, pool, request, failures>>

Slots == 1..PoolMax
Kinds == {"tenant", "user", "operator", "admin"}

(* What a fresh connection is: the owner's role, no setting, nobody's.     *)
Fresh == [by |-> Nobody, role |-> "owner", tenant |-> Nobody]
NoBuild == [at |-> "idle", seen |-> {}, next |-> 1]
Gone == [at |-> "away", on |-> Nobody, kind |-> "tenant", tenant |-> Nobody]

ServingTypeOK ==
    /\ handle \in [Instances -> {"none", "building", "ready"}]
    /\ \A i \in Instances :
         /\ build[i].at \in {"idle", "table", "read", "loop", "locked", "recheck"}
         /\ build[i].next \in 1..(Migrations + 1)
         /\ build[i].at # "idle" => handle[i] = "building"
    /\ applied \subseteq 1..Migrations /\ twice \subseteq 1..Migrations
    /\ lock \in Instances \cup {Nobody}
    /\ failures \in 0..MaxFailures

ServingInit ==
    /\ handle = [i \in Instances |-> "none"]
    /\ build = [i \in Instances |-> NoBuild]
    /\ table \in BOOLEAN
    /\ \E n \in 0..Migrations : applied = (IF table THEN 1..n ELSE {})
    /\ lock = Nobody /\ twice = {}
    /\ pool = [i \in Instances |-> [s \in Slots |-> Fresh]]
    /\ request = [r \in Requests |-> Gone]
    /\ failures = 0

-----------------------------------------------------------------------------
(* A request arrives; the first one on a process starts its build.         *)
Arrive(i) ==
    \E r \in Requests, k \in Kinds, t \in Tenants :
      /\ request[r].at = "away"
      /\ request' = [request EXCEPT ![r] =
            [at |-> "waiting", on |-> i, kind |-> k, tenant |-> t]]
      /\ handle' = [handle EXCEPT ![i] = IF @ = "none" THEN "building" ELSE @]
      /\ build' = [build EXCEPT ![i] =
            IF handle[i] = "none" THEN [NoBuild EXCEPT !.at = "table"] ELSE @]
      /\ UNCHANGED <<table, applied, lock, twice, pool, failures>>

(* Mutant: a promise that was rejected stays in the cache. *)
FailureIsKept(I) == handle

(* A build that failed is not kept: the cache is cleared, everyone waiting *)
(* for it gets the error, and the next request builds again.               *)
Forget(I) == [i \in Instances |-> IF i \in I THEN "none" ELSE handle[i]]

Refuse(I) ==
    [r \in Requests |-> IF request[r].on \in I /\ request[r].at = "waiting"
                        THEN Gone ELSE request[r]]

(* CREATE TABLE IF NOT EXISTS runs before any lock: of several processes   *)
(* that create it at the same moment, all but one may be refused.          *)
CreateTable(i) ==
    /\ build[i].at = "table" /\ table' = TRUE
    /\ \E lost \in SUBSET {j \in Instances \ {i} : build[j].at = "table" /\ ~table} :
         /\ handle' = Forget(lost) /\ request' = Refuse(lost)
         /\ build' = [j \in Instances |->
              IF j = i THEN [build[i] EXCEPT !.at = "read"]
              ELSE IF j \in lost THEN NoBuild ELSE build[j]]
    /\ UNCHANGED <<applied, lock, twice, pool, failures>>

ReadApplied(i) ==
    /\ build[i].at = "read"
    /\ build' = [build EXCEPT ![i].at = "loop", ![i].seen = applied]
    /\ UNCHANGED <<handle, table, applied, lock, twice, pool, request, failures>>

(* The next migration: passed over when it was there at the start; else    *)
(* the advisory lock is waited for; after the last the pool is served.     *)
StepOn(i) ==
    /\ build[i].at = "loop"
    /\ IF build[i].next > Migrations
       THEN /\ handle' = [handle EXCEPT ![i] = "ready"]
            /\ build' = [build EXCEPT ![i] = NoBuild]
       ELSE /\ build' = [build EXCEPT ![i] =
                 IF build[i].next \in build[i].seen
                 THEN [@ EXCEPT !.next = build[i].next + 1]
                 ELSE [@ EXCEPT !.at = "locked"]]
            /\ UNCHANGED handle
    /\ UNCHANGED <<table, applied, lock, twice, pool, request, failures>>

TakeLock(i) ==
    /\ build[i].at = "locked" /\ lock = Nobody
    /\ lock' = i /\ build' = [build EXCEPT ![i].at = "recheck"]
    /\ UNCHANGED <<handle, table, applied, twice, pool, request, failures>>

(* Mutant: what was read before the lock is believed. *)
WasToRun(i) == build[i].next \notin build[i].seen

(* Whether the migration still has to be run, looked at under the lock.    *)
StillToRun(i) == build[i].next \notin applied

(* The SQL and its record commit together, and the lock goes with them.    *)
RunMigration(i) ==
    /\ build[i].at = "recheck"
    /\ LET n == build[i].next
       IN IF StillToRun(i)
          THEN applied' = applied \cup {n}
               /\ twice' = IF n \in applied THEN twice \cup {n} ELSE twice
          ELSE UNCHANGED <<applied, twice>>
    /\ lock' = Nobody
    /\ build' = [build EXCEPT ![i].at = "loop", ![i].next = @ + 1]
    /\ UNCHANGED <<handle, table, pool, request, failures>>

Unlocked(i) == IF lock = i THEN Nobody ELSE lock

(* The database cannot be reached, or the statement fails: rolled back.    *)
BuildFails(i) ==
    /\ handle[i] = "building" /\ failures < MaxFailures
    /\ failures' = failures + 1
    /\ handle' = Forget({i}) /\ request' = Refuse({i})
    /\ build' = [build EXCEPT ![i] = NoBuild] /\ lock' = Unlocked(i)
    /\ UNCHANGED <<table, applied, twice, pool>>

(* The host recycles a process: its connections and requests go with it.   *)
Recycle(i) ==
    /\ failures < MaxFailures /\ failures' = failures + 1
    /\ handle' = [handle EXCEPT ![i] = "none"]
    /\ build' = [build EXCEPT ![i] = NoBuild] /\ lock' = Unlocked(i)
    /\ pool' = [pool EXCEPT ![i] = [s \in Slots |-> Fresh]]
    /\ request' = [r \in Requests |-> IF request[r].on = i THEN Gone ELSE request[r]]
    /\ UNCHANGED <<table, applied, twice>>

-----------------------------------------------------------------------------
(* BEGIN, SET LOCAL ROLE, set_config(..., true): what a connection carries *)
(* while a request holds it.  Only a tenant's transaction sets a tenant;   *)
(* the owner's changes nothing at all.                                     *)
RoleOf(kind) == CASE kind = "operator" -> "app_operator"
                  [] kind = "admin"    -> "owner"
                  [] OTHER             -> "app_user"

Begun(connection, r) ==
    [connection EXCEPT !.by = r,
        !.role = IF request[r].kind = "admin" THEN @ ELSE RoleOf(request[r].kind),
        !.tenant = IF request[r].kind = "tenant" THEN request[r].tenant ELSE @]

(* Mutant: the settings belong to the session. *)
SettingsOutlive(connection) == [connection EXCEPT !.by = Nobody]

(* COMMIT or ROLLBACK: both settings are local to the transaction.         *)
Ended(connection) == [connection EXCEPT !.by = Nobody, !.role = "owner", !.tenant = Nobody]

Connect(r) ==
    /\ request[r].at = "waiting" /\ handle[request[r].on] = "ready"
    /\ \E s \in Slots :
         /\ pool[request[r].on][s].by = Nobody
         /\ pool' = [pool EXCEPT ![request[r].on][s] = Begun(@, r)]
         /\ request' = [request EXCEPT ![r].at = "open"]
    /\ UNCHANGED <<handle, build, table, applied, lock, twice, failures>>

(* No connection within connectionTimeoutMillis: the caller gets the error.*)
TimeOut(r) ==
    /\ request[r].at = "waiting" /\ handle[request[r].on] = "ready"
    /\ \A s \in Slots : pool[request[r].on][s].by # Nobody
    /\ request' = [request EXCEPT ![r] = Gone]
    /\ UNCHANGED <<handle, build, table, applied, lock, twice, pool, failures>>

(* Inside its transaction a request wants the operator's connection too:   *)
(* withAdmin and withOperator throw instead of waiting for a second one.   *)
NestAdmin(r) ==
    /\ request[r].at = "open" /\ request[r].kind \in {"tenant", "user"}
    /\ request' = [request EXCEPT ![r].at = "thrown"]
    /\ UNCHANGED <<handle, build, table, applied, lock, twice, pool, failures>>

(* The transaction ends, well or badly, and the connection goes back.      *)
Finish(r) ==
    /\ request[r].at \in {"open", "thrown"}
    /\ \E s \in Slots :
         /\ pool[request[r].on][s].by = r
         /\ pool' = [pool EXCEPT ![request[r].on][s] = Ended(@)]
    /\ request' = [request EXCEPT ![r] = Gone]
    /\ UNCHANGED <<handle, build, table, applied, lock, twice, failures>>

BuildStep(i) ==
    CreateTable(i) \/ ReadApplied(i) \/ StepOn(i) \/ TakeLock(i) \/ RunMigration(i)

RequestStep(r) == Connect(r) \/ TimeOut(r) \/ NestAdmin(r) \/ Finish(r)

ServingNext ==
    \/ \E i \in Instances : Arrive(i) \/ BuildStep(i) \/ BuildFails(i) \/ Recycle(i)
    \/ \E r \in Requests : RequestStep(r)

(* A process and a transaction that run go on; who comes, what fails and   *)
(* when the host recycles is left open.                                    *)
ServingSpec ==
    /\ ServingInit /\ [][ServingNext]_servingVars
    /\ \A i \in Instances : WF_servingVars(BuildStep(i))
    /\ \A r \in Requests : WF_servingVars(Connect(r) \/ TimeOut(r)) /\ WF_servingVars(Finish(r))

-----------------------------------------------------------------------------
(* Several cold starts at once run no migration twice and leave none out:  *)
(* what is applied is an initial stretch of the list, whoever was killed   *)
(* on the way, and a process that serves serves a database that is up to   *)
(* date (migrate.ts:98-104).                                               *)
MigrationsRunOnce ==
    /\ twice = {}
    /\ \E n \in 0..Migrations : applied = 1..n
    /\ \A i \in Instances : handle[i] = "ready" => applied = 1..Migrations

(* A connection carries the role and the tenant of the request that holds  *)
(* it and of no earlier one, and a free connection carries neither; a      *)
(* request that asks who it is, before there is a tenant, has none         *)
(* (client.ts:79-80, 105-109).                                             *)
OwnTenantOnly ==
    \A i \in Instances, s \in Slots :
      LET c == pool[i][s]
      IN IF c.by = Nobody THEN c = Fresh
         ELSE /\ request[c.by].on = i
              /\ c.role = RoleOf(request[c.by].kind)
              /\ c.tenant = IF request[c.by].kind = "tenant"
                            THEN request[c.by].tenant ELSE Nobody

(* Cold starts that overlap, fail or are killed do no harm, and connections *)
(* that are used again carry nothing over (migrate.ts, client.ts).          *)
ServingIsSafe == MigrationsRunOnce /\ OwnTenantOnly

(* One unlucky moment is not permanent: a process people keep coming to    *)
(* serves from some point on, and everyone who waits is answered           *)
(* (index.ts:60-80).                                                       *)
ServesInTheEnd ==
    /\ \A i \in Instances :
         []<>(\E r \in Requests : request[r].on = i) => <>[](handle[i] = "ready")
    /\ \A r \in Requests : (request[r].at = "waiting") ~> (request[r].at # "waiting")

=============================================================================
