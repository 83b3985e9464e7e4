---------------------------- MODULE ElasticRelease ----------------------------
(***************************************************************************)
(* `docex release`, `docex rollback` and `docex migrate` of one stage or   *)
(* prod env on the elastic foundation (docex/pipeline/{release,rollback},  *)
(* docex/orchestrate/migrate), against what AWS and tofu keep: the SSM     *)
(* prefix, the state lock, the ECS services with their deployments, the    *)
(* migration task definitions and tasks, and the schema.                   *)
(*                                                                         *)
(* One step is one call of the AWS client, or one resource that an apply   *)
(* converges.  A command may fail or be killed between any two of them;    *)
(* what it started in ECS goes on without it.                              *)
(*                                                                         *)
(* A version is the minor of a project version.  Time is told only as far  *)
(* as the reconcile tells it: a name is recent for a minute, its margin.   *)
(***************************************************************************)
EXTENDS Naturals, FiniteSets

CONSTANTS
    Operators,       \* who runs commands, one at a time each
    NoOne,
    Services,        \* core services, each its own ECS service
    Uses,            \* pairs <<consumer, target>>
    Owners,          \* codebases that own a schema
    MaxVersion,      \* bound: versions the project reaches
    Shape,           \* version -> the services its infra.yml declares
    MaxEdits,        \* bound: edits of infra/secrets/<env>.env
    MaxRollbacks,    \* bound: rollbacks started
    MaxFaults        \* bound: kills, failed calls and timeouts

ASSUME OperatorsAssumption == NoOne \notin Operators
ASSUME ShapeAssumption ==
    /\ {MaxVersion, MaxEdits, MaxRollbacks, MaxFaults} \subseteq Nat
    /\ MaxVersion > 0
    /\ Shape \in [1..MaxVersion -> SUBSET Services]
    /\ \A v \in 1..MaxVersion : Shape[v] # {}
    /\ Uses \subseteq Services \X Services

Versions == 1..MaxVersion
Absent == [version |-> 0, env |-> 0, clear |-> {}, sees |-> {}]

VARIABLES
    project,     \* the version in project.yml
    secrets,     \* the revision of the operator's secrets file
    ssm,         \* the revision that the SSM prefix holds
    lock,        \* who holds the lock of the tofu state
    database,    \* does the RDS instance exist
    schema,      \* owner -> the version its schema is migrated to
    migrateDef,  \* owner -> the version of the latest migration task def
    running,     \* migration tasks that run in ECS
    service,     \* the PRIMARY deployment of each ECS service
    recent,      \* names registered less than the margin ago
    racing,      \* names that a deployment created now may not see
    cmd,         \* the command each operator runs
    count        \* faults and rollbacks so far

localVars == <<project, secrets>>
names == <<recent, racing>>
awsVars == <<ssm, lock, database, schema, migrateDef, running, service, names>>
vars == <<localVars, awsVars, cmd, count>>

Idle == [pc |-> "idle", kind |-> "none", version |-> 0, first |-> FALSE,
         owners |-> {}, stale |-> {}]
Applying == {"targeting", "applying"}
CmdStates == {"idle", "push", "detect", "target", "migrate", "wait", "apply",
              "reconcile", "force", "released"} \cup Applying

Deployments ==
    [version : 0..MaxVersion, env : Nat, clear : SUBSET Services,
     sees : SUBSET Services]
Tasks == [owner : Owners, version : Versions, by : Operators \cup {NoOne}]

TypeOK ==
    /\ project \in Versions /\ {secrets, ssm} \subseteq Nat
    /\ lock \in Operators \cup {NoOne} /\ database \in BOOLEAN
    /\ schema \in [Owners -> 0..MaxVersion]
    /\ migrateDef \in [Owners -> 0..MaxVersion]
    /\ running \subseteq Tasks
    /\ service \in [Services -> Deployments]
    /\ racing \subseteq recent /\ recent \subseteq Services
    /\ cmd \in [Operators ->
                  [pc : CmdStates,
                   kind : {"none", "release", "rollback", "migrate"},
                   version : 0..MaxVersion, first : BOOLEAN,
                   owners : SUBSET Owners, stale : SUBSET Services]]
    /\ count \in [{"fault", "rollback"} -> Nat]

Init ==
    /\ project = 1 /\ secrets = 1 /\ ssm = 0
    /\ lock = NoOne
    /\ database = FALSE
    /\ schema = [w \in Owners |-> 0]
    /\ migrateDef = [w \in Owners |-> 0]
    /\ running = {}
    /\ service = [s \in Services |-> Absent]
    /\ recent = {} /\ racing = {}
    /\ cmd = [o \in Operators |-> Idle]
    /\ count = [k \in {"fault", "rollback"} |-> 0]

----------------------------------------------------------------------------
Present(s) == service[s] # Absent
At(o, pc) == cmd[o].pc = pc
Goto(o, pc) == cmd' = [cmd EXCEPT ![o].pc = pc]
Finish(o) == cmd' = [cmd EXCEPT ![o] = Idle]
Fault ==
    /\ count["fault"] < MaxFaults
    /\ count' = [count EXCEPT !["fault"] = @ + 1]

\* A command that ends leaves its migration task to run on in ECS.
Abandoned(o) ==
    {t \in running : t.by # o}
        \cup {[t EXCEPT !.by = NoOne] : t \in {u \in running : u.by = o}}

\* What a deployment created now can resolve, for as long as it lives: every
\* name registered before it, but of those that race with it whichever won.
\* `clear` are the names that it postdates by more than the margin.
NewDeployments(v) ==
    LET registered == {s \in Services : Present(s)}
    IN  {[version |-> v, env |-> ssm, clear |-> registered \ recent,
          sees |-> registered \ lost] : lost \in SUBSET racing}

\* A name that goes away takes with it what deployments knew of it: should
\* it be registered again, it is a new endpoint.
Forgets(d, s) == [d EXCEPT !.clear = @ \ {s}, !.sees = @ \ {s}]

----------------------------------------------------------------------------
(* Starting a command, and its first steps.                                *)

BeginAtItsName(o, kind) ==   \* mutant: every command starts at the step of its name
    /\ At(o, "idle")
    /\ cmd' = [cmd EXCEPT ![o] =
                  [Idle EXCEPT !.kind = kind, !.version = project,
                      !.owners = Owners, !.pc = kind]]
    /\ UNCHANGED <<localVars, awsVars, count>>

\* `release` and `migrate` act for the version of the working tree.
Begin(o, kind) ==
    /\ At(o, "idle")
    /\ kind \in {"release", "migrate"}
    /\ cmd' = [cmd EXCEPT ![o] =
                  [Idle EXCEPT !.kind = kind, !.version = project,
                      !.owners = Owners,
                      !.pc = IF kind = "release" THEN "push" ELSE "migrate"]]
    /\ UNCHANGED <<localVars, awsVars, count>>

\* validate_one_minor_back compares the target with project.yml.
OneMinorBack(v) == v < project /\ project - v <= 1

BeginRollback(o, v) ==
    /\ At(o, "idle")
    /\ count["rollback"] < MaxRollbacks
    /\ OneMinorBack(v)
    /\ count' = [count EXCEPT !["rollback"] = @ + 1]
    /\ cmd' = [cmd EXCEPT ![o] = [Idle EXCEPT
                  !.pc = "push", !.kind = "rollback", !.version = v]]
    /\ UNCHANGED <<localVars, awsVars>>

\* aggregate_elastic: parameter after parameter, so a failure may come after
\* some or all of them.
PushSSM(o) ==
    /\ At(o, "push")
    /\ \/ /\ ssm' = secrets
          /\ Goto(o, IF cmd[o].kind = "rollback" THEN "apply" ELSE "detect")
          /\ UNCHANGED count
       \/ Fault /\ ssm' \in {ssm, secrets} /\ Finish(o)
    /\ UNCHANGED <<localVars, lock, database, schema, migrateDef, running,
                   service, names>>

DetectMissing(o) ==   \* mutant: any service that is yet to come counts
    /\ At(o, "detect")
    /\ LET first == \E s \in Shape[cmd[o].version] : ~Present(s)
       IN  cmd' = [cmd EXCEPT ![o].first = first,
                      ![o].pc = IF first THEN "apply" ELSE "target"]
    /\ UNCHANGED <<localVars, awsVars, count>>

\* A first release is one into a cluster that holds no service.
Detect(o) ==
    /\ At(o, "detect")
    /\ LET first == \A s \in Services : ~Present(s)
       IN  cmd' = [cmd EXCEPT ![o].first = first,
                      ![o].pc = IF first THEN "apply"
                                ELSE IF Owners = {} THEN "migrate"
                                ELSE "target"]
    /\ UNCHANGED <<localVars, awsVars, count>>

----------------------------------------------------------------------------
(* tofu                                                                    *)

\* An apply that finds the state locked fails at once.
TakeLock(o) ==
    /\ cmd[o].pc \in {"target", "apply"}
    /\ IF lock = NoOne
       THEN /\ lock' = o
            /\ Goto(o, IF At(o, "target") THEN "targeting" ELSE "applying")
       ELSE Finish(o) /\ UNCHANGED lock
    /\ UNCHANGED <<localVars, ssm, database, schema, migrateDef, running,
                   service, names, count>>

\* Either apply converges the migration task definitions, and before one the
\* database whose endpoint its environment names.
RegisterMigrateDef(o, w) ==
    /\ cmd[o].pc \in Applying
    /\ migrateDef[w] # cmd[o].version
    /\ migrateDef' = [migrateDef EXCEPT ![w] = cmd[o].version]
    /\ database' = TRUE
    /\ UNCHANGED <<localVars, ssm, lock, schema, running, service, names, cmd,
                   count>>

\* The full apply converges the services in any order: a new one registers
\* its name, an image of another version makes a new deployment.
Deploy(o, s) ==
    /\ At(o, "applying")
    /\ Owners # {} => database
    /\ s \in Shape[cmd[o].version]
    /\ service[s].version # cmd[o].version
    /\ \E d \in NewDeployments(cmd[o].version) :
          service' = [service EXCEPT ![s] = d]
    /\ IF Present(s) THEN UNCHANGED names
       ELSE recent' = recent \cup {s} /\ racing' = racing \cup {s}
    /\ UNCHANGED <<localVars, ssm, lock, database, schema, migrateDef, running,
                   cmd, count>>

Undeploy(o, s) ==
    /\ At(o, "applying")
    /\ Present(s) /\ s \notin Shape[cmd[o].version]
    /\ service' = [c \in Services |->
                      IF c = s THEN Absent ELSE Forgets(service[c], s)]
    /\ recent' = recent \ {s} /\ racing' = racing \ {s}
    /\ UNCHANGED <<localVars, ssm, lock, database, schema, migrateDef, running,
                   cmd, count>>

DefsConverged(o) == \A w \in Owners : migrateDef[w] = cmd[o].version
ServicesConverged(v) ==
    \A s \in Services : service[s].version = IF s \in Shape[v] THEN v ELSE 0

\* wait_for_steady_state holds the full apply until its last deployment has
\* settled, which takes longer than the race over a name.
ApplyDone(o) ==
    /\ cmd[o].pc \in Applying
    /\ DefsConverged(o)
    /\ At(o, "applying") => ServicesConverged(cmd[o].version)
    /\ lock' = NoOne
    /\ racing' = IF At(o, "applying") THEN {} ELSE racing
    /\ Goto(o, IF At(o, "targeting") \/ cmd[o].first THEN "migrate"
                                                     ELSE "reconcile")
    /\ UNCHANGED <<localVars, ssm, database, schema, migrateDef, running,
                   service, recent, count>>

\* TofuApplyFailed: what has been converged stays.
ApplyFails(o) ==
    /\ cmd[o].pc \in Applying
    /\ Fault
    /\ lock' = NoOne
    /\ Finish(o)
    /\ UNCHANGED <<localVars, ssm, database, schema, migrateDef, running,
                   service, names>>

----------------------------------------------------------------------------
(* _migrate_elastic                                                        *)

MigrationsDone(o) ==
    /\ At(o, "migrate") /\ cmd[o].owners = {}
    /\ Goto(o, CASE cmd[o].kind = "migrate" -> "released"
                 [] cmd[o].first            -> "reconcile"
                 [] OTHER                   -> "apply")
    /\ UNCHANGED <<localVars, awsVars, count>>

\* RunTask resolves the latest revision of the family.  Without one, or
\* without the security group that comes with the database, it raises.
RunTask(o, w) ==
    /\ At(o, "migrate") /\ w \in cmd[o].owners
    /\ IF migrateDef[w] > 0 /\ database
       THEN /\ running' = running \cup
                  {[owner |-> w, version |-> migrateDef[w], by |-> o]}
            /\ Goto(o, "wait")
       ELSE Finish(o) /\ UNCHANGED running
    /\ UNCHANGED <<localVars, ssm, lock, database, schema, migrateDef, service,
                   names, count>>

\* The task ends in ECS.  A migration is idempotent and forward-only; the
\* command that waits for it goes on to the next owner, or aborts.
TaskSucceeds(t) ==
    /\ running' = running \ {t}
    /\ schema' = [schema EXCEPT ![t.owner] = IF t.version > @ THEN t.version
                                                               ELSE @]
    /\ cmd' = IF t.by = NoOne THEN cmd
              ELSE [cmd EXCEPT ![t.by].pc = "migrate",
                               ![t.by].owners = @ \ {t.owner}]
    /\ UNCHANGED <<localVars, ssm, lock, database, migrateDef, service, names,
                   count>>

TaskFails(t) ==
    /\ Fault
    /\ running' = running \ {t}
    /\ cmd' = IF t.by = NoOne THEN cmd ELSE [cmd EXCEPT ![t.by] = Idle]
    /\ UNCHANGED <<localVars, ssm, lock, database, schema, migrateDef, service,
                   names>>

\* ecs_wait_for_task gives up after ten minutes; the task does not.
WaitTimesOut(o) ==
    /\ At(o, "wait")
    /\ Fault
    /\ running' = Abandoned(o)
    /\ Finish(o)
    /\ UNCHANGED <<localVars, ssm, lock, database, schema, migrateDef, service,
                   names>>

----------------------------------------------------------------------------
(* _reconcile_service_connect_consumers                                    *)

StaleIfRecent(v) ==   \* mutant: only what this release has registered
    {c \in Shape[v] : \E t \in Shape[v] \cap recent :
        <<c, t>> \in Uses /\ t \notin service[c].clear}

\* The consumers whose deployment is not known to be younger, by the margin,
\* than the registration of every name they use.
Stale(v) ==
    {c \in Shape[v] : \E t \in Shape[v] :
        <<c, t>> \in Uses /\ Present(t) /\ t \notin service[c].clear}

Reconcile(o) ==
    /\ At(o, "reconcile")
    /\ LET stale == Stale(cmd[o].version)
       IN  cmd' = [cmd EXCEPT ![o].stale = stale,
                      ![o].pc = IF stale = {} THEN "released" ELSE "force"]
    /\ UNCHANGED <<localVars, awsVars, count>>

ForceNewDeploymentOnce(o, c) ==   \* mutant: the loop ends after the first
    /\ At(o, "force") /\ c \in cmd[o].stale
    /\ Present(c)
    /\ \E d \in NewDeployments(service[c].version) :
          service' = [service EXCEPT ![c] = d]
    /\ cmd' = [cmd EXCEPT ![o].stale = {}, ![o].pc = "released"]
    /\ UNCHANGED <<localVars, ssm, lock, database, schema, migrateDef, running,
                   names, count>>

\* A redeployment that is refused fails the release; one that is slow to
\* settle is a warning.
ForceNewDeployment(o, c) ==
    /\ At(o, "force") /\ c \in cmd[o].stale
    /\ \/ /\ Present(c)
          /\ \E d \in NewDeployments(service[c].version) :
                service' = [service EXCEPT ![c] = d]
          /\ LET rest == cmd[o].stale \ {c}
             IN  cmd' = [cmd EXCEPT ![o].stale = rest,
                            ![o].pc = IF rest = {} THEN "released" ELSE @]
          /\ UNCHANGED count
       \/ Fault /\ Finish(o) /\ UNCHANGED service
    /\ UNCHANGED <<localVars, ssm, lock, database, schema, migrateDef, running,
                   names>>

\* The command prints its success and returns 0.
Return(o) ==
    /\ At(o, "released")
    /\ Finish(o)
    /\ UNCHANGED <<localVars, awsVars, count>>

----------------------------------------------------------------------------
(* Around the commands.                                                    *)

\* A killed command leaves the lock of its apply behind.
Kill(o) ==
    /\ ~At(o, "idle")
    /\ Fault
    /\ running' = Abandoned(o)
    /\ Finish(o)
    /\ UNCHANGED <<localVars, ssm, lock, database, schema, migrateDef, service,
                   names>>

\* `tofu force-unlock`, by hand, of an apply that is no more.
ForceUnlock(o) ==
    /\ lock = o /\ cmd[o].pc \notin Applying
    /\ lock' = NoOne
    /\ UNCHANGED <<localVars, ssm, database, schema, migrateDef, running,
                   service, names, cmd, count>>

TimePasses ==
    /\ recent # {}
    /\ racing' = {} /\ recent' \in {recent, {}}
    /\ UNCHANGED <<localVars, ssm, lock, database, schema, migrateDef, running,
                   service, cmd, count>>

\* Check, merge and containerize bring the next version to main.
NextVersion ==
    /\ project < MaxVersion
    /\ project' = project + 1
    /\ UNCHANGED <<secrets, awsVars, cmd, count>>

EditSecrets ==
    /\ secrets <= MaxEdits
    /\ secrets' = secrets + 1
    /\ UNCHANGED <<project, awsVars, cmd, count>>

----------------------------------------------------------------------------
CommandStep(o) ==
    \/ PushSSM(o) \/ Detect(o) \/ TakeLock(o)
    \/ \E w \in Owners : RegisterMigrateDef(o, w) \/ RunTask(o, w)
    \/ \E s \in Services :
          Deploy(o, s) \/ Undeploy(o, s) \/ ForceNewDeployment(o, s)
    \/ ApplyDone(o) \/ ApplyFails(o)
    \/ MigrationsDone(o) \/ WaitTimesOut(o) \/ Reconcile(o) \/ Return(o)

Next ==
    \/ \E o \in Operators :
          \/ \E kind \in {"release", "migrate"} : Begin(o, kind)
          \/ \E v \in Versions : BeginRollback(o, v)
          \/ CommandStep(o) \/ Kill(o) \/ ForceUnlock(o)
    \/ \E t \in running : TaskSucceeds(t) \/ TaskFails(t)
    \/ TimePasses \/ NextVersion \/ EditSecrets

Spec == Init /\ [][Next]_vars

\* Commands and tasks run on, an operator who finds the state locked unlocks
\* it, and one whose release did not succeed runs it again.
Fairness ==
    /\ \A o \in Operators :
          /\ WF_vars(CommandStep(o)) /\ WF_vars(ForceUnlock(o))
          /\ SF_vars(Begin(o, "release"))
    /\ WF_vars(\E t \in running : TaskSucceeds(t))

FairSpec == Spec /\ Fairness

----------------------------------------------------------------------------
(* Properties                                                              *)

Resolves(v) ==
    \A c, t \in Shape[v] : <<c, t>> \in Uses => t \in service[c].sees

Deployed(o) == At(o, "released") /\ cmd[o].kind # "migrate"

\* A release or a rollback that returns 0 leaves exactly the services of its
\* version, each of them on it, and a release a schema that is at least as
\* new, whatever failed or was killed before it. It leaves every consumer on a
\* deployment that can resolve each name the consumer uses, although an apply
\* creates the two in any order and a name may have come after the deployment,
\* in an earlier command or in this one (release.py:349).
SuccessIsServing ==
    \A o \in Operators : Deployed(o) =>
        /\ ServicesConverged(cmd[o].version)
        /\ cmd[o].kind = "release" =>
              \A w \in Owners : schema[w] >= cmd[o].version
        /\ Resolves(cmd[o].version)

\* A release into an env that has services starts no code of its version
\* before the schema is migrated to it; it replaces no running code of an
\* older version before that, whatever it took the env for.
SchemaBeforeCode ==
    [][\A o \in Operators, s \in Services :
          (/\ At(o, "applying") /\ cmd[o].kind = "release"
           /\ Present(s) \/ ~cmd[o].first
           /\ cmd'[o].pc = "applying"
           /\ service'[s].version > service[s].version)
              => \A w \in Owners : schema[w] >= service'[s].version]_vars

\* No interrupted command is a dead end: by running the release again the
\* operator brings the env to the version of project.yml.
ReleaseConverges ==
    <>[](/\ ServicesConverged(project) /\ Resolves(project)
         /\ \A w \in Owners : schema[w] >= project)

=============================================================================
