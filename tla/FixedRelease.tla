---------------------------- MODULE FixedRelease ----------------------------
(***************************************************************************)
(* `docex release`, `rollback` and `migrate` of a stage or prod env on the *)
(* fixed foundation: what docex does over SSH and by ansible to one host   *)
(* (docex/pipeline/release `_release_fixed`, docex/orchestrate/aggregate   *)
(* `ensure_tte_fixed`, docex/orchestrate/migrate, the emitted playbook).   *)
(*                                                                         *)
(* The host keeps the deploy directory (docker-compose.yml, tte.env, .env),*)
(* the containers and the engines' data volumes.  One step is one SSH read *)
(* or one task of the playbook; bringing up the stack recreates container  *)
(* by container.  A command may fail or be killed between any two of them. *)
(* A version stands for the images of its tag; rollback goes one back.     *)
(***************************************************************************)
EXTENDS Naturals, FiniteSets

CONSTANTS
    Operators,     \* who runs commands, one at a time each
    Services,      \* core services, one container each
    Keys,          \* minted keys, one per engine
    MaxVersion,    \* bound: versions the project reaches
    Shape,         \* version -> its services
    Declares,      \* version -> the minted keys of its engines
    MaxValues,     \* bound: credentials minted
    MaxCommands,   \* bound: commands started
    MaxFaults      \* bound: kills, failed tasks and masked reads

Versions == 1..MaxVersion
NoValue == 0
Credentials == [Keys -> 0..MaxValues]
Nothing == [k \in Keys |-> NoValue]

ASSUME FixedShapeAssumption ==
    /\ {MaxVersion, MaxValues, MaxCommands, MaxFaults} \subseteq Nat /\ MaxVersion > 0
    /\ Shape \in [Versions -> SUBSET Services] /\ Declares \in [Versions -> SUBSET Keys]

VARIABLES
    project,    \* the version in project.yml
    compose,    \* the version whose docker-compose.yml is on the host, or 0
    tteFile,    \* the host's tte.env
    envFile,    \* the credentials in the host's .env
    volume,     \* the credential each engine's data volume was made with
    schema,     \* the version the schema is migrated to
    container,  \* service -> its container
    cmd,        \* operator -> the command it runs
    done,       \* history: the version the last command deployed, or 0
    overlap,    \* history: two commands have run at once
    leapt,      \* history: a rollback to a version the env was never migrated to
    clobbered,  \* history: a masked read, or two reads before either one's write
    tally       \* values, commands and faults so far

hostVars == <<compose, tteFile, envFile, volume, schema, container>>
historyVars == <<done, overlap, leapt, clobbered>>
releaseVars == <<project, hostVars, cmd, historyVars, tally>>

None == [version |-> 0, env |-> Nothing, health |-> "none"]
Idle == [kind |-> "none", version |-> 1, pc |-> "idle", tte |-> Nothing]
Kinds == {"release", "rollback", "migrate"}

ReleaseInit ==
    /\ project = 1 /\ compose = 0
    /\ tteFile = Nothing /\ envFile = Nothing /\ volume = Nothing
    /\ schema = 0
    /\ container = [s \in Services |-> None]
    /\ cmd = [o \in Operators |-> Idle]
    /\ done = 0 /\ overlap = FALSE /\ leapt = FALSE /\ clobbered = FALSE
    /\ tally = [values |-> 0, commands |-> 0, faults |-> 0]

At(o, pc) == cmd[o].pc = pc
Goto(o, pc) == cmd' = [cmd EXCEPT ![o].pc = pc]
Ends(o) == cmd' = [cmd EXCEPT ![o] = Idle]
Counted(field, n) == tally' = [tally EXCEPT ![field] = @ + n]

-----------------------------------------------------------------------------
(* Commands.  release deploys what is checked out; rollback its predecessor *)
(* from a worktree of the tag, with migrations skipped; migrate runs only   *)
(* the playbook's tasks tagged migrate.                                     *)

Target(kind) == IF kind = "rollback" THEN project - 1 ELSE project

Begin(o, kind) ==
    /\ At(o, "idle") /\ tally.commands < MaxCommands
    /\ Target(kind) \in Versions
    /\ cmd' = [cmd EXCEPT ![o] = [kind |-> kind, version |-> Target(kind), tte |-> Nothing,
                                  pc |-> IF kind = "migrate" THEN "migrate" ELSE "read"]]
    /\ overlap' = (overlap \/ \E p \in Operators \ {o} : ~At(p, "idle"))
    /\ leapt' = (leapt \/ (kind = "rollback" /\ Target(kind) > schema))
    /\ done' = 0
    /\ Counted("commands", 1)
    /\ UNCHANGED <<project, hostVars, clobbered>>

\* A new version is merged, tagged and containerized.
Bump ==
    /\ project < MaxVersion
    /\ project' = project + 1
    /\ UNCHANGED <<hostVars, cmd, historyVars, tally>>

-----------------------------------------------------------------------------
(* ensure_tte_fixed: the host's store is read and what it lacks is minted.  *)

\* Another command has staged a store that it has yet to put on the host.
Races(o) ==
    \E p \in Operators \ {o} : cmd[p].pc \in {"compose", "tte"} /\ cmd[p].tte # cmd'[o].tte

SupersetDeclared(v, seen, fresh) ==   \* mutant: only declared keys are staged
    [k \in Keys |-> IF k \notin Declares[v] THEN NoValue
                    ELSE IF seen[k] = NoValue THEN fresh ELSE seen[k]]

\* Every value of the host is preserved, declared or not.
Superset(v, seen, fresh) ==
    [k \in Keys |-> IF k \in Declares[v] /\ seen[k] = NoValue THEN fresh ELSE seen[k]]

StageStore(o, seen) ==
    LET store == Superset(cmd[o].version, seen, tally.values + 1)
        mints == IF store = seen THEN 0 ELSE 1
    IN /\ tally.values + mints <= MaxValues
       /\ cmd' = [cmd EXCEPT ![o].tte = store, ![o].pc = "compose"]

ReadHostStore(o) ==
    /\ At(o, "read")
    /\ StageStore(o, tteFile)
    /\ tally' = [tally EXCEPT !.values = IF cmd'[o].tte = tteFile THEN @ ELSE @ + 1]
    /\ clobbered' = (clobbered \/ Races(o))
    /\ UNCHANGED <<project, hostVars, done, overlap, leapt>>

\* `2>/dev/null || true`: a read that fails on the host looks like an empty
\* store (only ssh's own 255 is told apart, which is Fail).
ReadMasked(o) ==
    /\ At(o, "read") /\ tteFile # Nothing /\ tally.faults < MaxFaults
    /\ StageStore(o, Nothing)
    /\ tally' = [tally EXCEPT !.faults = @ + 1, !.values = IF cmd'[o].tte = Nothing THEN @ ELSE @ + 1]
    /\ clobbered' = TRUE
    /\ UNCHANGED <<project, hostVars, done, overlap, leapt>>

-----------------------------------------------------------------------------
(* The playbook, task by task.                                              *)

RenderCompose(o) ==
    /\ At(o, "compose")
    /\ compose' = cmd[o].version
    /\ Goto(o, "tte")
    /\ UNCHANGED <<project, tteFile, envFile, volume, schema, container, historyVars, tally>>

RenderStore(o) ==
    /\ At(o, "tte")
    /\ tteFile' = cmd[o].tte
    /\ Goto(o, "env")
    /\ UNCHANGED <<project, compose, envFile, volume, schema, container, historyVars, tally>>

RenderEnvUnlessSkipped(o) ==   \* mutant: the task is tagged migrate, which a rollback skips
    /\ At(o, "env")
    /\ envFile' = IF cmd[o].kind = "rollback" THEN envFile
                  ELSE [k \in Keys |-> IF k \in Declares[cmd[o].version] THEN cmd[o].tte[k] ELSE NoValue]
    /\ Goto(o, IF cmd[o].kind = "rollback" THEN "up" ELSE "migrate")
    /\ UNCHANGED <<project, compose, tteFile, volume, schema, container, historyVars, tally>>

RenderEnvThenUp(o) ==   \* mutant: migrations are skipped in a release too
    /\ At(o, "env")
    /\ envFile' = [k \in Keys |-> IF k \in Declares[cmd[o].version] THEN cmd[o].tte[k] ELSE NoValue]
    /\ Goto(o, "up")
    /\ UNCHANGED <<project, compose, tteFile, volume, schema, container, historyVars, tally>>

\* The aggregate holds the declared keys.  The images are pulled next: a pull
\* changes nothing here and can only fail.
RenderEnv(o) ==
    /\ At(o, "env")
    /\ envFile' = [k \in Keys |-> IF k \in Declares[cmd[o].version] THEN cmd[o].tte[k] ELSE NoValue]
    /\ Goto(o, IF cmd[o].kind = "rollback" THEN "up" ELSE "migrate")
    /\ UNCHANGED <<project, compose, tteFile, volume, schema, container, historyVars, tally>>

\* An engine makes its volume with the credential it is first started with.
EnginesStarted ==
    [k \in Keys |-> IF k \in Declares[compose] /\ volume[k] = NoValue THEN envFile[k] ELSE volume[k]]

CanLogIn == \A k \in Declares[compose] : envFile[k] # NoValue /\ envFile[k] = EnginesStarted[k]

\* `compose run` of the exec service: of the compose file on the host, which
\* for `migrate` is the one last released.
Migrate(o) ==
    /\ At(o, "migrate") /\ compose # 0
    /\ volume' = EnginesStarted
    /\ IF CanLogIn
       THEN /\ schema' = IF compose > schema THEN compose ELSE schema
            /\ IF cmd[o].kind = "migrate" THEN Ends(o) ELSE Goto(o, "up")
       ELSE Ends(o) /\ UNCHANGED schema
    /\ UNCHANGED <<project, compose, tteFile, envFile, container, historyVars, tally>>

Fresh == [version |-> compose, env |-> envFile, health |-> "starting"]
Current(s) == container[s].version = compose /\ container[s].env = envFile

\* `up` recreates what changed and removes orphans, in whatever order.
Recreate(o, s) ==
    /\ At(o, "up") /\ s \in Shape[compose] /\ ~Current(s)
    /\ volume' = EnginesStarted
    /\ container' = [container EXCEPT ![s] = Fresh]
    /\ UNCHANGED <<project, compose, tteFile, envFile, schema, cmd, historyVars, tally>>

RemoveOrphan(o, s) ==
    /\ At(o, "up") /\ s \notin Shape[compose] /\ container[s] # None
    /\ container' = [container EXCEPT ![s] = None]
    /\ UNCHANGED <<project, compose, tteFile, envFile, volume, schema, cmd, historyVars, tally>>

Deployed == {s \in Services : container[s] # None}

\* The command looks at nothing but ansible's exit code (release.py:202).  The
\* guard is what that exit code means: the module of the playbook's last task
\* returns once each container is current and no orphan is left.
FinishUp(o) ==
    /\ At(o, "up")
    /\ Deployed = Shape[compose] /\ \A s \in Shape[compose] : Current(s)
    /\ done' = cmd[o].version
    /\ Ends(o)
    /\ UNCHANGED <<project, hostVars, overlap, leapt, clobbered, tally>>

-----------------------------------------------------------------------------
(* The host, and faults.                                                    *)

Report(s, health) ==
    /\ container[s] # None /\ container[s].health # health
    /\ health = "healthy" \/ container[s].health = "starting" \/ tally.faults < MaxFaults
    /\ container' = [container EXCEPT ![s].health = health]
    /\ tally' = IF health = "healthy" \/ container[s].health = "starting" THEN tally
                ELSE [tally EXCEPT !.faults = @ + 1]
    /\ UNCHANGED <<project, compose, tteFile, envFile, volume, schema, cmd, historyVars>>

\* ssh 255, a failed task, or a kill: the command stops where it is.
Fail(o) ==
    /\ ~At(o, "idle") /\ tally.faults < MaxFaults
    /\ Ends(o)
    /\ Counted("faults", 1)
    /\ UNCHANGED <<project, hostVars, historyVars>>

ReleaseStep(o) ==
    \/ ReadHostStore(o) \/ ReadMasked(o)
    \/ RenderCompose(o) \/ RenderStore(o) \/ RenderEnv(o) \/ Migrate(o)
    \/ \E s \in Services : Recreate(o, s) \/ RemoveOrphan(o, s)
    \/ FinishUp(o)

ReleaseNext ==
    \/ \E o \in Operators :
        \/ \E kind \in Kinds : Begin(o, kind)
        \/ ReleaseStep(o)
        \/ Fail(o)
    \/ Bump
    \/ \E s \in Services, health \in {"healthy", "unhealthy"} : Report(s, health)

ReleaseSpec == ReleaseInit /\ [][ReleaseNext]_releaseVars

-----------------------------------------------------------------------------
ReleasePhases == {"idle", "read", "compose", "tte", "env", "migrate", "up"}

ReleaseTypeOK ==
    /\ project \in Versions
    /\ compose \in 0..MaxVersion /\ schema \in 0..MaxVersion /\ done \in 0..MaxVersion
    /\ tteFile \in Credentials /\ envFile \in Credentials /\ volume \in Credentials
    /\ container \in [Services -> [version : 0..MaxVersion, env : Credentials,
                                   health : {"none", "starting", "healthy", "unhealthy"}]]
    /\ cmd \in [Operators -> [kind : Kinds \cup {"none"}, version : Versions,
                              pc : ReleasePhases, tte : Credentials]]
    /\ overlap \in BOOLEAN /\ leapt \in BOOLEAN /\ clobbered \in BOOLEAN
    /\ tally \in [{"values", "commands", "faults"} -> Nat]

\* The host's store is authoritative (aggregate.py:119): through interrupted
\* releases, rollbacks to a version without the engine, and two operators, the
\* credential an engine's volume was made with stays in it, unless a read of it
\* was masked or two operators staged different stores at once.
HostCredentialKept ==
    ~clobbered => \A k \in Keys : volume[k] # NoValue => tteFile[k] = volume[k]

\* No container runs a version that the schema was not migrated to
\* (playbook.yml.j2: migrations before the stack), wherever commands stop, as
\* long as they do not overlap and none is a rollback to a version that this env
\* never was on: rollback compares with project.yml only, and skips migrations.
FixedSchemaBeforeCode ==
    (~overlap /\ ~leapt) => \A s \in Services : container[s].version <= schema

\* A release or rollback that reported success opens its databases: each engine
\* of its version has a volume, made with the very credential the containers
\* were given.  A rollback skips the migrations that would have tried the login,
\* and may come back to an engine whose credential an interrupted command minted
\* and a version without the engine kept (aggregate.py:119, playbook.yml.j2:35).
DeployedCanLogIn ==
    (done # 0 /\ ~overlap /\ ~clobbered) =>
        \A s \in Shape[done], k \in Declares[done] :
            container[s].env[k] # NoValue /\ container[s].env[k] = volume[k]
=============================================================================
