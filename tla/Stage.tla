------------------------------- MODULE Stage -------------------------------
(***************************************************************************)
(* The stage env as `docex stagetest` finds it: its gate reads every core  *)
(* service from the orchestrator (docex/pipeline/orchestrator_health),     *)
(* builds the tester, runs it (docex/pipeline/stagetest) and certifies the *)
(* version, while releases and the orchestrator go on moving what it reads.*)
(*                                                                         *)
(* On the fixed foundation the world is the host of FixedRelease.  On the  *)
(* elastic one it is ECS: tasks that are placed, become healthy, crash and *)
(* are drained by rolling deployments.  One step of the gate is one call.  *)
(***************************************************************************)
EXTENDS FixedRelease

CONSTANTS
    Clocks,   \* the services of role clock
    TaskIds   \* bound: the tasks each service ever has, numbered as they come

ASSUME StageAssumption == Clocks \subseteq Services /\ TaskIds \subseteq Nat

VARIABLES
    foundation,  \* of the env: "fixed" or "elastic"
    wanted,      \* the version the last apply of the env rolls out
    primary,     \* service -> the version of its PRIMARY deployment, or 0
    task,        \* service -> id -> the task, or Never
    gate,        \* the stagetest that runs
    certified,   \* the version the last stagetest certified, or 0
    calm,        \* history: nothing was deployed since the gate began
    seenUp       \* history: services the gate saw running

ecsVars == <<wanted, primary, task>>
gateVars == <<gate, certified, calm, seenUp>>
vars == <<releaseVars, foundation, ecsVars, gateVars>>

Never == [version |-> 0, last |-> "never", kept |-> FALSE, health |-> "UNKNOWN"]
Gone == [Never EXCEPT !.last = "STOPPED"]
NoGate == [pc |-> "idle", version |-> 1, todo |-> {}, svc |-> CHOOSE s \in Services : TRUE,
           arns |-> {}, again |-> FALSE]

Init ==
    /\ ReleaseInit
    /\ foundation \in {"fixed", "elastic"}
    /\ wanted = 0
    /\ primary = [s \in Services |-> 0]
    /\ task = [s \in Services |-> [i \in TaskIds |-> Never]]
    /\ gate = NoGate /\ certified = 0 /\ calm = FALSE /\ seenUp = {}

-----------------------------------------------------------------------------
(* ECS.  A task is kept while its desired status is RUNNING; a stage service *)
(* wants one.                                                                *)

Live(s) == {i \in TaskIds : task[s][i].last \in {"PENDING", "RUNNING"}}
Kept(s) == {i \in TaskIds : task[s][i].kept}
KeptOf(s, v) == {i \in Kept(s) : task[s][i].version = v}
HealthyOf(s) == {i \in Kept(s) : task[s][i].last = "RUNNING" /\ task[s][i].health = "HEALTHY"}

\* A clock is stopped before it is started anew; ECS's defaults otherwise.
Percents(s) == IF s \in Clocks THEN [min |-> 0, max |-> 100] ELSE [min |-> 100, max |-> 200]

\* The apply of a release of the checked-out version, or of a rollback.
Deploy(v) ==
    /\ foundation = "elastic" /\ v # wanted
    /\ v \in {project, wanted - 1} \cap Versions
    /\ tally.commands < MaxCommands
    /\ wanted' = v
    /\ calm' = FALSE
    /\ Counted("commands", 1)
    /\ UNCHANGED <<project, hostVars, cmd, historyVars, foundation, primary, task,
                   gate, certified, seenUp>>

SetTask(s, i, t) == task' = [task EXCEPT ![s][i] = t]
EcsOnly == UNCHANGED <<releaseVars, foundation, wanted, gateVars>>

\* The apply reaches the service; it may fail before it reaches the others.
Roll(s) ==
    /\ wanted # 0 /\ s \in Shape[wanted] /\ primary[s] # wanted
    /\ primary' = [primary EXCEPT ![s] = wanted]
    /\ calm' = FALSE
    /\ UNCHANGED <<releaseVars, foundation, wanted, task, gate, certified, seenUp>>

Place(s, i) ==
    /\ primary[s] # 0 /\ task[s][i] = Never
    /\ \A j \in TaskIds : j < i => task[s][j] # Never
    /\ KeptOf(s, primary[s]) = {}
    /\ 100 * (Cardinality(Live(s)) + 1) <= Percents(s).max
    /\ SetTask(s, i, [version |-> primary[s], last |-> "PENDING", kept |-> TRUE, health |-> "UNKNOWN"])
    /\ EcsOnly /\ UNCHANGED primary

Start(s, i) ==
    /\ task[s][i].kept /\ task[s][i].last = "PENDING"
    /\ SetTask(s, i, [task[s][i] EXCEPT !.last = "RUNNING"])
    /\ EcsOnly /\ UNCHANGED primary

Judged(s, i, health) ==
    /\ task[s][i].kept /\ task[s][i].last = "RUNNING" /\ task[s][i].health = "UNKNOWN"
    /\ SetTask(s, i, [task[s][i] EXCEPT !.health = health])
    /\ EcsOnly /\ UNCHANGED primary

\* An old task goes when enough healthy ones are left.
Drain(s, i) ==
    /\ task[s][i].kept /\ task[s][i].version # primary[s]
    /\ 100 * Cardinality(HealthyOf(s) \ {i}) >= Percents(s).min
    /\ SetTask(s, i, [task[s][i] EXCEPT !.kept = FALSE])
    /\ EcsOnly /\ UNCHANGED primary

\* An unhealthy task is replaced; any may crash.
Lose(s, i) ==
    /\ task[s][i].kept
    /\ task[s][i].health = "UNHEALTHY" \/ tally.faults < MaxFaults
    /\ tally' = IF task[s][i].health = "UNHEALTHY" THEN tally ELSE [tally EXCEPT !.faults = @ + 1]
    /\ SetTask(s, i, [task[s][i] EXCEPT !.kept = FALSE])
    /\ UNCHANGED <<project, hostVars, cmd, historyVars, foundation, wanted, primary, gateVars>>

Stopped(s, i) ==
    /\ ~task[s][i].kept /\ task[s][i].last \in {"PENDING", "RUNNING"}
    /\ SetTask(s, i, Gone)
    /\ EcsOnly /\ UNCHANGED primary

EcsStep ==
    \/ \E v \in Versions : Deploy(v)
    \/ \E s \in Services :
        \/ Roll(s)
        \/ \E i \in TaskIds :
            \/ Place(s, i) \/ Start(s, i) \/ Drain(s, i) \/ Lose(s, i) \/ Stopped(s, i)
            \/ \E health \in {"HEALTHY", "UNHEALTHY"} : Judged(s, i, health)

-----------------------------------------------------------------------------
(* The gate.                                                                *)

GateAt(pc) == gate.pc = pc
WorldStays == UNCHANGED <<releaseVars, foundation, ecsVars>>

BeginStagetest ==
    /\ GateAt("idle")
    /\ Shape[project] # {}
    /\ gate' = [NoGate EXCEPT !.pc = "next", !.version = project, !.todo = Shape[project]]
    /\ certified' = 0
    /\ calm' = \A o \in Operators : At(o, "idle")
    /\ seenUp' = {}
    /\ WorldStays

\* Unhealthy, on another version, or unreadable: the command fails.
Reject == gate' = NoGate /\ UNCHANGED <<certified, calm>>

Certifies(healthy, v) == healthy /\ v = gate.version

\* The service needs no second look.
Passed(s) == gate' = [NoGate EXCEPT !.pc = "next", !.version = gate.version, !.todo = gate.todo \ {s}]

\* One call reads one service: sorted(cores), in whatever order the names give.
Look(s) == GateAt("next") /\ s \in gate.todo

InspectHealth(s) ==   \* mutant: the image's tag is not compared on a host
    /\ foundation = "fixed" /\ Look(s)
    /\ IF container[s].health = "healthy"
       THEN Passed(s) /\ seenUp' = seenUp \cup {s} /\ UNCHANGED <<certified, calm>>
       ELSE Reject /\ UNCHANGED seenUp
    /\ WorldStays

\* docker inspect: no container, not running, still starting, unhealthy.
Inspect(s) ==
    /\ foundation = "fixed" /\ Look(s)
    /\ IF Certifies(container[s].health = "healthy", container[s].version)
       THEN Passed(s) /\ seenUp' = seenUp \cup {s} /\ UNCHANGED <<certified, calm>>
       ELSE Reject /\ UNCHANGED seenUp
    /\ WorldStays

\* Zero tasks is not a healthy service.
List(s) ==
    /\ foundation = "elastic"
    /\ Look(s) \/ (GateAt("relist") /\ s = gate.svc)
    /\ IF Kept(s) = {}
       THEN Reject
       ELSE /\ gate' = [gate EXCEPT !.pc = "describe", !.svc = s, !.arns = Kept(s),
                                    !.again = GateAt("relist")]
            /\ UNCHANGED <<certified, calm>>
    /\ UNCHANGED seenUp /\ WorldStays

Reread ==   \* a task set that shrank is read once more, from the listing on
    IF gate.again
    THEN Reject
    ELSE gate' = [gate EXCEPT !.pc = "relist", !.arns = {}] /\ UNCHANGED <<certified, calm>>

\* By the image of its own task definition, which does not change.
Judges(t) == Certifies(t.last = "RUNNING" /\ t.health = "HEALTHY", t.version)

\* A task that has stopped is described as such for a while, then no more.
Describe(lost) ==
    /\ GateAt("describe")
    /\ lost \subseteq {i \in gate.arns : task[gate.svc][i] = Gone}
    /\ LET found == {task[gate.svc][i] : i \in gate.arns \ lost}
       IN /\ IF lost # {}
             THEN Reread
             ELSE IF \A t \in found : Judges(t)
                  THEN Passed(gate.svc) /\ UNCHANGED <<certified, calm>>
                  ELSE Reject
          /\ seenUp' = IF \E t \in found : t.last = "RUNNING" THEN seenUp \cup {gate.svc} ELSE seenUp
    /\ WorldStays

\* The tester is built once every service has passed, and its exit code is
\* the command's.
RunTester(passes) ==
    /\ GateAt("next") /\ gate.todo = {}
    /\ gate' = NoGate
    /\ certified' = IF passes THEN gate.version ELSE 0
    /\ UNCHANGED <<calm, seenUp>> /\ WorldStays

\* ssh or AWS does not answer, or the command is killed.
GateFails ==
    /\ ~GateAt("idle") /\ tally.faults < MaxFaults
    /\ Reject
    /\ Counted("faults", 1)
    /\ UNCHANGED <<project, hostVars, cmd, historyVars, foundation, ecsVars, seenUp>>

GateStep ==
    \/ BeginStagetest \/ GateFails
    \/ \E lost \in SUBSET TaskIds : Describe(lost)
    \/ \E s \in Services : Inspect(s) \/ List(s)
    \/ \E passes \in BOOLEAN : RunTester(passes)

-----------------------------------------------------------------------------
\* What the release does to the host is not calm; that the project moves on or
\* a container's health changes is no deployment.
HostStep ==
    /\ foundation = "fixed" /\ ReleaseNext
    /\ calm' = (calm /\ cmd' = cmd)
    /\ UNCHANGED <<foundation, ecsVars, gate, certified, seenUp>>

ProjectMoves == foundation = "elastic" /\ Bump /\ UNCHANGED <<foundation, ecsVars, gateVars>>

Next == HostStep \/ ProjectMoves \/ EcsStep \/ GateStep

Spec == Init /\ [][Next]_vars

-----------------------------------------------------------------------------
GatePhases == {"idle", "next", "relist", "describe"}

Tasks == [version : 0..MaxVersion, last : {"never", "PENDING", "RUNNING", "STOPPED"},
          kept : BOOLEAN, health : {"UNKNOWN", "HEALTHY", "UNHEALTHY"}]

\* Types of the host, of ECS and of the gate.
TypeOK ==
    /\ ReleaseTypeOK
    /\ foundation \in {"fixed", "elastic"}
    /\ wanted \in 0..MaxVersion /\ certified \in 0..MaxVersion
    /\ primary \in [Services -> 0..MaxVersion]
    /\ task \in [Services -> [TaskIds -> Tasks]]
    /\ gate \in [pc : GatePhases, version : Versions, todo : SUBSET Services,
                 svc : Services \cup {NoGate.svc}, arns : SUBSET TaskIds, again : BOOLEAN]
    /\ gate.pc = "describe" => gate.svc \in Services
    /\ calm \in BOOLEAN /\ seenUp \subseteq Services

Serving(s) == {task[s][i].version : i \in Kept(s)}

\* A certificate tells the truth (orchestrator_health.py:298). Every service of
\* the version was seen up, on either foundation: a listing that came back
\* empty or shrank is not a pass. When no one deployed while the gate ran: on
\* ECS a service keeps tasks of the certified version and of the version it had
\* been rolled to before the gate began, and of no other, although old and new
\* tasks overlap in a rolling deployment and crashed ones are replaced between
\* the gate's calls; on a host every container is of the version and the schema
\* is at it too, which the gate cannot see and takes from the playbook.  That
\* the two versions on ECS are one, as cicd.md:232 has it, is not claimed: the
\* gate reads the tags of the tasks listed and not the service's deployment, and
\* a service that was rolled back passes on its old task until a new one is
\* placed.
CertificateIsTrue ==
    certified # 0 =>
        /\ Shape[certified] \subseteq seenUp
        /\ (calm /\ foundation = "elastic") =>
              \A s \in Shape[certified] : Serving(s) \subseteq {certified, primary[s]}
        /\ (calm /\ foundation = "fixed" /\ ~overlap /\ ~leapt) =>
              /\ \A s \in Shape[certified] : container[s].version = certified
              /\ certified <= schema

=============================================================================
