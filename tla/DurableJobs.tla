---------------------------- MODULE DurableJobs ----------------------------
(***************************************************************************)
(* The durable-job substrate of docex (docex/jobs): foreground commands    *)
(* (`docex test | check | merge`, `job wait`, `job ls`), the vessel        *)
(* containers that do the work, the run records under .docex/runs, and the *)
(* preflight reaper that heals what a killed vessel left behind.           *)
(*                                                                         *)
(* One step of a foreground or of a vessel is one externally visible call: *)
(* a docker CLI call or one file written or read.  Between two steps any   *)
(* other process may run, and any process may be killed.                   *)
(***************************************************************************)
EXTENDS Integers, FiniteSets

CONSTANTS
    Launchers,        \* foregrounds of `docex test | check | merge`
    Readers,          \* foregrounds of `docex job wait | ls | status`
    Scopes,           \* the job kinds in play, each with its own vessel name
    MaxRuns,          \* bound: runs ever recorded
    MaxVesselKills,   \* bound: vessels killed from outside
    MaxClientKills,   \* bound: foregrounds killed
    MaxDaemonErrors,  \* bound: `docker inspect` calls that fail
    MaxTeardownFailures   \* bound: removals of a stack or worktree that fail

ASSUME ScopesAssumption == Scopes \subseteq {"test", "check", "merge"}
ASSUME BoundsAssumption ==
    {MaxRuns, MaxVesselKills, MaxClientKills, MaxDaemonErrors,
     MaxTeardownFailures} \subseteq Nat

Clients == Launchers \cup Readers
Runs == 1..MaxRuns      \* run ids, ordered as their timestamps sort
NoRun == 0
NoScope == "no-scope"
NoExit == -1            \* no exit file

ORPHAN_EXIT_CODE == 137
LaunchError == 125      \* `docker run` itself failed
\* 1 is every code with which a body may fail: a code here says who gave it.
Codes == {0, 1, LaunchError, ORPHAN_EXIT_CODE}

(***************************************************************************)
(* What a run of each kind brings up, hence what the reaper reclaims for   *)
(* it.  The worktree of a check and of a merge's defensive check is named  *)
(* after the commit alone (check-<sha>), so at one commit it is one        *)
(* resource of two scopes.                                                 *)
(***************************************************************************)
Worktree == "worktree"
Resources == {"test_stack", "check_stack", "merge_stack", Worktree}
Owns(s) ==
    CASE s = "test"  -> {"test_stack"}
      [] s = "check" -> {"check_stack", Worktree}
      [] s = "merge" -> {"merge_stack", Worktree}
GateStacks == {"check_stack", "merge_stack"}

VARIABLES
    cpc,      \* where each foreground is
    cscope,   \* the scope it launches in
    crun,     \* the run it reaps, launches or waits for
    meta,     \* meta.json of each run: its scope, which names its vessel
    status,   \* status.json
    exit,     \* the exit file
    vessel,   \* the container launched for each run
    job,      \* where the process inside that container is
    rc,       \* the code its body returned
    held,     \* the run that brought each resource up, while it is up
    faults    \* how many faults of each kind have happened

clientVars == <<cpc, cscope, crun>>
recordVars == <<meta, status, exit>>
vesselVars == <<vessel, job, rc>>
vars == <<clientVars, recordVars, vesselVars, held, faults>>

ReapStates == {"find", "orphanExit", "orphanStatus", "reclaim", "remove"}
LaunchStates == {"create", "launch", "start", "conflict", "failStatus",
                 "failExit", "markRunning"}
ReadStates == {"attach", "wait", "ls", "orphanRow"}
ClientStates == {"idle", "inspect"} \cup ReapStates \cup LaunchStates
                    \cup ReadStates
Terminal == {"succeeded", "failed", "orphaned"}
StatusStates == {"none", "launching", "running"} \cup Terminal
VesselStates == {"none", "created", "running", "exited", "removed"}
JobStates == {"boot", "body", "busy", "status", "exit", "done", "killed"}
FaultKinds == {"vessel", "client", "daemon", "teardown"}

TypeOK ==
    /\ cpc \in [Clients -> ClientStates]
    /\ cscope \in [Clients -> Scopes \cup {NoScope}]
    /\ crun \in [Clients -> Runs \cup {NoRun}]
    /\ meta \in [Runs -> Scopes \cup {NoScope}]
    /\ status \in [Runs -> StatusStates]
    /\ exit \in [Runs -> Codes \cup {NoExit}]
    /\ vessel \in [Runs -> VesselStates]
    /\ job \in [Runs -> JobStates]
    /\ rc \in [Runs -> {0, 1}]
    /\ held \in [Resources -> Runs \cup {NoRun}]
    /\ faults \in [FaultKinds -> Nat]

Init ==
    /\ cpc = [c \in Clients |-> "idle"]
    /\ cscope = [c \in Clients |-> NoScope]
    /\ crun = [c \in Clients |-> NoRun]
    /\ meta = [r \in Runs |-> NoScope]
    /\ status = [r \in Runs |-> "none"]
    /\ exit = [r \in Runs |-> NoExit]
    /\ vessel = [r \in Runs |-> "none"]
    /\ job = [r \in Runs |-> "boot"]
    /\ rc = [r \in Runs |-> 0]
    /\ held = [x \in Resources |-> NoRun]
    /\ faults = [k \in FaultKinds |-> 0]

----------------------------------------------------------------------------
(* Views of the state that the code computes.                              *)

Recorded == {r \in Runs : meta[r] # NoScope}

\* The containers docker knows under the scope's deterministic name.  A
\* vessel is not --rm: it keeps its name after it exits.
Named(s) == {r \in Recorded :
                /\ meta[r] = s
                /\ vessel[r] \in {"created", "running", "exited"}}

NameRunning(s) == \E r \in Named(s) : vessel[r] = "running"

\* _find_record_for_vessel: the newest record of the scope, whoever owns the
\* container.
IsNewest(r, s) ==
    /\ r \in Recorded
    /\ meta[r] = s
    /\ \A q \in Recorded : meta[q] = s => q <= r

\* What is up once these have been taken down, whoever brought them up.
Without(gone) == [x \in Resources |-> IF x \in gone THEN NoRun ELSE held[x]]

Goto(c, state) ==
    /\ cpc' = [cpc EXCEPT ![c] = state]
    /\ UNCHANGED <<cscope, crun>>

GotoWith(c, state, r) ==
    /\ cpc' = [cpc EXCEPT ![c] = state]
    /\ crun' = [crun EXCEPT ![c] = r]
    /\ UNCHANGED cscope

\* The command returns to its caller.
Return(c) ==
    /\ cpc' = [cpc EXCEPT ![c] = "idle"]
    /\ cscope' = [cscope EXCEPT ![c] = NoScope]
    /\ crun' = [crun EXCEPT ![c] = NoRun]

Fault(kind, max) ==
    /\ faults[kind] < max
    /\ faults' = [faults EXCEPT ![kind] = @ + 1]

----------------------------------------------------------------------------
(* The preflight of a launch: reaper.preflight.                            *)

\* Bound: a launch starts only if a run id is left for it.
RunIdLeft ==
    Cardinality({d \in Clients : cpc[d] \in
                    {"inspect", "create"} \cup ReapStates})
        < Cardinality(Runs \ Recorded)

\* `docex test | check | merge` reaches _launch_durable_job.
BeginLaunch(c, s) ==
    /\ cpc[c] = "idle"
    /\ RunIdLeft
    /\ cpc' = [cpc EXCEPT ![c] = "inspect"]
    /\ cscope' = [cscope EXCEPT ![c] = s]
    /\ UNCHANGED crun
    /\ UNCHANGED <<recordVars, vesselVars, held, faults>>

\* container_running(vessel): True refuses with 75, False goes on to the
\* record, None (absent) goes on to the launch.
Inspect(c) ==
    /\ cpc[c] = "inspect"
    /\ \/ NameRunning(cscope[c]) /\ Return(c)
       \/ Named(cscope[c]) = {} /\ Goto(c, "create")
       \/ /\ Named(cscope[c]) # {} /\ ~NameRunning(cscope[c])
          /\ Goto(c, "find")
    /\ UNCHANGED <<recordVars, vesselVars, held, faults>>

\* A daemon error is read as "absent" too.
InspectFails(c) ==
    /\ cpc[c] = "inspect"
    /\ Fault("daemon", MaxDaemonErrors)
    /\ Goto(c, "create")
    /\ UNCHANGED <<recordVars, vesselVars, held>>

\* Mutant: any dead vessel is an orphan, exit file or not.
FindRecordUnchecked(c) ==
    /\ cpc[c] = "find"
    /\ \E r \in Runs :
        /\ IsNewest(r, cscope[c])
        /\ GotoWith(c, "orphanExit", r)
    /\ UNCHANGED <<recordVars, vesselVars, held, faults>>

FindRecord(c) ==
    /\ cpc[c] = "find"
    /\ \E r \in Runs :
        /\ IsNewest(r, cscope[c])
        /\ GotoWith(c, IF exit[r] = NoExit THEN "orphanExit" ELSE "remove", r)
    /\ UNCHANGED <<recordVars, vesselVars, held, faults>>

\* Mutant: the orphan is only marked in its status.
OrphanExitSkipped(c) ==
    /\ cpc[c] = "orphanExit"
    /\ exit' = exit
    /\ Goto(c, "orphanStatus")
    /\ UNCHANGED <<meta, status, vesselVars, held, faults>>

OrphanExit(c) ==
    /\ cpc[c] = "orphanExit"
    /\ exit' = [exit EXCEPT ![crun[c]] = ORPHAN_EXIT_CODE]
    /\ Goto(c, "orphanStatus")
    /\ UNCHANGED <<meta, status, vesselVars, held, faults>>

OrphanStatus(c) ==
    /\ cpc[c] = "orphanStatus"
    /\ status' = [status EXCEPT ![crun[c]] = "orphaned"]
    /\ Goto(c, "reclaim")
    /\ UNCHANGED <<meta, exit, vesselVars, held, faults>>

\* Mutant: only the stacks are thought of.
ReclaimNoWorktree(c) ==
    /\ cpc[c] = "reclaim"
    /\ held' = Without(Owns(meta[crun[c]]) \ {Worktree})
    /\ Goto(c, "remove")
    /\ UNCHANGED <<recordVars, vesselVars, faults>>

\* _teardown_leaked_resources, keyed off the record's kind.  Its exit codes
\* are ignored.  The stack of a gate is taken down with slot 1's compose file
\* under its own project name: what goes of it is for compose to say.
Reclaim(c) ==
    /\ cpc[c] = "reclaim"
    /\ \E left \in SUBSET Owns(meta[crun[c]]) :
        /\ held' = Without(Owns(meta[crun[c]]) \ left)
        /\ IF left \subseteq GateStacks
           THEN UNCHANGED faults
           ELSE Fault("teardown", MaxTeardownFailures)
    /\ Goto(c, "remove")
    /\ UNCHANGED <<recordVars, vesselVars>>

\* `docker rm` without -f: a running container stays, and the code that says
\* so is ignored.
RemoveVessel(c) ==
    /\ cpc[c] = "remove"
    /\ vessel' = [r \in Runs |->
                    IF r \in Named(cscope[c]) /\ vessel[r] # "running"
                    THEN "removed" ELSE vessel[r]]
    /\ Goto(c, "create")
    /\ UNCHANGED <<recordVars, job, rc, held, faults>>

----------------------------------------------------------------------------
(* The launch: _launch_durable_job after the preflight.                    *)

\* The record exists before the vessel does.
CreateRecord(c) ==
    /\ cpc[c] = "create"
    /\ \E r \in Runs :
        /\ r \notin Recorded
        /\ \A q \in Runs : q < r => q \in Recorded
        /\ meta' = [meta EXCEPT ![r] = cscope[c]]
        /\ status' = [status EXCEPT ![r] = "launching"]
        /\ GotoWith(c, "launch", r)
    /\ UNCHANGED <<exit, vesselVars, held, faults>>

\* Mutant: the container is not given the scope's name.
CreateVesselAnyName(c) ==
    /\ cpc[c] = "launch"
    /\ \/ /\ TRUE
          /\ vessel' = [vessel EXCEPT ![crun[c]] = "created"]
          /\ Goto(c, "start")
       \/ /\ Named(cscope[c]) # {}
          /\ vessel' = vessel
          /\ Goto(c, "conflict")
       \/ /\ vessel' = vessel
          /\ Goto(c, "failStatus")
    /\ UNCHANGED <<recordVars, job, rc, held, faults>>

\* The create half of `docker run -d --name`: the daemon takes the name for
\* one caller, and any other failure leaves no container.
CreateVessel(c) ==
    /\ cpc[c] = "launch"
    /\ \/ /\ Named(cscope[c]) = {}
          /\ vessel' = [vessel EXCEPT ![crun[c]] = "created"]
          /\ Goto(c, "start")
       \/ /\ Named(cscope[c]) # {}
          /\ vessel' = vessel
          /\ Goto(c, "conflict")
       \/ /\ vessel' = vessel
          /\ Goto(c, "failStatus")
    /\ UNCHANGED <<recordVars, job, rc, held, faults>>

\* The start half.  It fails on its own account, or because a preflight
\* removed the container that had not started yet.
StartVessel(c) ==
    /\ cpc[c] = "start"
    /\ \/ /\ vessel[crun[c]] = "created"
          /\ vessel' = [vessel EXCEPT ![crun[c]] = "running"]
          /\ Goto(c, "markRunning")
       \/ /\ vessel' = vessel
          /\ Goto(c, "failStatus")
    /\ UNCHANGED <<recordVars, job, rc, held, faults>>

\* The launch race is lost: the record is failed and gets no exit file.
LoseRace(c) ==
    /\ cpc[c] = "conflict"
    /\ status' = [status EXCEPT ![crun[c]] = "failed"]
    /\ Return(c)
    /\ UNCHANGED <<meta, exit, vesselVars, held, faults>>

FailStatus(c) ==
    /\ cpc[c] = "failStatus"
    /\ status' = [status EXCEPT ![crun[c]] = "failed"]
    /\ Goto(c, "failExit")
    /\ UNCHANGED <<meta, exit, vesselVars, held, faults>>

FailExit(c) ==
    /\ cpc[c] = "failExit"
    /\ exit' = [exit EXCEPT ![crun[c]] = LaunchError]
    /\ Return(c)
    /\ UNCHANGED <<meta, status, vesselVars, held, faults>>

\* The foreground's own "running", then attach, or return with --detach.
MarkRunning(c) ==
    /\ cpc[c] = "markRunning"
    /\ status' = [status EXCEPT ![crun[c]] = "running"]
    /\ Goto(c, "attach") \/ Return(c)
    /\ UNCHANGED <<meta, exit, vesselVars, held, faults>>

----------------------------------------------------------------------------
(* Readers of a run record: attach, `job wait`, `job ls | status`.         *)

BeginWait(c, r) ==
    /\ cpc[c] = "idle"
    /\ r \in Recorded
    /\ GotoWith(c, "wait", r)
    /\ UNCHANGED <<recordVars, vesselVars, held, faults>>

\* The poll that finds the exit file returns its code to the caller.
ReadExit(c) ==
    /\ cpc[c] \in {"attach", "wait"}
    /\ exit[crun[c]] # NoExit
    /\ Return(c)
    /\ UNCHANGED <<recordVars, vesselVars, held, faults>>

\* The operator interrupts the wait, or the timeout of `job wait` does.
StopWaiting(c) ==
    /\ cpc[c] \in {"attach", "wait"}
    /\ Return(c)
    /\ UNCHANGED <<recordVars, vesselVars, held, faults>>

\* record.classify reads the exit file first; if there is one, it is done.
BeginClassify(c, r) ==
    /\ cpc[c] = "idle"
    /\ r \in Recorded
    /\ exit[r] = NoExit
    /\ GotoWith(c, "ls", r)
    /\ UNCHANGED <<recordVars, vesselVars, held, faults>>

\* Then it asks docker whether the vessel of that name runs: LIVE, or ORPHAN.
ClassifyVessel(c) ==
    /\ cpc[c] = "ls"
    /\ \/ NameRunning(meta[crun[c]]) /\ Return(c)
       \/ ~NameRunning(meta[crun[c]]) /\ Goto(c, "orphanRow")
    /\ UNCHANGED <<recordVars, vesselVars, held, faults>>

PrintOrphanRow(c) ==
    /\ cpc[c] = "orphanRow"
    /\ Return(c)
    /\ UNCHANGED <<recordVars, vesselVars, held, faults>>

----------------------------------------------------------------------------
(* The vessel: run_in_vessel.                                              *)

InVessel(r, step) == vessel[r] = "running" /\ job[r] = step

VesselBoots(r) ==
    /\ InVessel(r, "boot")
    /\ status' = [status EXCEPT ![r] = "running"]
    /\ job' = [job EXCEPT ![r] = "body"]
    /\ UNCHANGED <<clientVars, meta, exit, vessel, rc, held, faults>>

\* The body brings its stacks up, taking over any a dead run left behind.
\* `git worktree add` is the exception: it fails if the directory is there.
BodyStarts(r) ==
    /\ InVessel(r, "body")
    /\ Worktree \in Owns(meta[r]) => held[Worktree] = NoRun
    /\ held' = [x \in Resources |->
                    IF x \in Owns(meta[r]) THEN r ELSE held[x]]
    /\ job' = [job EXCEPT ![r] = "busy"]
    /\ UNCHANGED <<clientVars, recordVars, vessel, rc, faults>>

\* It ends before bringing anything up: an early refusal or failure, or a
\* merge that trusts the record of a green check.
BodyDeclines(r) ==
    /\ InVessel(r, "body")
    /\ \E code \in {0, 1} :
        /\ code = 0 => meta[r] = "merge"
        /\ rc' = [rc EXCEPT ![r] = code]
    /\ job' = [job EXCEPT ![r] = "status"]
    /\ UNCHANGED <<clientVars, recordVars, vessel, held, faults>>

\* Mutant: a run that passes is not torn down.
BodyEndsNoTeardown(r) ==
    /\ InVessel(r, "busy")
    /\ \E code \in {0, 1}, left \in SUBSET Owns(meta[r]) :
        /\ rc' = [rc EXCEPT ![r] = code]
        /\ held' = Without(Owns(meta[r]) \ left)
    /\ job' = [job EXCEPT ![r] = "status"]
    /\ UNCHANGED <<clientVars, recordVars, vessel, faults>>

\* It ends with its own teardown, which leaves the stack of a failed shard up
\* and no worktree.  A removal that fails is warned of, or swallowed, and the
\* body's code stays what it was.
BodyEnds(r) ==
    /\ InVessel(r, "busy")
    /\ \E code \in {0, 1}, left \in SUBSET Owns(meta[r]) :
        /\ rc' = [rc EXCEPT ![r] = code]
        /\ held' = Without(Owns(meta[r]) \ left)
        /\ IF left = {} \/ (code = 1 /\ Worktree \notin left)
           THEN UNCHANGED faults
           ELSE Fault("teardown", MaxTeardownFailures)
    /\ job' = [job EXCEPT ![r] = "status"]
    /\ UNCHANGED <<clientVars, recordVars, vessel>>

FinalStatus(r) ==
    /\ InVessel(r, "status")
    /\ status' = [status EXCEPT ![r] =
                    IF rc[r] = 0 THEN "succeeded" ELSE "failed"]
    /\ job' = [job EXCEPT ![r] = "exit"]
    /\ UNCHANGED <<clientVars, meta, exit, vessel, rc, held, faults>>

\* Mutant: the vessel ends without its exit file.
WriteExitLost(r) ==
    /\ InVessel(r, "exit")
    /\ exit' = exit
    /\ job' = [job EXCEPT ![r] = "done"]
    /\ UNCHANGED <<clientVars, meta, status, vessel, rc, held, faults>>

WriteExit(r) ==
    /\ InVessel(r, "exit")
    /\ exit' = [exit EXCEPT ![r] = rc[r]]
    /\ job' = [job EXCEPT ![r] = "done"]
    /\ UNCHANGED <<clientVars, meta, status, vessel, rc, held, faults>>

VesselExits(r) ==
    /\ InVessel(r, "done")
    /\ vessel' = [vessel EXCEPT ![r] = "exited"]
    /\ UNCHANGED <<clientVars, recordVars, job, rc, held, faults>>

----------------------------------------------------------------------------
(* What the outside does.                                                  *)

KillVessel(r) ==
    /\ vessel[r] = "running"
    /\ Fault("vessel", MaxVesselKills)
    /\ vessel' = [vessel EXCEPT ![r] = "exited"]
    /\ job' = [job EXCEPT ![r] = IF @ = "done" THEN @ ELSE "killed"]
    /\ UNCHANGED <<clientVars, recordVars, rc, held>>

\* Killing a foreground, in the middle of a launch, a reap or a wait, does
\* not touch the vessel.
KillClient(c) ==
    /\ cpc[c] # "idle"
    /\ Fault("client", MaxClientKills)
    /\ Return(c)
    /\ UNCHANGED <<recordVars, vesselVars, held>>

----------------------------------------------------------------------------
(* Specification.                                                          *)

\* What a foreground does once started, without asking the operator.
ClientStep(c) ==
    \/ Inspect(c) \/ InspectFails(c) \/ FindRecord(c) \/ OrphanExit(c)
    \/ OrphanStatus(c) \/ Reclaim(c) \/ RemoveVessel(c)
    \/ CreateRecord(c) \/ CreateVessel(c) \/ StartVessel(c) \/ LoseRace(c)
    \/ FailStatus(c) \/ FailExit(c) \/ MarkRunning(c)
    \/ ReadExit(c) \/ ClassifyVessel(c) \/ PrintOrphanRow(c)

\* What an operator starts, gives up or kills.
ClientCommand(c) ==
    \/ \E s \in Scopes : c \in Launchers /\ BeginLaunch(c, s)
    \/ \E r \in Runs : c \in Readers /\ (BeginWait(c, r) \/ BeginClassify(c, r))
    \/ StopWaiting(c)
    \/ KillClient(c)

VesselStep(r) ==
    \/ VesselBoots(r) \/ BodyStarts(r) \/ BodyDeclines(r) \/ BodyEnds(r)
    \/ FinalStatus(r) \/ WriteExit(r) \/ VesselExits(r)

Next ==
    \/ \E c \in Clients : ClientStep(c) \/ ClientCommand(c)
    \/ \E r \in Runs : VesselStep(r) \/ KillVessel(r)

Spec == Init /\ [][Next]_vars

\* A process that has been started runs until it ends or is killed.  Nobody
\* is obliged to launch, wait or kill.
Fairness ==
    /\ \A c \in Clients : WF_vars(ClientStep(c))
    /\ \A r \in Runs : WF_vars(VesselStep(r))

FairSpec == Spec /\ Fairness

----------------------------------------------------------------------------
(* Properties.                                                             *)

Alive(r) == vessel[r] = "running" /\ job[r] # "done"
Orphaned(r) == vessel[r] = "exited" /\ exit[r] = NoExit

\* The vessel's name is the lock: docker never knows two containers of one
\* scope, whatever launches, reaps and kills interleave, so at most one body
\* of a scope runs.
NameIsLock ==
    \A q, r \in Recorded :
        /\ meta[q] = meta[r]
        /\ {vessel[q], vessel[r]} \subseteq {"created", "running", "exited"}
        => q = r

\* An exit code other than the reaper's 137 tells the truth: either the
\* launch failed and no body ever ran, or the body has returned exactly that
\* code; and after a 0 nothing that the run brought up is left, unless one of
\* the teardowns has failed, which changes no code.
ExitIsHonest ==
    \A r \in Runs :
        /\ exit[r] = LaunchError => job[r] = "boot" /\ vessel[r] # "running"
        /\ exit[r] \in {0, 1} => job[r] = "done" /\ exit[r] = rc[r]
        /\ (exit[r] = 0 /\ faults["teardown"] = 0)
              => \A x \in Resources : held[x] # r

\* What a job handle promises (JobHandle): one exit code, given once, and not
\* before the body has stopped.
Phase(r) ==
    CASE meta[r] = NoScope -> "none"
      [] vessel[r] = "running" /\ job[r] \in {"boot", "body", "busy"} -> "working"
      [] meta[r] # NoScope /\ vessel[r] # "running" /\ job[r] = "boot" -> "open"
      [] OTHER -> "stopped"

Handle == INSTANCE JobHandle WITH
            Codes <- Codes, Pending <- NoExit,
            scope <- meta, phase <- [r \in Runs |-> Phase(r)], result <- exit

ImplementsHandle == Handle!Spec

\* reaper.py:18-20 says that a running vessel is never force-removed, "so the
\* reaper cannot harm a legitimate concurrent run": no step but the run's own
\* takes a resource from a run whose vessel is alive.
LiveRunUndisturbed ==
    [][\A r \in Runs, x \in Resources :
        (Alive(r) /\ held[x] = r /\ held'[x] # r) => job'[r] # job[r]]_vars

\* A run whose vessel is removed is accounted for.  It has an exit code: no
\* reaper will look at it again, so a `job wait` on it would block for good.
\* And if it was killed, what it held has been reclaimed, but for the stack
\* of a gate, as long as no reaper was killed between the exit file and the
\* teardown and no removal failed: there is no second try.
FreedRunIsAccountedFor ==
    \A r \in Runs : vessel[r] = "removed" =>
        /\ exit[r] # NoExit
        /\ (/\ exit[r] = ORPHAN_EXIT_CODE
            /\ faults["client"] = 0 /\ faults["teardown"] = 0)
              => \A x \in Resources \ GateStacks : held[x] # r

\* A foreground attached to a run returns unless the vessel is killed.
AttachReturns ==
    \A c \in Clients, r \in Runs :
        (cpc[c] = "attach" /\ crun[c] = r)
            ~> (cpc[c] = "idle" \/ job[r] = "killed")

\* The next launch in the scope heals an orphan: it writes the exit code for
\* which `job wait` blocks.
NextLaunchHeals ==
    \A c \in Clients, r \in Runs :
        (Orphaned(r) /\ cpc[c] = "inspect" /\ cscope[c] = meta[r])
            ~> (exit[r] = ORPHAN_EXIT_CODE \/ faults["client"] > 0)

=============================================================================
