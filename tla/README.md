# A verification development for docex

`docex` (src/docex) is the command line tool that takes a containerised project
through its life: it compiles `infra.yml` into compose files, HCL and Ansible,
runs dev and test stacks on a docker host, gates and merges feature branches,
builds and pushes images, releases and rolls back `stage` and `prod`, and tells
whether what it deployed is alive.  It is about 26,000 lines of Python
(`src/docex/src/docex`) with role tables beside it (`src/docex/tables`) and a
bash shim (`src/docex/bin/docex`); the rest of the repository is doctrine,
prompts, installers and test projects.

docex keeps no daemon and almost no state of its own.  What it does is a
sequence of calls to docker, git, tofu, AWS and ssh, made by short-lived
processes that may be killed between any two calls, that may run beside each
other, and whose state is what the calls leave behind: containers, refs, files,
ECS deployments.  Most modules here are about exactly that; the rest are about
the compiler, a function whose output everything else trusts.

## 1. Inventory

| Component | State it keeps | Operations | With whom it interacts |
|---|---|---|---|
| Durable jobs (`jobs/`) | `.docex/runs/<id>/{meta,status,exit,log}`, a vessel container whose name is the scope's lock | launch, preflight, reap, attach, `job wait / ls / status`, the vessel's body | docker; the bodies of test, check and merge |
| Check and merge (`pipeline/check`, `merge`, `check_record`, `_worktree`) | refs of the clone and of origin, `.docex/worktrees`, `.docex/checks/latest.json` | check, merge | git; the developer in the same clone; teammates on origin; test stacks |
| Test stacks (`orchestrate/test`, `_common`) | containers and database volumes of slots 1..24 | up, migrate, suite, down, fleet teardown | compose; three commands on one host |
| Elastic release (`pipeline/release`, `rollback`, `orchestrate/migrate`) | SSM prefix, tofu state and its lock, ECS services, deployments and migration tasks, the schema | release, rollback, migrate | AWS, tofu |
| Fixed release (`release._release_fixed`, the playbook) | `/opt/<project>/<env>` on a host, its containers and volumes | release, rollback, migrate | ssh, Ansible |
| Configurable values (`orchestrate/aggregate`, `secretsmgmt`, `envfile`) | `infra/{secrets,config,tte}/<env>.env`, `.docex/agg`, the host's `tte.env`, SSM | mint if absent, aggregate, set, copy, scaffold | every bring-up and release |
| Health and stagetest (`orchestrator_health`, `stagetest`) | none | read a rollout, run the smoke tests | ECS, a host |
| Containerize | images in a registry | build and push per codebase | git tags, docker |
| Dev environment (`up`, `down`, `build`) | the dev stack, `core/<cb>/dist` | up, down, build | compose |
| Infra tiers (`preinfra`, `projinfra`, `bootstrap`) | prerequisites, project tier, state bucket and lock table | check, up, down | AWS, tofu, docker |
| CICL compiler (`cicl/`, `emit/`, `naming`, `tables/`) | `infra/output/*` | validate, compile | everything reads its output |
| Docs, reports, describe, why, roles | none | read-only | |
| Dispatcher, context, adapters | none | parse, dispatch, one call each | |
| Shim (`bin/docex`) | a socket, a responder process, a container | start, answer credentials, clean up | docker, ssh, git |

What is hard, and what makes each correct:

* **Durable jobs.** Foregrounds, vessels and reapers interleave, and any of them
  is killed anywhere.  One body per scope; an exit code that is true and comes
  exactly once; what a killed vessel held is reclaimed; a wait ends; a running
  vessel is left alone.
* **Check and merge.** A check takes minutes while the clone and origin move.
  What is published is what was tested; the record that lets merge skip the
  recheck is true; a tag names its tree; no commit is lost; overlapping runs
  keep to their own worktree.
* **Test stacks.** Three commands and their shards share a host.  Nobody takes
  down a stack under test; every suite has a fresh database; a green verdict
  covers the whole suite; nothing stays up unaccounted for.
* **Release.** A command dies half way and is run again.  Schema before code;
  success means that the version is live and every consumer resolves what it
  uses; no interruption is a dead end.
* **Configurable values.** Files are read, changed and rewritten without a
  lock, by commands that overlap and are killed in mid-write.  A credential that
  a data volume was made with is never replaced; a value that was acknowledged
  stays; no migration is locked out of its database.
* **Health gate.** It reads a world that moves between its calls.  A certificate
  is about the version it names, on every service.
* **Infra tiers.** Tiers are built and torn down on top of each other by
  commands that stop half way.  Nothing is orphaned; nothing loses what it
  stands on; protection protects.
* **Compiler.** Names are concatenated, cut and suffixed; references are checked
  in one place and resolved in another; files are written one by one.  No two
  things claim one name; what a container is told exists where it runs; every
  key has one source; the exit code is right about the disk.

## 2. The modules

| Module | What it is |
|---|---|
| `DurableJobs` | foregrounds, run records, vessels, reaper |
| `JobHandle` | what a job handle promises its callers; `DurableJobs` implements it |
| `CheckMerge` | check and merge against git, the developer and the team |
| `Trunk` | what merge promises of the published trunk; `CheckMerge` implements it |
| `ElasticRelease` | release, rollback and migrate against AWS and tofu |
| `FixedRelease` | the same on one host, by ssh and playbook |
| `Stage` | ECS's side of a deployment and stagetest's gate; EXTENDS `FixedRelease` |
| `TestFleet` | the stacks of test, check and merge on one host |
| `DevHost` | one checkout: value files, aggregate, dev stack, `dist/` |
| `InfraTiers` | preinfra, projinfra, and envs and images on top of them |
| `Names` | naming policies and the names of everything |
| `TransferTables` | the role tables, their overlay by a project, and their own validation |
| `Cicl` | the document, its validation rules and its categories |
| `Fargate` | task sizes |
| `Emission` | what each emitted file declares and refers to |
| `Outcome` | which files a compile of a revision writes, and what they say |
| `Compiler` | `run_compile` and `compile_slot` over edits, kills and directories |
| `...Proofs` | theorems: `DurableJobs`, `CheckMerge`, `ElasticRelease`, `TestFleet`, `Stage` (with `FixedRelease`), `DevHost`, `InfraTiers`, `Compiler` (with all it extends) |
| `MC...` | the TLC instances |

`Names`, `TransferTables`, `Cicl`, `Fargate`, `Emission` and `Outcome` are pure
operators, each extending the ones above it; `Compiler` puts them to work.

Each module keeps a few definitions marked `mutant` next to the ones they vary:
a plausible bug for every property, which TLC must be able to see.

### DurableJobs

`cpc` is where a foreground is, `crun` the run it works for; `meta`, `status`
and `exit` are the files of a record; `vessel` is what docker knows of the
container launched for a run, `job` where the process in it is.  A step is one
docker call or one file, in the order of the code: `Inspect`, `FindRecord`,
`OrphanExit`, `OrphanStatus`, `Reclaim`, `RemoveVessel` are
`reaper.preflight`; `CreateRecord`, `CreateVessel`, `StartVessel`, `LoseRace`,
`FailStatus`, `FailExit`, `MarkRunning` are `_launch_durable_job`;
`VesselBoots` to `VesselExits` are `run_in_vessel`; `ReadExit`,
`ClassifyVessel`, `PrintOrphanRow` are the readers.  `docker run` is two steps
because docker creates a container, and its name, before it starts it.

A removal may fail, in the body's own teardown and in the reaper's (a bounded
fault), and the code changes nothing on account of it: a body that passed still
ends with 0 (test.py:208), and the reaper ignores what compose and git return
(reaper.py:130, 176).  The stack of a gate may survive its reaping without any
fault, since it is taken down with slot 1's compose file (`GateStacks`).

Run ids increase, since they begin with a timestamp.  A record's `meta.json` is
always readable, because the record directory is made complete.
`container_running` answers "absent" on a daemon error too (`InspectFails`).  A
check and a merge at one commit record the same worktree, `check-<sha>`, hence
`Owns`.

### CheckMerge

A commit is its history, a sequence of changes, and stands for its tree as
well.  A rebase appends what the other side lacks, unless two changes clash.
Steps are single git calls; the content gates, the build and the suite are one
verdict on one tree (`TestTree`).  The developer edits, commits, switches
branch, fetches and rebases by hand; `DevBusy` says which of these may happen
while a job runs, `TeamBusy` and `Overlap` the same of teammates and of the
second job.  `tested`, `released` and `made` are history variables.  A short
sha is a full history: two commits never share one.  Changes that bump the
version in `project.yml` carry it in `Version`.  A failing check returns 1, or
the code of the git, compile, build or test call that failed, which `GitCode`
stands for.

### ElasticRelease

A version is the minor of a project version; `service[s]` is the PRIMARY
deployment of a service with the version and SSM revision it started with and
the names it can resolve for as long as it lives.  A name is `racing` for the
moments in which a deployment created at the same time may or may not see it,
and `recent` while it is younger than the reconcile's 60 s margin.  An apply is
the steps `Deploy` and `Undeploy` in any order between `TakeLock` and
`ApplyDone`, which waits for a steady state as the emitted HCL does.  Migration
tasks run on in ECS when the command that started them has died.

### FixedRelease and Stage

The host is the deploy directory (`compose`, `tteFile`, `envFile`), the
containers and, per engine, the credential its data volume was made with.
`ReadHostStore` and `ReadMasked` are the one ssh read of `ensure_tte_fixed`
(which masks the remote command's failure); `RenderCompose`, `RenderStore`,
`RenderEnv`, `Migrate`, `Recreate` / `RemoveOrphan` / `FinishUp` are the
playbook's tasks in its order.  release.py looks at nothing but the playbook's
exit code; that `compose up` returns when the containers are there is compose's
doing, and no property claims it.  `rollback` targets the version below the one in
`project.yml` and skips the migrations; `migrate` runs only the tasks tagged so,
on the compose file that is already there.  History variables: `overlap` (two
commands at once), `leapt` (a rollback to a version this env was never
migrated to), `clobbered` (a masked read, or two stores staged at once).

`Stage` adds ECS as a scheduler sees it (`Place`, `Start`, `Judged`, `Drain`,
`Lose`, `Stopped`, under the deployment percentages the HCL sets, 0 and 100 for a
clock; that ECS keeps to them is an assumption, not a result) and the gate:
`Inspect` on a host, `List`, `Describe`, `Reread` on ECS, one call per step,
then `RunTester`.  An instance is on one foundation for its life.

### TestFleet

`Slot` is the arithmetic of the bands.  A stack is its containers (`up`) and
its database volume (`data`, the run that made it), whose explicit name outlives
the containers.  `Clean`, `Up`, `Suite`, `Teardown` are `_run_one_slot` and the
single-stack path of `run_test`; `Build`, `BuildDown` are check's separate build
gate, which only an unsharded gate has.  `ReapTest` and `ReapGate` are the two
teardowns of the reaper.  `ReapGate` uses slot 1's compose file under slot k's
project name (reaper.py:176): how much of slot k goes is up to what compose
takes a project to be, so the model leaves it open, and slot k's volume stays.
That each scope has one launch at a time is `NameIsLock` of `DurableJobs`.

### DevHost

The files are functions from keys to values; a value is a number, so equal
values were copied from one another.  `Path.write_text` is `Truncate` then
`Write`.  `envinfra up`, `build` and `migrate` share a beginning (compile, mint
in `ReadStore`, read the three files in `Merge`, `Publish` the aggregate) and go on to `ComposeUp`,
to `Clear` and `Fill` of `dist/`, or to `Migrate`.  An engine fixes its
credential when its volume is made.  `damaged` records which file a race of two
writers, or a kill between truncation and write, has left to chance: the
properties are claimed for undamaged files, and what makes a file damaged is
exactly that.

### InfraTiers

`tier` is the zone, the base (clusters, roles, repositories) and the front (what
terminates TLS) of the elastic project tier, or the one stack of the fixed one;
`env` has networks, database and services.  `projinfra up` is `CheckPreinfra`,
`EnsureBucket`, `EnsureTable`, `ListState` (which reads a failure as an empty
state), `ApplyZone` or `PlanTier` and `ApplyTier`; `projinfra down` is `GateEnv`
for each env, `GateImages`, `PlanDestroy`, `DestroyTier`, `DropBucket`,
`DropTable`; `envinfra down` is `GateProtection`, `DestroyEnv`.  Nothing compiles
before a down: on a checkout without the tier's output it takes `SkipDestroy`,
which on the elastic foundation goes straight to the cleanup
(projinfra.py:202-206).  `lost` is what stands in AWS and is no longer recorded,
because its state went with the bucket: no tofu finds it, and none can make it
anew under its name.  tofu creates
and destroys one resource per step, in the order of their references, and AWS
refuses to delete what is in use.  What the operator does by hand (making
prerequisites, delegating the zone, switching protection) is external.

### The compiler

A name is a sequence of tokens, each with a length (`Chars`), so that joining,
lowercasing and limits are those of `naming.py` and equal renderings are equal
sequences.  `Cicl!Issues` is the union of the validation rules, one operator per
rule, of a document under given tables; `TransferTables` keeps what the shipped
tables say of roles and engines and merges a project's layer into it.
`Emission` yields, per directory of the output, the containers with their names,
aliases, networks and environments, or the HCL resources, as *claims*
`<<kind, name, owner>>`: two claims of one kind and name with different owners
are a collision.  `LateErrors` are the failures that validation leaves to the
compile.  `Outcome` puts these together, per revision of the sources, and tells
of each file what the properties ask; TLC works `Outcomes` out once.  `Compiler`
writes the files one by one, is killed, is run again on an edited document, and
has the slots of test stacks compiled beside it.

## 3. The runs

Passing runs:

| Run | Instance | What it shows |
|---|---|---|
| `jobs_race` | 2 launchers, one scope, 3 runs, one kill of each kind, one daemon error, one failed teardown | the name as a lock, honest exit codes |
| `jobs_solo` | 1 launcher, 1 reader, 3 runs, 2 vessel kills, 1 foreground kill, fairness | the refinement of `JobHandle`, healing and reclaiming, waits that end |
| `merge_quiet` | 2 features that clash, one teammate change, 1 kill, nobody busy while a job runs but for the developer's fetches | what is published was checked, true records, tags, the refinement of `Trunk` |
| `merge_busy` | developer edits and fetches, team pushes, check and merge overlap, 1 network failure | no commit is lost, worktrees are kept apart |
| `release` | 2 services that use each other, one appears in version 2, one schema owner, 2 faults, 1 rollback, fairness | success means live and resolvable, schema before code, convergence |
| `fleet` | bands of 2, tests of 1 and 2 shards beside checks of 1 and 2, 3 launches, 1 kill, 1 failed teardown | no stack is disturbed, clean databases, complete verdicts, no stray stacks |
| `devhost` | 2 terminals, 2 keys, 4 documents (an engine taken out and put back; a key that is a secret, a config value or minted), 3 commands, 1 edit, 1 fault | credentials and acknowledged values survive, no migration is locked out, no container starts on half a build unless a copy was broken off or another command is filling it |
| `stage` | both foundations; 2 operators, 2 versions (the second adds an engine and a clock), 2 commands, 3 tasks per service, 1 fault | host credentials, order on a host, logins after a success; the truth of a certificate |
| `infra` | both foundations; 2 operators, 2 envs, 1 codebase, 3 commands besides `projinfra up`, 1 fault (an interruption, a failed read, or a down without compiled output), fairness | nothing is orphaned, no env loses its tier, protection protects, `projinfra up` completes |
| `cicl` | 2 projects, each under every pair of 32 changes, 1 edit, 2 compiles, kills, 2 test slots | distinct names but for the three kinds that rule 5 lets pass, references that land, one source per key, a true exit code |

Why the bounds are enough.  *Processes:* each hazard needs at most two commands
of a kind and one more to see what they left; at most one other process to
interfere; and one fault, or a fault while an earlier one is repaired (2).
*Data:* two shards are the smallest fleet with a partial failure, two features
the smallest conflict, two services the smallest cycle of `uses`, two versions
the smallest upgrade (and the second may be released first, so that a rollback
goes to a version never released), two envs the smallest tier in which one stands while the
other goes, three tasks a rolling deployment with a crash in it.  *Documents:*
the rules compare at most two parts of a document, so pairs of changes bring
each clash about; the lengths in `Lengths` bring one name past a limit.  The
instances are exhaustive within their bounds; `jobs_race`, `devhost` and
`stage` use symmetry over processes, and check no liveness.

Runs that show a disagreement of the code with what the repository says of it
(each checks one property; PROJECT.json quotes the sentence):

| Run | What happens |
|---|---|
| `jobs_stale` | with two launchers the preflight of one reaps, by name, the run that the other has just launched: exit code 137 and no stack, while its vessel is alive |
| `infra_gate` | `projinfra down` asks for services only and takes an env that was interrupted half way for torn down |

This is why `EnvHasItsTier` and `StateOutlivesResources` are conditional on
`~misread`, and why `ImplementsHandle` and `FreedRunIsAccountedFor` are checked
with one launcher.  Other disagreements have no run of their own and are visible
in the properties as conditions: `~skipped` in `StateOutlivesResources`,
`PassesRule5` in `NamesDistinct`, and in `CertificateIsTrue` that a service on
ECS may also keep tasks of the version it was rolled to.  Dropping such a
condition gives the counterexample; section 6 describes each.

Deadlock is checked wherever something can always happen.  `jobs_race`,
`jobs_stale` and the
runs of `merge`, `fleet`, `devhost`, `stage` and `cicl` turn it off: launches,
commands and edits are bounded there, so the instance really comes to rest.

### Fairness

* `DurableJobs`: weak fairness of each foreground's own steps and of each
  vessel's: a process that was started runs until it ends or is killed.  No
  launch, kill or wait is promised.
* `ElasticRelease`: weak fairness of command steps, of a running migration's
  success, and of `tofu force-unlock` by the operator who finds a lock; strong
  fairness of beginning a release, since an operator whose release failed runs
  it again (the messages of release.py tell them to).  Faults are bounded, so
  `ReleaseConverges` says: once faults stop, retrying is enough.
* `InfraTiers`: weak fairness of each command's steps; strong fairness of
  running `projinfra up` again while the tier is incomplete, and of delegating
  the zone, which other commands may interrupt; weak fairness of making the
  prerequisites.  Each is what the command's own output asks of the operator.
  Commands other than `up` are bounded, so `TierIsCompleted` says: left to
  itself, however it was interrupted, up run again is enough.

The other modules have no liveness properties: nothing in their code retries.

## 4. What is proved

TLAPS checks, for any number of processes, runs, kills, services, versions and
any width of the bands, any documents and role tables, from the named ASSUMEs on the constants and the
hypothesis in the last column, if any:

| Theorem | Says | Provided that |
|---|---|---|
| `DurableJobsProofs!TypeCorrect` | `[]TypeOK` | |
| `DurableJobsProofs!NameLock` | `[]NameIsLock` | |
| `DurableJobsProofs!HonestExit` | `[]ExitIsHonest` | |
| `DurableJobsProofs!JobsImplementHandle` | `ImplementsHandle` | `OneLauncher` |
| `DurableJobsProofs!FreedIsAccountedFor` | `[]FreedRunIsAccountedFor` | `OneLauncher`, `DaemonAnswers` |
| `CheckMergeProofs!TypeCorrect` | `[]TypeOK` | |
| `CheckMergeProofs!WorktreeIsOwn` | `[]OwnWorktree` | `MaxKills = 0 \/ ~Overlap` |
| `CheckMergeProofs!CommitsAreKept` | `[]NoCommitLost` | `"switch" \notin DevBusy` |
| `CheckMergeProofs!EveryPublishedTreeWasChecked` | `[]PublishedWasChecked` | `Quiet` |
| `CheckMergeProofs!RecordIsAlwaysTrue` | `[]RecordIsTrue` | `Quiet` |
| `CheckMergeProofs!TagsNameTheirTrees` | `[]TagNamesItsTree` | `Quiet` |
| `CheckMergeProofs!MergeImplementsTrunk` | `ImplementsTrunk` | `Quiet` |
| `ElasticReleaseProofs!TypeCorrect` | `[]TypeOK` | |
| `ElasticReleaseProofs!SuccessServes` | `[]SuccessIsServing` | `OneOperator` |
| `ElasticReleaseProofs!SchemaFirst` | `SchemaBeforeCode` | `OneOperator` |
| `TestFleetProofs!BandsApart` | no two shards share a slot, whatever `MAX_TEST_SLOTS` | |
| `TestFleetProofs!TypeCorrect` | `[]TypeOK` | |
| `TestFleetProofs!StackSafe` | `StackUndisturbed` | |
| `TestFleetProofs!GreenIsComplete` | `[]GreenCoversSuite` | |
| `TestFleetProofs!SlateIsClean` | `[]CleanSlate` | |
| `TestFleetProofs!NothingIsLeft` | `[]TestLeavesNothingElse` | |
| `StageProofs!TypeCorrect` | `[]TypeOK` | |
| `StageProofs!CredentialKept` | `[]HostCredentialKept` | |
| `StageProofs!SchemaComesFirst` | `[]FixedSchemaBeforeCode` | |
| `StageProofs!DeployedLogsIn` | `[]DeployedCanLogIn` | |
| `StageProofs!CertificateHolds` | `[]CertificateIsTrue` | |
| `DevHostProofs!TypeCorrect` | `[]TypeOK` | |
| `DevHostProofs!CredentialsSurvive` | `[]CredentialSurvives` | |
| `DevHostProofs!LoginsWork` | `NeverLockedOut` | |
| `DevHostProofs!GivenValuesKept` | `[]GivenValueKept` | |
| `DevHostProofs!ArtifactsAreServed` | `DevServesArtifacts` | |
| `InfraTiersProofs!TypeCorrect` | `[]TypeOK` | |
| `InfraTiersProofs!ProtectionHolds` | `[]ProtectedStaysWhole` | |
| `InfraTiersProofs!TierStands` | `[]EnvHasItsTier` | |
| `InfraTiersProofs!BackendOutlives` | `[]StateOutlivesResources` | |
| `CompilerProofs!VerdictHolds` | `[]VerdictIsTrue` | `SoundSources` |
| `CompilerProofs!OneSourcePerKey` | `[]KeysHaveOneSource` | `SoundSources` |
| `CompilerProofs!ReferencesLand` | `[]RefsLand` | `SoundSources` |
| `CompilerProofs!PairIsEnough`, `PairIsLeast`, `RefusedOnlyAbove` | the chosen size is one Fargate offers, holds the request, is the least such, and is refused only for want of memory | |
| `CompilerProofs!LargestIsNoTier`, `MigrationCovers` | the largest of two sizes may be none, and the rounding repairs it | |
| `CompilerProofs!TaskHoldsBoth` | a service's task holds its request and its sidecar's | |

Every property that a passing run checks is proved, but for the liveness ones
and the compiler's `NamesDistinct`; those of the violation runs are false.

### The hypotheses

Each is the situation of the run that checks the property, without its bounds.
Section 6 names what goes wrong outside of it; nothing is claimed there.

* `OneLauncher` (`jobs_solo`): one foreground at a time launches in a scope;
  readers are any number.  With two, the preflight of one may act on an inspect
  answer that the other has made stale.
* `DaemonAnswers` (`MaxDaemonErrors = 0`): a daemon error reads as "no container",
  and the launch that follows loses to the container and leaves the newest record
  of its name, which the next reaper takes for the one it removes.
* `Quiet` (`merge_quiet`): origin exists and, while a job runs, only the
  developer's `git fetch` happens beside it; any number of jobs follow one
  another, and between them developer and team do what they like.
* `"switch" \notin DevBusy`: merge checks out and deletes branches by name in
  the developer's own checkout.  Edits, commits, fetches, teammates, the other
  job and kills are all allowed.
* `MaxKills = 0 \/ ~Overlap`: reaping a killed check removes a worktree by its
  path.
* `OneOperator` (`release`): tofu's lock serialises applies, not commands; with
  two operators one may return when the other has replaced its services.
* `SoundSources` (`cicl`): whatever passes the validation is *sound*, which says
  of a project what no rule asks of it.  The run evaluates this for every
  document it enumerates, under the shipped tables and under a project's layer.
  * The author writes only the compile-time variables that exist
    (`PlainDocument`).  A hand-written `$[X]` is a runtime key that no rule
    looks at and no store holds.
  * A table declares the runtime keys of its templates (`DeclaresKeys`), gives
    as `host` a name or attribute that the emitters make for it (`HostIsReal`),
    and offers on a fixed host whatever it offers elsewhere (`Interchangeable`);
    a core role has no keys of its own (`CoreHoldsNoKeys`).  The shipped tables
    are so; a project's layer may say anything.
  * A backing service that offers a host or a port has one (`BackingHasPort`),
    and a codebase-level host that every service shadows is of a service with
    a port (`ShadowedHostsHavePorts`), since no rule sees it.

### The arguments

*DurableJobs.* `ExitIsHonest` is not inductive: a foreground that reports a
launch error must know that no body ran.  `IInv` adds that a launcher owns the
run between its record and its vessel (`LaunchersApart`, `LauncherOwnsRun`),
that an unrecorded run is untouched, and that what is held belongs to a run
entitled to it (`HolderIsEntitled`).  `ReapInv` adds for one launcher that what
a preflight reaps is dead and of its own scope (`ReapsTheDead`, `ReapsItsScope`)
and not settled yet (`NotYetSettled`), which gives the
refinement of `JobHandle`, step by step through `Phase`.  `FreeInv` follows the
name: records are made in order (`RecordsInOrder`), the newest one has the name
(`NameOfNewest`), a name to reap stays until it is reaped (`NameToReap`) and is
free from then until the launch (`NameIsFree`), so the run a reaper settles is
the one whose container it removes (`ReaperHasSettled`, `RemovedIsSettled`), and
unless a foreground died or a removal failed a run it has settled holds nothing
but a gate's stack (`OrphansHoldNothing`).

*CheckMerge.* The types are not inductive alone: a push finds the tag it pushes
(`PushTagged`).  `OwnInv` extends ownership of a worktree to its removal and to
what the reaper will remove.  `KeepInv` says that a merge past its fast-forward
has its feature on main, which stays checked out, so commits made meanwhile land
there too (`MergedIsOnMain`).  `PublishInv` follows a tree through one job: what a
job has read is still so (`RefsRead`), what is in its worktree is what it says
(`TreeBuilt`), and what merge is about to publish is tested, extends the trunk
and has the version of its tag (`WayToTrunk`); tags lie on the trunk
(`TagsOnTrunk`), and a record's tree is the rebase of what it names
(`RecordChecked`).  The lemmas it needs are about `Rebased`, a recursive
function: a rebase extends its base, has exactly the changes of both sides
(`RebasedFacts`), and a version newer than the base's comes from the branch
(`RebasedVersion`).  These are by induction over the naturals, which needs no
theorem with an operator parameter: a set of naturals has a least element
(`NatHasLeast`, from the library's facts about `OpToRel(<, Nat)`), so a subset
of `0..n` with 0 and all successors is `0..n` (`UpTo`).

*ElasticRelease.* `SuccessIsServing` says what is true at the end; `ServeInv`
what a command has so far: schemas of the owners it is done with are migrated,
by definitions of its version (`Migrated`, `TaskVersions`); an env taken for new
holds nothing but what this command put there (`FirstIsFresh`); after the apply
the services are on the version and no name is racing (`Settled`); after the
reconcile each consumer sees what it uses (`Sighted`, `Reconciled`).

*TestFleet.* `StackUndisturbed` needs to know that a suite's stack is up
(`TestedIsUp`), that a thread exists only within the width of a run at work
(`ShardsBelong`), so that a preflight, which runs when its own scope's threads
are gone, can hit no thread of its scope, and `BandsApart` for all others.
`GreenCoversSuite` needs the count that the shares of a run at work are those
of its shards that passed (`SharesCounted`), and `ShareIsIndex`: the number
told to `test.sh` is the shard's index, whatever the band.  `SlateInv` accounts
for what is dirty: a stack of a test that is up or has data is kept, will be
reaped by the next launch, or is about to be (`DirtIsKnown`); one that has come
up for a suite is empty (`FreshUp`).

*Fixed release and Stage.* `HostCredentialKept` says nothing of the stores that
commands have staged and not yet put on the host.  `StoreInv` does: each is a
superset of the host's store, and two that are staged at once agree, so that
whichever is put there last loses nothing; and the host's `.env` and the volumes
hold what the store holds.  `OrderInv` says of the only command at work what it
has done so far: past the migration, the schema is at least of its version, and
the compose file on the host is its own.  The lemmas of the first half of
`StageProofs` are about `FixedRelease` alone and then lifted, since a step of
ECS or of the gate leaves the host alone.  `LoginInv` follows a credential from
the store that a command has staged, which has one for each engine of its version
(`StagedForAll`), through the host's `.env` (`RenderedForAll`) to the volume an
engine is made with (`VolumeMade`) and to what a success has left (`DoneForAll`).
`CertInv` says of a gate at work what its certificate will say at the end: the
services it is done with were seen up (`Vouched`), and while nobody deploys what
it read of them stays (`HostVouched`, `TasksVouched`), because a task it has not
listed yet is one placed since, of the one deployment there is (`ListedOrNew`).

*DevHost.* `CredentialSurvives` says what the volumes hold, not where it comes
from.  `Safe` follows a value on its way: while the store is undamaged it has at
most one rewriter (`OneRewriter`), which has read everything that is there and
leaves no declared key without a value (`RewritersCover`); what a bring-up is
about to publish, and what is in the aggregate while one runs on it, is held by
the store or by that rewriter (`MergersHold`, `AggregateHolds`), for the document
that the stack was last compiled from (`OneDocument`); so a volume can only be
made with such a value (`VolumesHold`).  Most steps leave the store alone and are
covered by one lemma (`CalmSafe`); the compile, the read and the rewrite have one
each.  Since a key holds one value (`HeldOnce`), the login of a migration is the
one its engine was made with.  `GivenInv` is the same for the operator's files:
an undamaged file has one rewriter, which writes what was given but for the key
it changes or drops (`Respects`), and holds what was given while nobody is
writing (`FileKept`).  `DistInv`: a half-filled `dist/` is being filled, and a
bring-up past its look at it has seen a full one or one being filled.

*InfraTiers.* `WholeInv` adds to `ProtectedStaysWhole` that an `envinfra down`
of a protected env has not passed its gate.  `TierInv` covers the two
conditional invariants: while commands have not overlapped, at most one is at
work (`Alone`); a down past its gate stands over no env (`GateSawAll`); what it
has planned to destroy is all there is, and then nothing is left
(`DownEmpties`); an up that has planned has its bucket (`UpHasBucket`).  A down
that skipped its destroy breaks the last of these links and no other: what is
lost then is what `NothingLost` rules out without it.

*Compiler.* `CompileInv` says of the tree that each main file is of a revision
that passed, in a directory where it does not fail (`FilesKnown`); of a run, that
the directories it has begun are the first ones in order, do not fail, and have
their files on disk or yet to be written (`RunKnown`, `RunWrote`).  With it the
verdict is a matter of one compile.  A failure that was not foreseen is
impossible because validation accepted the document: each template that
`compile_env` resolves for a service is one that `_validate_magic_refs` saw as
that service's own, or one that it overrides (`TemplateIs`), and each reference
it saw resolves on a host (`HostValueResolves`), by whichever engine stands in
there.  That a fixed project fails with no directory written or for a name's
length is a comparison of two envs of one foundation: templates, entries and
ports are the same, values differ only in names, which are never empty, so what
fails in one fails in the other (`Cousins`, `Alike`).  `KeysHaveOneSource`
follows from two facts: whatever key reaches a container is declared by an
engine in use, by a codebase or by the doctrine (`ContainerKeys`), and what is
declared is in one category, by rule (`KnownHasOneSource`).  `RefsLand` splits
by foundation: on a host the name is that of a container on every network of
the service (`LandsOnMachine`); on AWS it is a discovery name, which takes a
port, or an attribute of a resource that `render_service` emits (`LandsOnAws`).
These proofs are about what the operators say of any document, so `Length`, the
resolved strings and the tables are written without recursion.

Trying to prove them found three things: that a codebase's value is resolved
once more for a service that overrides it (section 6); that a verdict answers
for the directories of its own compile and not for those of test slots, written
in between; and what soundness has to exclude.

The strengthened invariants were model-checked on the instances of section 3
before they were proved.

### What is only model-checked

* All liveness (`AttachReturns`, `NextLaunchHeals`, `ReleaseConverges`,
  `TierIsCompleted`): fairness, and the ENABLED in it, is beyond the prover.
* The compiler's `NamesDistinct`.  It excepts the documents in `PassesRule5`: the
  collision rule does not know the sidecars of replicas, the log groups of
  migrations, nor the slot segment of
  test stacks (section 6), and the changes of the run include a name of each of
  these kinds, so that every exception is needed.  That every other document is
  refused or harmless is shown for the enumerated ones, and not proved.
* The runs that show a disagreement.

## 5. What is not modelled

* Jobs: the `noop` kind, logs, `merge --detach`'s refusal of brokered
  credentials.  A body's inside is `CheckMerge` or `TestFleet`.
* Merge: the empty-origin first release; two temp branches named in the same
  second; the content gates one by one.
* Release: the dry run; services that tofu marks tainted; ECS replacing a task
  of its own accord (it would pick up newer SSM values); a push that stops half
  way as a mix of values; an app that crash-loops until its schema exists (the
  first release starts code before its schema by design); two operators on the
  elastic foundation; several deploy hosts.
* Test stacks: compiling and aggregating, which write files of the run alone.
* Dev host: the diagnosis of unhealthy containers; comments and quoting in the
  files, which the writers keep or drop but never read as values.
* Infra tiers: the development side's preinfra, DNS probes, the contents of the
  HCL beyond who refers to whom.
* Compiler: the syntax of values (cron, sizes as written; a domain is its labels,
  a job's name is an identifier or is not), a role with no engine at all (the
  document is refused either way), the
  collector's configuration, layout.  Assumptions: two compiles never write one
  directory of one checkout at once; the hash that shortens a name is free of
  collisions; the author goes between the revisions in `Editable`.
* Docs tooling and reports: sequential, read-only, without state.  The shim: one
  process and a trap, where what races is the kernel's and docker's.
  Doctrine, skills and installers are no program of this system.

## 6. Known divergences

Read in the code while modelling.  An entry names the invariant that excepts it,
or the run that shows it, if there is one.

Jobs, tests and merging:

* The foreground's late write of status "running" overwrites the vessel's
  terminal status for good (commands.py:160, against commands.py:553-554).
* A preflight whose inspect answer is stale takes down the stack of the run now
  alive, and gives it exit code 137 (reaper.py:61, against reaper.py:18-20):
  `jobs_stale`; `ImplementsHandle` is checked with one launcher.
* A teardown that fails after the suite is a warning and the run still returns 0
  (test.py:208, test.py:381); `ExitIsHonest` excepts it.  The reaper does not
  look at the exit codes of its own, and takes the stacks of a gate's slots down
  with slot 1's compose file (reaper.py:176): `FreedRunIsAccountedFor` excepts
  both.
* A reaper killed between the exit file and the teardown is never completed
  (reaper.py:68).  The reaper heals the newest record of a vessel name, which
  may be that of a launch that lost the race (reaper.py:40); such a launch
  leaves a record without exit file, an orphan in `job ls`, for which
  `job wait` blocks (record.py:222).
* HEAD is read for the provenance record after the tests (check.py:1104,
  against check_record.py:12-13), and merge asks for the branch after its
  recheck (merge.py:119): commits and switches made meanwhile pass unchecked,
  so `merge_quiet` keeps developer (but for fetches) and team still while a job runs.  merge also
  fetches after its recheck and pushes what it then rebased onto (merge.py:133).
* The tag's version is read before the tree it names is (merge.py:188), and a
  failed push after the fast-forward cannot be retried (merge.py:189).
* Reaping a killed check removes the worktree of a merge at the same commit
  (commands.py:218); with kills and overlap together `OwnWorktree` fails.
* An unsharded test reuses the stack, and database, that a failed shard was kept
  up with (test.py:130, against test.py:11-12); `CleanSlate` excepts it.

Values, releases and envs:

* A changed secret is pushed to SSM and no running task is replaced to read it
  (release.py:578, against config_and_secrets.md:342).
* A read of the host's store that fails remotely looks like an empty store, and
  the live credential is minted anew (aggregate.py:140); `HostCredentialKept`
  excepts it.
* A file of values is truncated before it is written (envfile.py:57): a kill in
  between loses every value, as does a second writer.
* A compile beside a bring-up puts a new compose file under it, which it starts
  on the environment aggregated for the old one.
* Rollback compares its target with `project.yml`, not with what the env runs
  (rollback.py:120), and skips migrations: on an env that was never migrated
  that far, code comes before its schema (`leapt`).
* `migrate stage` on a fixed host runs the compose file last released, whatever
  is checked out.
* containerize says that it requires the tag on HEAD and asks only that the tag
  exists (containerize.py:91).

Health gate:

* The gate reads the tasks that run and not the deployment (it makes no
  describe_services call, orchestrator_health.py:339): a service rolled to another version passes on its
  old task (against cicd.md:232); `CertificateIsTrue` allows for it.

Infra tiers:

* `projinfra down` takes an env without services for torn down
  (projinfra.py:167, against projinfra.md:100): `infra_gate`; on the fixed foundation its gate
  does not look at the stacks of test slots.
* `tofu state list` that fails reads as an empty state: `projinfra up` repeats
  phase 1 and exits 0 with the tier unfinished.
* `projinfra down` on a checkout without main.tf skips `tofu destroy` and deletes
  the state backend over what stands (projinfra.py:201-206, against
  projinfra.py:149); `StateOutlivesResources` and `TierIsCompleted` except it.
* `projinfra down production` is not idempotent: once the bucket is gone, `tofu
  init` fails (against projinfra.md:97).

Compiler:

* The collision rule (5) does not know log groups (a codebase `api-web` with a
  schema has its migration in the group of the service `web` of codebase `api`,
  hcl.py:714 and 559), nor a service named like the sidecar of a replica
  (`api-web-1-otelcol`, against validate.py:1134-1137), nor the slot segment of
  test stacks (`s2`).  `NamesDistinct` excepts these (`PassesRule5`).
* A codebase-level reference that every service shadows is not validated, and
  fails late for the exec service and the migration.  One that a service
  overrides is resolved for that service all the same (compile.py:1108): if it
  names that very service, which validation lets pass because the value it sees
  there is another, the compile ends in a self-reference.  A composed secret in a
  hand-written `$[X]` is not validated at all; `command` and role fields accept
  references and are emitted with them unresolved (against cicl.md:167).
* An elastic project whose backing service has `engine: s3` alone passes
  validation, and its dev env, which is always fixed, fails to compile; sizes, disks, over-long names and parts that only another
  engine exposes fail late too, with earlier envs written (`VerdictIsTrue`
  foresees exactly these).
* A composed `${db.host}:${db.port}` is emitted as invalid HCL.
* A sharing of the `web` network alone lets services reach each other on a host
  and not on ECS; no rule asks the ends of a `uses` edge to share a network, or
  a schema's owner to use its database.
* hcl.py:688-701 calls the componentwise largest of two Fargate tiers a tier;
  it is not (`LargestIsNoTier`), and the rounding repairs it
  (`MigrationCovers`).  A request above 16 vCPU is clamped and not refused
  (against cicl.md:382).
* Files that a revision no longer emits stay on disk (compile.py:1331).

## 7. Plan

1. Proofs: `NamesDistinct` for all documents but those in `PassesRule5`; `JobHandle` under two launchers once its promise allows
   for a stale preflight.
2. One abstract release that `ElasticRelease` and `FixedRelease` both implement.
3. Containerize beside merge and release: what commit an image was built from.
4. The translation of cron expressions against a reference definition, and link
   reachability of the docs tooling.
5. `Shim`: responder, socket, container and trap.

## 8. Running it

    tlc -workers 2 -config jobs_solo.cfg MCDurableJobs.tla
    tlapm TestFleetProofs.tla

A passing run takes up to three minutes with two workers (`infra` the longest);
the proofs take a few minutes each from nothing (`CheckMergeProofs` and `CompilerProofs` the longest).
