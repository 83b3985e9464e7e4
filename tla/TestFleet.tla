------------------------------ MODULE TestFleet ------------------------------
(***************************************************************************)
(* The stacks that `docex test`, `check` and `merge` bring up for their    *)
(* test runs (docex/orchestrate/test, the slot bands of                    *)
(* docex/orchestrate/_common, and the fleet teardown of docex/jobs/reaper) *)
(* on one docker host.                                                     *)
(*                                                                         *)
(* Each scope runs one vessel at a time: that the vessel's name is a lock  *)
(* is DurableJobs' subject.  Inside the vessel one thread per shard drives *)
(* the stack of its slot; a stack is its containers and its database       *)
(* volume, whose explicit name outlives the containers.  One step is one   *)
(* compose call, or one run of the suite in one stack.                     *)
(***************************************************************************)
EXTENDS Naturals, FiniteSets

CONSTANTS
    MAX_TEST_SLOTS,  \* the width of a band
    Widths,          \* scope -> values of --slots that are used
    MaxLaunches,     \* bound: launches, which number the runs
    MaxKills,        \* bound: vessels or preflights killed
    MaxDownFailures  \* bound: `compose down` calls that fail

Scopes == {"test", "check", "merge"}
Gates == {"check", "merge"}

ASSUME BandAssumption == MAX_TEST_SLOTS \in Nat \ {0}
ASSUME WidthsAssumption == Widths \in [Scopes -> SUBSET (1..MAX_TEST_SLOTS)]
ASSUME LimitsAssumption == {MaxLaunches, MaxKills, MaxDownFailures} \subseteq Nat

VARIABLES
    run,      \* scope -> its preflight and vessel, or its last run
    shard,    \* scope -> shard -> the thread that drives it
    shares,   \* scope -> shares of the suite that passed in this run
    leak,     \* scope -> the --slots of a killed run not yet reaped, or 0
    up,       \* slots whose containers are up
    data,     \* slot -> the run that made its database volume, or 0
    kept,     \* history: slots of failed shards, kept up for debugging
    count     \* launches and faults so far

vars == <<run, shard, shares, leak, up, data, kept, count>>

CHECK_BASE == MAX_TEST_SLOTS + 1
MERGE_BASE == 2 * MAX_TEST_SLOTS + 1

BaseTooLow(s) ==   \* mutant: the ceiling itself is the check's base
    CASE s = "test"  -> 1
      [] s = "check" -> MAX_TEST_SLOTS
      [] s = "merge" -> MERGE_BASE

Base(s) ==
    CASE s = "test"  -> 1
      [] s = "check" -> CHECK_BASE
      [] s = "merge" -> MERGE_BASE

Shards == 1..MAX_TEST_SLOTS
Slots == 1..(3 * MAX_TEST_SLOTS)

\* band_slots: shard i of a run drives the i-th slot of its scope's band.
Slot(s, i) == Base(s) + i - 1

IdleShard == [pc |-> "none", ok |-> TRUE]
ShardStates == {"none", "build", "buildDown", "clean", "up", "suite",
                "teardown", "done"}

TypeOK ==
    /\ run \in [Scopes -> [pc : {"idle", "reap", "work"}, id : Nat,
                           width : 0..MAX_TEST_SLOTS, todo : SUBSET Shards,
                           verdict : {"none", "green", "red"}]]
    /\ shard \in [Scopes -> [Shards -> [pc : ShardStates, ok : BOOLEAN]]]
    /\ shares \in [Scopes -> SUBSET (Nat \X Nat)]
    /\ leak \in [Scopes -> 0..MAX_TEST_SLOTS]
    /\ up \subseteq Slots /\ kept \subseteq Slots
    /\ data \in [Slots -> Nat]
    /\ count \in [{"launch", "kill", "down"} -> Nat]

Init ==
    /\ run = [s \in Scopes |-> [pc |-> "idle", id |-> 0, width |-> 0,
                                todo |-> {}, verdict |-> "none"]]
    /\ shard = [s \in Scopes |-> [i \in Shards |-> IdleShard]]
    /\ shares = [s \in Scopes |-> {}]
    /\ leak = [s \in Scopes |-> 0]
    /\ up = {} /\ kept = {}
    /\ data = [k \in Slots |-> 0]
    /\ count = [f \in {"launch", "kill", "down"} |-> 0]

----------------------------------------------------------------------------
Counted(kind, max) ==
    /\ count[kind] < max
    /\ count' = [count EXCEPT ![kind] = @ + 1]

Sharded(s) == run[s].width >= 2
At(s, i, pc) == run[s].pc = "work" /\ shard[s][i].pc = pc
Goto(s, i, pc) == shard' = [shard EXCEPT ![s][i].pc = pc]
GotoWith(s, i, pc, ok) ==
    shard' = [shard EXCEPT ![s][i] = [pc |-> pc, ok |-> ok]]

\* `compose down -v` with the compose file of slot k itself.  Nobody looks at
\* its exit code.
Down(k) ==
    \/ /\ up' = up \ {k} /\ kept' = kept \ {k}
       /\ data' = [data EXCEPT ![k] = 0]
       /\ UNCHANGED count
    \/ Counted("down", MaxDownFailures) /\ UNCHANGED <<up, kept, data>>

----------------------------------------------------------------------------
(* Launch and preflight.                                                   *)

\* The preflight takes over what a killed run of the scope has recorded; its
\* synthetic exit file makes this the only try.
Launch(s, n) ==
    /\ run[s].pc = "idle" /\ n \in Widths[s]
    /\ Counted("launch", MaxLaunches)
    /\ run' = [run EXCEPT ![s] =
                  [pc |-> "reap", id |-> count["launch"] + 1, width |-> n,
                   todo |-> 1..leak[s], verdict |-> "none"]]
    /\ leak' = [leak EXCEPT ![s] = 0]
    /\ shares' = [shares EXCEPT ![s] = {}]
    /\ UNCHANGED <<shard, up, data, kept>>

ReapTestFirst(i) ==   \* mutant: the teardown of one stack, not of the fleet
    /\ run["test"].pc = "reap" /\ i \in run["test"].todo
    /\ run' = [run EXCEPT !["test"].todo = {}]
    /\ Down(Slot("test", i))
    /\ UNCHANGED <<shard, shares, leak>>

\* _teardown_test_stack: slot after slot.
ReapTest(i) ==
    /\ run["test"].pc = "reap" /\ i \in run["test"].todo
    /\ run' = [run EXCEPT !["test"].todo = @ \ {i}]
    /\ Down(Slot("test", i))
    /\ UNCHANGED <<shard, shares, leak>>

\* _teardown_worktree_job: the stack's compose project, but with the compose
\* file of slot 1.  The containers go only as far as compose takes a project
\* to be more than the services its file lists; the volumes that the file
\* names are those of slot 1, which docker keeps while they are in use.
ReapGate(s, i) ==
    /\ run[s].pc = "reap" /\ i \in run[s].todo
    /\ run' = [run EXCEPT ![s].todo = @ \ {i}]
    /\ \E gone \in SUBSET {Slot(s, i)} : up' = up \ gone /\ kept' = kept \ gone
    /\ IF 1 \in up THEN UNCHANGED data
       ELSE \E d \in {0, data[1]} : data' = [data EXCEPT ![1] = d]
    /\ UNCHANGED <<shard, shares, leak, count>>

\* The vessel is up: a thread per shard, or the single-stack path, which for
\* a gate begins with a build and for a test with no clean slate.
StartShards(s) ==
    /\ run[s].pc = "reap" /\ run[s].todo = {}
    /\ run' = [run EXCEPT ![s].pc = "work"]
    /\ LET first == CASE Sharded(s)  -> "clean"
                      [] s \in Gates -> "build"
                      [] OTHER       -> "up"
       IN  shard' = [shard EXCEPT ![s] = [i \in Shards |->
               IF i <= run[s].width THEN [pc |-> first, ok |-> TRUE]
                                    ELSE IdleShard]]
    /\ UNCHANGED <<shares, leak, up, data, kept, count>>

----------------------------------------------------------------------------
(* One shard: _run_one_slot, or run_test's single-stack path.              *)

\* `compose up` makes the volume only if there is none of its name; a failed
\* one may leave some of the containers, and the volume, behind.
ComposeUp(s, k) ==
    /\ up' = up \cup {k}
    /\ data' = [data EXCEPT ![k] = IF @ = 0 THEN run[s].id ELSE @]

\* _compose_build: an up, to build the images, and a down.
Build(s, i) ==
    /\ At(s, i, "build")
    /\ \E ok \in BOOLEAN : GotoWith(s, i, "buildDown", ok)
    /\ ComposeUp(s, Slot(s, i))
    /\ UNCHANGED <<run, shares, leak, kept, count>>

BuildDown(s, i) ==
    /\ At(s, i, "buildDown")
    /\ Goto(s, i, IF shard[s][i].ok THEN "clean" ELSE "done")
    /\ Down(Slot(s, i))
    /\ UNCHANGED <<run, shares, leak>>

CleanSkipped(s, i) ==   \* mutant: no down before the up
    /\ At(s, i, "clean")
    /\ Goto(s, i, "up")
    /\ UNCHANGED <<run, shares, leak, up, data, kept, count>>

Clean(s, i) ==
    /\ At(s, i, "clean")
    /\ Goto(s, i, "up")
    /\ Down(Slot(s, i))
    /\ UNCHANGED <<run, shares, leak>>

\* A failure ends a shard, whose stack is kept up; the single-stack path
\* always goes through its teardown.
Fail(s, i) == GotoWith(s, i, IF Sharded(s) THEN "done" ELSE "teardown", FALSE)
KeepUp(s, k) == kept' = IF Sharded(s) THEN kept \cup {k} ELSE kept

Up(s, i) ==
    LET k == Slot(s, i)
    IN  /\ At(s, i, "up")
        /\ \/ ComposeUp(s, k) /\ Goto(s, i, "suite") /\ UNCHANGED kept
           \/ /\ ComposeUp(s, k) \/ UNCHANGED <<up, data>>
              /\ Fail(s, i) /\ KeepUp(s, k)
        /\ UNCHANGED <<run, shares, leak, count>>

\* The share that test.sh is told to run: DOCEX_TEST_SLOT and _SLOTS.  The
\* single-stack path tells it nothing, and it runs everything.
SharePhysical(s, i) ==   \* mutant: the slot, not its index in the band
    <<IF Sharded(s) THEN Slot(s, i) ELSE 1, run[s].width>>

Share(s, i) ==
    <<IF Sharded(s) THEN Slot(s, i) - Base(s) + 1 ELSE 1, run[s].width>>

\* migrate.sh of every schema owner, then test.sh of every codebase.
Suite(s, i) ==
    /\ At(s, i, "suite")
    /\ \/ /\ GotoWith(s, i, "teardown", TRUE)
          /\ shares' = [shares EXCEPT ![s] = @ \cup {Share(s, i)}]
          /\ UNCHANGED kept
       \/ Fail(s, i) /\ KeepUp(s, Slot(s, i)) /\ UNCHANGED shares
    /\ UNCHANGED <<run, leak, up, data, count>>

Teardown(s, i) ==
    /\ At(s, i, "teardown")
    /\ Goto(s, i, "done")
    /\ Down(Slot(s, i))
    /\ UNCHANGED <<run, shares, leak>>

Width(s) == 1..run[s].width
Ended(s) == \A i \in Width(s) : shard[s][i].pc = "done"

\* The pool has joined: the first non-zero code, or 0.
Report(s) ==
    /\ run[s].pc = "work" /\ Ended(s)
    /\ run' = [run EXCEPT ![s].pc = "idle",
                  ![s].verdict = IF \A i \in Width(s) : shard[s][i].ok
                                 THEN "green" ELSE "red"]
    /\ shard' = [shard EXCEPT ![s] = [i \in Shards |-> IdleShard]]
    /\ UNCHANGED <<shares, leak, up, data, kept, count>>

\* A killed vessel leaves its stacks and its record; a killed preflight
\* leaves what it had not got to, and no record of it.
Kill(s) ==
    /\ run[s].pc # "idle"
    /\ Counted("kill", MaxKills)
    /\ run' = [run EXCEPT ![s].pc = "idle", ![s].todo = {}]
    /\ leak' = [leak EXCEPT ![s] = IF run[s].pc = "work" THEN run[s].width
                                                         ELSE 0]
    /\ shard' = [shard EXCEPT ![s] = [i \in Shards |-> IdleShard]]
    /\ UNCHANGED <<shares, up, data, kept>>

ShardStep(s, i) ==
    \/ Build(s, i) \/ BuildDown(s, i) \/ Clean(s, i) \/ Up(s, i)
    \/ Suite(s, i) \/ Teardown(s, i)

Next ==
    \/ \E i \in Shards : ReapTest(i)
    \/ \E s \in Gates, i \in Shards : ReapGate(s, i)
    \/ \E s \in Scopes :
          \/ \E n \in Shards : Launch(s, n)
          \/ StartShards(s) \/ Report(s) \/ Kill(s)
          \/ \E i \in Shards : ShardStep(s, i)

Spec == Init /\ [][Next]_vars

----------------------------------------------------------------------------
(* Properties                                                              *)

Testing(s, i) == shard[s][i].pc = "suite"

\* While the suite runs in a stack, nobody takes the stack or its database
\* away or replaces it: no other shard, no other command's run and no
\* preflight that reaps what another run has left.
StackUndisturbed ==
    [][\A s \in Scopes, i \in Shards :
          (Testing(s, i) /\ shard'[s][i].pc = "suite") =>
              /\ Slot(s, i) \in up /\ Slot(s, i) \in up'
              /\ data'[Slot(s, i)] = data[Slot(s, i)]]_vars

\* The same, whatever failed, was kept up or was killed before, but for an
\* unsharded `docex test` on a stack that is kept up; unless a `compose down`
\* failed or a preflight was killed.
CleanSlate ==
    (count["down"] = 0 /\ count["kill"] <= 1) =>
        \A s \in Scopes, i \in Shards : Testing(s, i) =>
            \/ data[Slot(s, i)] = run[s].id
            \/ s = "test" /\ ~Sharded(s) /\ Slot(s, i) \in kept

\* A green verdict means that every share of the suite was run, under the
\* numbering that test.sh expects, and passed.
GreenCoversSuite ==
    \A s \in Scopes : run[s].verdict = "green" =>
        shares[s] = {<<i, run[s].width>> : i \in Width(s)}

\* `docex test` leaves up only what it keeps for debugging, and what its next
\* launch will reap, unless a preflight was killed or a `compose down` failed.
TestLeavesNothingElse ==
    (run["test"].pc = "idle" /\ count["down"] = 0 /\ count["kill"] <= 1) =>
        \A i \in Shards : Slot("test", i) \in up =>
            Slot("test", i) \in kept \/ i <= leak["test"]
=============================================================================
