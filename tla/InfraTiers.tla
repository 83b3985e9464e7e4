----------------------------- MODULE InfraTiers -----------------------------
(***************************************************************************)
(* The tiers a project stands on: prerequisite infrastructure, which docex *)
(* only checks (docex/pipeline/preinfra); the project tier, which          *)
(* `projinfra up|down` makes and removes (docex/pipeline/bootstrap,        *)
(* docex/pipeline/projinfra); and its envs, which `release` or `envinfra`  *)
(* bring up and `envinfra down` removes (docex/orchestrate/down).          *)
(*                                                                         *)
(* On the elastic foundation the project tier is a state backend (a bucket *)
(* and a lock table, by the AWS API) and what OpenTofu records in it, zone *)
(* first; on the fixed one it is one compose stack.  One step is one call  *)
(* of AWS or docker; tofu plans, then creates or destroys one resource per *)
(* step.  Commands take no lock; tofu takes one, in the table.             *)
(***************************************************************************)
EXTENDS Naturals, FiniteSets

CONSTANTS
    Operators,    \* who runs commands
    NoOne,
    Envs,         \* the envs on top of the project tier
    Codebases,    \* one image repository each
    MaxCommands,  \* bound: commands started, but projinfra up
    MaxFaults     \* bound: interrupted commands, failed reads and missing outputs

ASSUME TiersAssumption == NoOne \notin Operators /\ {MaxCommands, MaxFaults} \subseteq Nat

VARIABLES
    foundation,  \* "elastic" or "fixed"
    preinfra,    \* the prerequisites of the production side that exist
    delegated,   \* does the parent zone delegate to the project's
    bucket,      \* does the state bucket exist
    table,       \* does the lock table exist
    lock,        \* who holds tofu's lock on the project's state
    tier,        \* the project-tier resources
    env,         \* env -> its resources
    protected,   \* env -> is deletion protection on for its database
    images,      \* codebases whose repository holds images
    lost,        \* what stands, of the tier and envs, though its record went with a bucket
    cmd,         \* operator -> the command it runs
    overlap,     \* history: two commands have run at once
    misread,     \* history: a gate read an env that had resources but no service
    skipped,     \* history: a down that found no output skipped tofu destroy
    whole,       \* history: envs complete and protected since no one tore them down
    count        \* commands and faults so far

world == <<preinfra, delegated, bucket, table, lock, tier, env, protected, images, lost>>
history == <<overlap, misread, skipped, whole>>
vars == <<foundation, world, cmd, history, count>>

\* The zone; clusters, roles and repositories; what terminates TLS.
FullTier == IF foundation = "elastic" THEN {"zone", "base", "front"} ELSE {"front"}

\* Networks, database, services, in the order they are created.
FullEnv == IF foundation = "elastic" THEN {"net", "db", "svc"} ELSE {"svc"}

\* The ingress network, the master network or the hosts' registry credentials.
Prerequisites == {"ingress"} \cup IF foundation = "elastic" THEN {"vpc", "subnets"} ELSE {"credentials"}

Idle == [kind |-> "none", pc |-> "idle", env |-> CHOOSE e \in Envs : TRUE, left |-> {}]

Init ==
    /\ foundation \in {"elastic", "fixed"}
    /\ preinfra = {} /\ delegated = FALSE
    /\ bucket = FALSE /\ table = FALSE /\ lock = NoOne
    /\ tier = {}
    /\ env = [e \in Envs |-> {}]
    /\ protected = [e \in Envs |-> FALSE]
    /\ images = {} /\ lost = {}
    /\ cmd = [o \in Operators |-> Idle]
    /\ overlap = FALSE /\ misread = FALSE /\ skipped = FALSE /\ whole = {}
    /\ count = [commands |-> 0, faults |-> 0]

At(o, kind, pc) == cmd[o].kind = kind /\ cmd[o].pc = pc
Goto(o, pc) == cmd' = [cmd EXCEPT ![o].pc = pc]
Ends(o) == cmd' = [cmd EXCEPT ![o] = Idle]
Elastic == foundation = "elastic"
Fault == count.faults < MaxFaults /\ count' = [count EXCEPT !.faults = @ + 1]

Begins(o, kind, pc, e, left) ==
    /\ cmd[o] = Idle
    /\ cmd' = [cmd EXCEPT ![o] = [kind |-> kind, pc |-> pc, env |-> e, left |-> left]]
    /\ overlap' = (overlap \/ \E p \in Operators : cmd[p] # Idle)
    /\ UNCHANGED <<foundation, world, misread, skipped, whole>>

\* A down reads each env, then each repository, before it destroys anything.
Begin(o) ==
    \/ Begins(o, "up", "preinfra", Idle.env, {}) /\ UNCHANGED count
    \/ /\ count.commands < MaxCommands
       /\ count' = [count EXCEPT !.commands = @ + 1]
       /\ \/ Begins(o, "down", "envs", Idle.env, Envs)
          \/ \E e \in Envs : Begins(o, "release", "apply", e, {}) \/ Begins(o, "envdown", "protection", e, {})
          \/ Elastic /\ Begins(o, "containerize", "push", Idle.env, Codebases)

-----------------------------------------------------------------------------
(* projinfra up.                                                            *)

\* Without the VPC its subnets are not looked for.
MasterNetworkFailures == IF "vpc" \notin preinfra THEN {"vpc"} ELSE {"subnets"} \ preinfra

\* On each deploy host, for deploy and for root; a host out of reach fails too.
CredentialFailures == {"credentials"} \ preinfra

PreinfraFailures ==
    ({"ingress"} \ preinfra) \cup IF Elastic THEN MasterNetworkFailures ELSE CredentialFailures

CheckPreinfra(o) ==
    /\ At(o, "up", "preinfra")
    /\ IF PreinfraFailures = {} THEN Goto(o, IF Elastic THEN "bucket" ELSE "apply") ELSE Ends(o)
    /\ UNCHANGED <<foundation, world, history, count>>

EnsureBucketAnew(o) ==   \* mutant: the bucket is created without looking for it
    /\ At(o, "up", "bucket")
    /\ bucket' = TRUE
    /\ IF bucket THEN Ends(o) ELSE Goto(o, "table")
    /\ UNCHANGED <<foundation, preinfra, delegated, table, lock, tier, env, protected,
                   images, lost, history, count>>

EnsureBucket(o) ==
    /\ At(o, "up", "bucket")
    /\ bucket' = TRUE
    /\ Goto(o, "table")
    /\ UNCHANGED <<foundation, preinfra, delegated, table, lock, tier, env, protected,
                   images, lost, history, count>>

EnsureTable(o) ==
    /\ At(o, "up", "table")
    /\ table' = TRUE
    /\ Goto(o, "list")
    /\ UNCHANGED <<foundation, preinfra, delegated, bucket, lock, tier, env, protected,
                   images, lost, history, count>>

\* What the state in the bucket has of the tier; on the fixed foundation, all.
Recorded == tier \ lost

\* tofu init, then state list, which reads a failure as an empty state.  (Without
\* compiled output an up is refused, on either foundation: as if interrupted.)
ListState(o) ==
    /\ At(o, "up", "list")
    /\ IF ~bucket
       THEN Ends(o) /\ UNCHANGED count
       ELSE \/ Goto(o, IF "zone" \in Recorded THEN "apply" ELSE "zone") /\ UNCHANGED count
            \/ Goto(o, "zone") /\ Fault
    /\ UNCHANGED <<foundation, world, history>>

Locks(o) == bucket /\ table /\ lock \in {NoOne, o}

\* Phase 1: the zone alone.  Its records are printed; the operator delegates.
\* A zone that tofu does not know of is made anew, with nameservers of its own.
ApplyZone(o) ==
    /\ At(o, "up", "zone")
    /\ IF Locks(o)
       THEN /\ tier' = tier \cup {"zone"} /\ lost' = lost \ {"zone"}
            /\ delegated' = (delegated /\ "zone" \in Recorded)
       ELSE UNCHANGED <<tier, lost, delegated>>
    /\ Ends(o)
    /\ UNCHANGED <<foundation, preinfra, bucket, table, lock, env, protected, images,
                   history, count>>

\* tofu locks the state and plans; compose only compares.
Plan(o, kind, now, resources) ==
    /\ At(o, kind, now)
    /\ IF Elastic /\ ~Locks(o)
       THEN Ends(o) /\ UNCHANGED lock
       ELSE /\ cmd' = [cmd EXCEPT ![o].pc = "planned", ![o].left = resources]
            /\ lock' = IF Elastic THEN o ELSE NoOne
    /\ UNCHANGED <<foundation, preinfra, delegated, bucket, table, tier, env, protected,
                   images, lost, history, count>>

Unlocks(o) == lock' = IF lock = o THEN NoOne ELSE lock

\* Phase 2: all of it.  The certificates validate only in a delegated zone, and
\* what stands without a record has its name taken.
PlanTier(o) == Plan(o, "up", "apply", FullTier \ Recorded)

Blocked(r) == r \in lost \/ (r = "front" /\ Elastic /\ ~delegated)

ApplyTier(o) ==
    /\ At(o, "up", "planned")
    /\ \/ \E r \in cmd[o].left :
            /\ ~Blocked(r)
            /\ tier' = tier \cup {r}
            /\ cmd' = [cmd EXCEPT ![o].left = @ \ {r}]
            /\ UNCHANGED lock
       \/ /\ \A r \in cmd[o].left : Blocked(r)
          /\ Ends(o) /\ Unlocks(o) /\ UNCHANGED tier
    /\ UNCHANGED <<foundation, preinfra, delegated, bucket, table, env, protected, images,
                   lost, history, count>>

-----------------------------------------------------------------------------
(* projinfra down.                                                          *)

SeesUpNever(e) == FALSE   \* mutant: the answer of list-services is not read

\* An env is up if its cluster holds services, or its compose project exists.
SeesUp(e) == "svc" \in env[e]

GateEnv(o, e) ==
    /\ At(o, "down", "envs") /\ e \in cmd[o].left
    /\ IF SeesUp(e)
       THEN Ends(o)
       ELSE cmd' = [cmd EXCEPT ![o].left = @ \ {e},
                               ![o].pc = IF cmd[o].left = {e} THEN IF Elastic THEN "images" ELSE "destroy"
                                         ELSE "envs"]
    /\ misread' = (misread \/ ("svc" \notin env[e] /\ env[e] # {}))
    /\ UNCHANGED <<foundation, world, overlap, skipped, whole, count>>

\* Any repository that holds images refuses; a missing one does not.  Then
\* tofu init, which needs the bucket.
GateImages(o) ==
    /\ At(o, "down", "images")
    /\ IF images = {} /\ bucket THEN Goto(o, "destroy") ELSE Ends(o)
    /\ UNCHANGED <<foundation, world, history, count>>

\* What AWS or docker refuses to delete: a repository with images, and the
\* front that an env's networks refer to.
InUse(r) ==
    \/ r = "base" /\ images # {}
    \/ r = "front" /\ Elastic /\ \E e \in Envs : "net" \in env[e]

PlanDestroy(o) == Plan(o, "down", "destroy", Recorded)

\* Nothing compiles before a down.  On a checkout without the tier's output the
\* fixed one has nothing to tear down and succeeds; the elastic one warns, runs
\* neither tofu init nor destroy, and proceeds to the cleanup.
SkipDestroy(o) ==
    /\ IF Elastic THEN At(o, "down", "images") /\ images = {} ELSE At(o, "down", "destroy")
    /\ IF Elastic THEN Goto(o, "ssm") ELSE Ends(o)
    /\ skipped' = (skipped \/ Elastic)
    /\ Fault
    /\ UNCHANGED <<foundation, world, overlap, misread, whole>>

DestroyTier(o) ==
    /\ At(o, "down", "planned")
    /\ \/ \E r \in cmd[o].left :
            /\ ~InUse(r)
            /\ r = "zone" => "front" \notin cmd[o].left
            /\ tier' = tier \ {r}
            /\ cmd' = [cmd EXCEPT ![o].left = @ \ {r}]
            /\ UNCHANGED lock
       \/ /\ \E r \in cmd[o].left : InUse(r)
          /\ Ends(o) /\ Unlocks(o) /\ UNCHANGED tier
       \/ /\ cmd[o].left = {}
          /\ IF Elastic THEN Goto(o, "ssm") ELSE Ends(o)
          /\ Unlocks(o) /\ UNCHANGED tier
    /\ UNCHANGED <<foundation, preinfra, delegated, bucket, table, env, protected, images,
                   lost, history, count>>

Standing == tier \cup {e \in Envs : env[e] # {}}

CleanupThenDestroy(o) ==   \* mutant: the backend goes whatever destroy returned
    /\ At(o, "down", "ssm") \/ At(o, "down", "planned")
    /\ bucket' = FALSE /\ lost' = Standing
    /\ Goto(o, "droptable")
    /\ UNCHANGED <<foundation, preinfra, delegated, table, lock, tier, env, protected,
                   images, history, count>>

\* The project's parameters, then the bucket, emptied first, then the table.
DropBucket(o) ==
    /\ At(o, "down", "ssm")
    /\ bucket' = FALSE /\ lost' = Standing
    /\ Goto(o, "droptable")
    /\ UNCHANGED <<foundation, preinfra, delegated, table, lock, tier, env, protected,
                   images, history, count>>

DropTable(o) ==
    /\ At(o, "down", "droptable")
    /\ table' = FALSE
    /\ Ends(o)
    /\ UNCHANGED <<foundation, preinfra, delegated, bucket, lock, tier, env, protected,
                   images, lost, history, count>>

-----------------------------------------------------------------------------
(* Envs, and images.                                                        *)

Order == <<"net", "db", "svc">>
NextOf(e) == {r \in FullEnv \ env[e] : \A i \in 1..3 : Order[i] \in FullEnv \ env[e] =>
                                           \E j \in 1..i : Order[j] = r}
LastOf(e) == {r \in env[e] : \A i \in 1..3 : Order[i] \in env[e] =>
                                           \E j \in i..3 : Order[j] = r}

\* The env's apply reads the project tier's outputs, all of them, and on the
\* fixed foundation its compose file names the project's networks.
ApplyEnv(o) ==
    /\ At(o, "release", "apply")
    /\ LET e == cmd[o].env
       IN IF Recorded # FullTier \/ env[e] = FullEnv \/ (Elastic /\ ~bucket) \/ e \in lost
          THEN Ends(o) /\ UNCHANGED env
          ELSE /\ \E r \in NextOf(e) : env' = [env EXCEPT ![e] = @ \cup {r}]
               /\ UNCHANGED cmd
    /\ UNCHANGED <<foundation, preinfra, delegated, bucket, table, lock, tier, protected,
                   images, lost, history, count>>

GateNoProtection(o) ==   \* mutant: deletion protection is left to tofu
    /\ At(o, "envdown", "protection")
    /\ Goto(o, "destroy")
    /\ UNCHANGED <<foundation, world, history, count>>

GateProtection(o) ==
    /\ At(o, "envdown", "protection")
    /\ LET e == cmd[o].env
       IN IF Elastic /\ (~bucket \/ (protected[e] /\ "db" \in env[e])) THEN Ends(o) ELSE Goto(o, "destroy")
    /\ UNCHANGED <<foundation, world, history, count>>

DestroyEnv(o) ==
    /\ At(o, "envdown", "destroy")
    /\ LET e == cmd[o].env
       IN IF env[e] = {} \/ e \in lost \/ (LastOf(e) = {"db"} /\ protected[e])
          THEN Ends(o) /\ UNCHANGED env
          ELSE /\ \E r \in LastOf(e) : env' = [env EXCEPT ![e] = @ \ {r}]
               /\ UNCHANGED cmd
    /\ UNCHANGED <<foundation, preinfra, delegated, bucket, table, lock, tier, protected,
                   images, lost, history, count>>

\* One codebase at a time; a push without a repository fails.
PushImage(o, c) ==
    /\ At(o, "containerize", "push") /\ c \in cmd[o].left
    /\ IF "base" \in tier
       THEN /\ images' = images \cup {c}
            /\ IF cmd[o].left = {c} THEN Ends(o) ELSE cmd' = [cmd EXCEPT ![o].left = @ \ {c}]
       ELSE Ends(o) /\ UNCHANGED images
    /\ UNCHANGED <<foundation, preinfra, delegated, bucket, table, lock, tier, env,
                   protected, lost, history, count>>

-----------------------------------------------------------------------------
(* The operators' own doing, and faults.                                    *)

\* The operator makes what is missing.
Prepare ==
    /\ \E p \in Prerequisites \ preinfra : preinfra' = preinfra \cup {p}
    /\ UNCHANGED <<foundation, delegated, bucket, table, lock, tier, env, protected,
                   images, lost, cmd, history, count>>

Delegate ==
    /\ "zone" \in tier /\ ~delegated
    /\ delegated' = TRUE
    /\ UNCHANGED <<foundation, preinfra, bucket, table, lock, tier, env, protected, images,
                   lost, cmd, history, count>>

BeingTornDown(e) == \E o \in Operators : cmd[o].kind = "envdown" /\ cmd[o].env = e

Protect(e, on) ==
    /\ Elastic /\ "db" \in env[e] /\ protected[e] # on
    /\ protected' = [protected EXCEPT ![e] = on]
    /\ whole' = IF on /\ env[e] = FullEnv /\ ~BeingTornDown(e) THEN whole \cup {e} ELSE whole \ {e}
    /\ UNCHANGED <<foundation, preinfra, delegated, bucket, table, lock, tier, env, images,
                   lost, cmd,
                   overlap, misread, skipped, count>>

EmptyRepositories ==
    /\ images # {}
    /\ images' = {}
    /\ UNCHANGED <<foundation, preinfra, delegated, bucket, table, lock, tier, env,
                   protected, lost, cmd, history, count>>

\* An interrupted tofu stops after the resource in hand and gives up its lock.
Interrupt(o) ==
    /\ cmd[o] # Idle
    /\ Fault
    /\ Ends(o)
    /\ Unlocks(o)
    /\ UNCHANGED <<foundation, preinfra, delegated, bucket, table, tier, env, protected,
                   images, lost, history>>

UpStep(o) ==
    CheckPreinfra(o) \/ EnsureBucket(o) \/ EnsureTable(o) \/ ListState(o)
    \/ ApplyZone(o) \/ PlanTier(o) \/ ApplyTier(o)

Step(o) ==
    \/ UpStep(o)
    \/ \E e \in Envs : GateEnv(o, e)
    \/ GateImages(o) \/ SkipDestroy(o) \/ PlanDestroy(o) \/ DestroyTier(o) \/ DropBucket(o) \/ DropTable(o)
    \/ ApplyEnv(o) \/ GateProtection(o) \/ DestroyEnv(o)
    \/ \E c \in Codebases : PushImage(o, c)

Next ==
    \/ \E o \in Operators : Begin(o) \/ Step(o) \/ Interrupt(o)
    \/ Prepare \/ Delegate \/ EmptyRepositories
    \/ \E e \in Envs, on \in BOOLEAN : Protect(e, on)

\* Every command takes its next step.  Someone runs projinfra up again while
\* the tier is incomplete, prepares what preinfra asks for, and delegates the
\* zone as the output of phase 1 says.
Reruns(o) == tier # FullTier /\ Begins(o, "up", "preinfra", Idle.env, {}) /\ UNCHANGED count
Fairness ==
    /\ \A o \in Operators : WF_vars(Step(o))
    /\ SF_vars(\E o \in Operators : Reruns(o))
    /\ WF_vars(Prepare) /\ SF_vars(Delegate)

Spec == Init /\ [][Next]_vars /\ Fairness

-----------------------------------------------------------------------------
Commands ==
    [kind : {"none", "up", "down", "release", "envdown", "containerize"},
     pc : {"idle", "preinfra", "bucket", "table", "list", "zone", "apply", "planned",
           "envs", "images", "destroy", "ssm", "droptable", "protection", "push"},
     env : Envs \cup {Idle.env}, left : SUBSET (Envs \cup Codebases \cup FullTier)]

\* Types of the tiers and of the commands.
TypeOK ==
    /\ foundation \in {"elastic", "fixed"} /\ preinfra \subseteq Prerequisites
    /\ delegated \in BOOLEAN /\ bucket \in BOOLEAN /\ table \in BOOLEAN
    /\ lock \in Operators \cup {NoOne}
    /\ tier \subseteq FullTier /\ lost \subseteq FullTier \cup Envs
    /\ images \subseteq Codebases /\ whole \subseteq Envs
    /\ env \in [Envs -> SUBSET FullEnv] /\ protected \in [Envs -> BOOLEAN]
    /\ cmd \in [Operators -> Commands]
    /\ overlap \in BOOLEAN /\ misread \in BOOLEAN /\ skipped \in BOOLEAN
    /\ count \in [{"commands", "faults"} -> Nat]

\* What is in AWS can be found again: the state backend outlives everything
\* that is recorded in it, through downs that fail and are run again
\* (projinfra.py:149: the backend is removed last, when nothing tofu-managed
\* remains), as long as commands do not overlap, the gate does not misread an
\* env, and no down is run on a checkout without compiled output: that one skips
\* tofu destroy and removes the backend all the same, over the tier that stands
\* (projinfra.py:202).
StateOutlivesResources ==
    (Elastic /\ ~overlap /\ ~misread /\ ~skipped) => (bucket \/ Standing = {})

\* No env is left without the tier it stands on (projinfra.md: tearing it down
\* would orphan running services), as long as commands do not overlap and the
\* gate does not misread an env; a down that skips tofu destroy keeps it.
EnvHasItsTier ==
    (~overlap /\ ~misread) => \A e \in Envs : env[e] # {} => tier = FullTier

\* An env that was complete when its database was protected stays complete
\* while it is: a refused envinfra down has destroyed nothing (down.py:110).
ProtectedStaysWhole ==
    \A e \in whole : env[e] = FullEnv

\* The gate of projinfra down takes no env for torn down that still has
\* resources (projinfra.md:100).
GateSeesEveryEnv == ~misread

\* Run again after whatever failure, projinfra up completes the project tier,
\* unless the record of what stands went with the bucket: then what stands has
\* the names that an up needs, and is removed by hand.
TierIsCompleted == [](lost = {}) => <>[](tier = FullTier)
=============================================================================
