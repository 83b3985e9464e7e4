--------------------------- MODULE InfraTiersProofs ---------------------------
(***************************************************************************)
(* Theorems about InfraTiers, for any number of operators, envs, codebases,*)
(* commands and interruptions, on either foundation.                       *)
(***************************************************************************)
EXTENDS InfraTiers, TLAPS

Counts == [{"commands", "faults"} -> Nat]

LEMMA IdleType == Idle \in Commands /\ Idle.kind = "none" /\ Idle.left = {}
BY DEF Idle, Commands

\* What is planned for an up is of the tier; only on elastic it has two phases.
PlanIsOfTier ==
    \A o \in Operators :
        /\ At(o, "up", "planned") => cmd[o].left \subseteq FullTier
        /\ cmd[o].kind = "up" /\ cmd[o].pc \in {"bucket", "table", "list", "zone"} => Elastic

TypeInv == TypeOK /\ PlanIsOfTier

LEMMA TypeInit == Init => TypeInv
<1> SUFFICES ASSUME Init PROVE TypeInv  OBVIOUS
<1>1. cmd \in [Operators -> Commands] /\ PlanIsOfTier
    BY IdleType DEF Init, PlanIsOfTier, At
<1>2. count \in Counts  BY DEF Init, Counts
<1> QED  BY <1>1, <1>2 DEF Init, TypeInv, TypeOK, Counts

\* What the end of a command or its next phase leaves.
LEMMA PhaseType ==
    ASSUME TypeOK, NEW o \in Operators,
           NEW pc \in {"idle", "preinfra", "bucket", "table", "list", "zone", "apply", "planned",
                       "envs", "images", "destroy", "ssm", "droptable", "protection", "push"}
    PROVE  /\ Goto(o, pc) => /\ cmd' \in [Operators -> Commands]
                             /\ cmd'[o] = [cmd[o] EXCEPT !.pc = pc]
                             /\ cmd'[o].kind = cmd[o].kind /\ cmd'[o].pc = pc
                             /\ cmd'[o].env = cmd[o].env /\ cmd'[o].left = cmd[o].left
                             /\ \A p \in Operators \ {o} : cmd'[p] = cmd[p]
           /\ Ends(o) => /\ cmd' \in [Operators -> Commands] /\ cmd'[o] = Idle
                         /\ \A p \in Operators \ {o} : cmd'[p] = cmd[p]
BY SMTT(20), IdleType DEF TypeOK, Goto, Ends, Commands

LEMMA BeginsType ==
    ASSUME TypeOK, NEW o \in Operators, NEW e \in Envs \cup {Idle.env},
           NEW left \in SUBSET (Envs \cup Codebases \cup FullTier),
           NEW kind \in {"up", "down", "release", "envdown", "containerize"},
           NEW pc \in {"preinfra", "envs", "apply", "protection", "push"},
           Begins(o, kind, pc, e, left)
    PROVE  /\ cmd' \in [Operators -> Commands] /\ cmd[o] = Idle
           /\ cmd'[o].kind = kind /\ cmd'[o].pc = pc /\ cmd'[o].env = e /\ cmd'[o].left = left
           /\ \A p \in Operators \ {o} : cmd'[p] = cmd[p]
           /\ overlap' = (overlap \/ \E p \in Operators : cmd[p] # Idle)
           /\ UNCHANGED <<foundation, world, misread, skipped, whole>>
BY DEF TypeOK, Begins, Commands

\* The command ends or goes on to one of these phases.
GoesOn(o, S) == Ends(o) \/ \E pc \in S : Goto(o, pc)

LEMMA GoesOnType ==
    ASSUME TypeOK, NEW o \in Operators,
           NEW S \in SUBSET {"bucket", "table", "list", "zone", "apply", "images", "destroy",
                              "ssm", "droptable"},
           GoesOn(o, S)
    PROVE  /\ cmd' \in [Operators -> Commands]
           /\ \A p \in Operators \ {o} : cmd'[p] = cmd[p]
           /\ \/ cmd'[o] = Idle
              \/ /\ cmd'[o].pc \in S /\ cmd'[o].pc # "planned" /\ cmd'[o].kind = cmd[o].kind
                 /\ cmd'[o].env = cmd[o].env /\ cmd'[o].left = cmd[o].left
<1>1. CASE Ends(o)  BY <1>1, PhaseType
<1>2. ASSUME NEW pc \in S, Goto(o, pc)
      PROVE  /\ cmd' \in [Operators -> Commands]
             /\ \A p \in Operators \ {o} : cmd'[p] = cmd[p]
             /\ cmd'[o].pc = pc /\ cmd'[o].kind = cmd[o].kind
             /\ cmd'[o].env = cmd[o].env /\ cmd'[o].left = cmd[o].left
    <2>1. pc \in {"bucket", "table", "list", "zone", "apply", "images", "destroy", "ssm", "droptable"}
        OBVIOUS
    <2>2. pc \in {"idle", "preinfra", "bucket", "table", "list", "zone", "apply", "planned",
                   "envs", "images", "destroy", "ssm", "droptable", "protection", "push"}
        BY <2>1
    <2> QED  BY ZenonT(40), <1>2, <2>2, PhaseType
<1> QED  BY <1>1, <1>2 DEF GoesOn

\* How a command may begin.
Starts(o, kind, pc, e, left) ==
    \/ kind = "up" /\ pc = "preinfra" /\ left = {}
    \/ kind = "down" /\ pc = "envs" /\ left = Envs
    \/ kind = "release" /\ pc = "apply" /\ left = {} /\ e \in Envs
    \/ kind = "envdown" /\ pc = "protection" /\ left = {} /\ e \in Envs
    \/ kind = "containerize" /\ pc = "push" /\ left = Codebases

LEMMA BeginIs ==
    ASSUME TypeOK, NEW o \in Operators, Begin(o)
    PROVE  /\ count' \in Counts
           /\ \E e \in Envs \cup {Idle.env}, left \in SUBSET (Envs \cup Codebases \cup FullTier),
                 kind \in {"up", "down", "release", "envdown", "containerize"},
                 pc \in {"preinfra", "envs", "apply", "protection", "push"} :
                    Starts(o, kind, pc, e, left) /\ Begins(o, kind, pc, e, left)
<1>1. count \in Counts  BY DEF TypeOK, Counts
<1>2. [count EXCEPT !.commands = @ + 1] \in Counts  BY <1>1 DEF Counts
<1> QED  BY <1>1, <1>2 DEF Begin, Starts

LEMMA FoundationStays == [Next]_vars => UNCHANGED foundation
BY ZenonT(40) DEF Next, Begin, Begins, Step, UpStep, CheckPreinfra, EnsureBucket, EnsureTable, ListState,
       ApplyZone, PlanTier, Plan, ApplyTier, GateEnv, GateImages, SkipDestroy, PlanDestroy, DestroyTier,
       DropBucket, DropTable, ApplyEnv, GateProtection, DestroyEnv, PushImage, Interrupt,
       Prepare, Delegate, EmptyRepositories, Protect, vars

LEMMA SameFoundation ==
    ASSUME UNCHANGED foundation
    PROVE  /\ FullTier' = FullTier /\ FullEnv' = FullEnv /\ Prerequisites' = Prerequisites
           /\ Commands' = Commands /\ (Elastic <=> Elastic')
BY DEF FullTier, FullEnv, Prerequisites, Commands, Elastic

LEMMA PlanStays ==
    ASSUME TypeInv, UNCHANGED foundation, NEW o \in Operators,
           \A p \in Operators \ {o} : cmd'[p] = cmd[p],
           cmd'[o].kind = "up" /\ cmd'[o].pc = "planned" => cmd'[o].left \subseteq FullTier,
           cmd'[o].kind = "up" /\ cmd'[o].pc \in {"bucket", "table", "list", "zone"} => Elastic
    PROVE  PlanIsOfTier'
BY SameFoundation DEF TypeInv, PlanIsOfTier, At

\* Only the commands, the lock, faults and history change.
Reads == /\ UNCHANGED <<foundation, preinfra, delegated, bucket, table, tier, env, protected, images,
                        lost, whole>>
         /\ overlap' \in BOOLEAN /\ misread' \in BOOLEAN /\ skipped' \in BOOLEAN
         /\ lock' \in Operators \cup {NoOne} /\ count' \in Counts

LEMMA ReadsType ==
    ASSUME TypeInv, Reads, cmd' \in [Operators -> Commands]
    PROVE  TypeOK'
BY SameFoundation DEF TypeInv, TypeOK, Reads, Counts

LEMMA TypeStep ==
    ASSUME TypeInv, [Next]_vars
    PROVE  TypeInv'
<1>1. /\ TypeOK /\ UNCHANGED foundation /\ count \in Counts /\ cmd \in [Operators -> Commands]
      /\ FullTier' = FullTier /\ FullEnv' = FullEnv /\ Prerequisites' = Prerequisites
      /\ Commands' = Commands
    BY FoundationStays, SameFoundation DEF TypeInv, TypeOK, Counts
<1>2. [count EXCEPT !.faults = @ + 1] \in Counts
    BY <1>1 DEF Counts
<1>3. ASSUME NEW o \in Operators, Begin(o) PROVE TypeInv'
    <2>1. PICK e \in Envs \cup {Idle.env}, left \in SUBSET (Envs \cup Codebases \cup FullTier),
               kind \in {"up", "down", "release", "envdown", "containerize"},
               pc \in {"preinfra", "envs", "apply", "protection", "push"} :
                  Begins(o, kind, pc, e, left)
        BY <1>1, <1>3, BeginIs
    <2>2. /\ cmd' \in [Operators -> Commands] /\ cmd'[o].pc = pc
          /\ \A p \in Operators \ {o} : cmd'[p] = cmd[p]
          /\ UNCHANGED <<foundation, world, misread, skipped, whole>>
        BY <1>1, <2>1, BeginsType
    <2>3. overlap' \in BOOLEAN  BY <1>1, <2>1 DEF Begins, TypeOK
    <2>4. count' \in Counts  BY <1>1, <1>3, BeginIs
    <2>5. TypeOK'
        BY <1>1, <2>2, <2>3, <2>4, ReadsType DEF Reads, TypeOK, world
    <2> QED  BY <1>1, <2>2, <2>5, PlanStays DEF TypeInv
<1>4. ASSUME NEW o \in Operators,
             CheckPreinfra(o) \/ ListState(o) \/ GateImages(o) \/ SkipDestroy(o) \/ GateProtection(o)
      PROVE  TypeInv'
    <2>1. /\ GoesOn(o, {"bucket", "apply", "zone", "destroy", "ssm"})
          /\ UNCHANGED <<foundation, world, overlap, misread, whole>>
          /\ UNCHANGED skipped \/ skipped' = (skipped \/ Elastic)
        BY <1>4 DEF CheckPreinfra, ListState, GateImages, SkipDestroy, GateProtection, history, GoesOn
    <2>2. count' \in Counts
        BY <1>1, <1>2, <1>4 DEF CheckPreinfra, ListState, GateImages, SkipDestroy, GateProtection, Fault
    <2>3. /\ cmd' \in [Operators -> Commands] /\ cmd'[o].pc # "planned"
          /\ \A p \in Operators \ {o} : cmd'[p] = cmd[p]
          /\ cmd'[o] = Idle \/ cmd'[o].kind = cmd[o].kind
        BY <1>1, <2>1, GoesOnType DEF Idle
    <2>4. TypeOK'
        BY <1>1, <2>1, <2>2, <2>3, ReadsType DEF Reads, TypeOK, world, Elastic
    <2>5. cmd'[o].kind = "up" /\ cmd'[o].pc \in {"bucket", "table", "list", "zone"} => Elastic
        <3>1. CASE CheckPreinfra(o)
            <4>1. CASE ~Elastic
                <5>1. GoesOn(o, {"apply"})  BY <3>1, <4>1 DEF CheckPreinfra, GoesOn
                <5>2. cmd'[o] = Idle \/ cmd'[o].pc = "apply"  BY <1>1, <5>1, GoesOnType
                <5> QED  BY <5>2 DEF Idle
            <4> QED  BY <4>1
        <3>2. CASE ListState(o)
            BY <3>2 DEF ListState, At, TypeInv, PlanIsOfTier
        <3>3. CASE GateImages(o) \/ SkipDestroy(o) \/ GateProtection(o)
            <4>1. cmd[o].kind # "up"  BY <3>3 DEF GateImages, SkipDestroy, GateProtection, At
            <4> QED  BY <2>3, <4>1, IdleType
        <3> QED  BY <1>4, <3>1, <3>2, <3>3
    <2> QED  BY <1>1, <2>3, <2>4, <2>5, PlanStays DEF TypeInv
<1>5. ASSUME NEW o \in Operators,
             EnsureBucket(o) \/ EnsureTable(o) \/ ApplyZone(o) \/ DropBucket(o) \/ DropTable(o)
      PROVE  TypeInv'
    <2>1. GoesOn(o, {"table", "list", "droptable"})
        BY <1>5 DEF EnsureBucket, EnsureTable, ApplyZone, DropBucket, DropTable, GoesOn
    <2>2. /\ cmd' \in [Operators -> Commands] /\ cmd'[o].pc # "planned"
          /\ \A p \in Operators \ {o} : cmd'[p] = cmd[p]
          /\ cmd'[o] = Idle \/ cmd'[o].kind = cmd[o].kind
        BY <1>1, <2>1, GoesOnType DEF Idle
    <2>3. /\ UNCHANGED <<foundation, preinfra, lock, env, protected, images, history, count>>
          /\ bucket' \in BOOLEAN /\ table' \in BOOLEAN /\ delegated' \in BOOLEAN
        BY <1>1, <1>5 DEF EnsureBucket, EnsureTable, ApplyZone, DropBucket, DropTable, TypeOK
    <2>4. cmd[o].kind = "up" => Elastic
        BY <1>5 DEF EnsureBucket, EnsureTable, ApplyZone, DropBucket, DropTable, At,
                    TypeInv, PlanIsOfTier
    <2>5. tier' \subseteq FullTier
        BY <1>1, <1>5, <2>4
        DEF EnsureBucket, EnsureTable, ApplyZone, DropBucket, DropTable, At, TypeOK, FullTier, Elastic
    <2>6. lost' \subseteq FullTier \cup Envs
        BY <1>1, <1>5
        DEF EnsureBucket, EnsureTable, ApplyZone, DropBucket, DropTable, TypeOK, Standing
    <2>7. TypeOK'
        BY <1>1, <2>2, <2>3, <2>5, <2>6 DEF TypeOK, history
    <2> QED  BY <1>1, <2>2, <2>4, <2>7, IdleType, PlanStays DEF TypeInv
<1>6. ASSUME NEW o \in Operators, PlanTier(o) \/ PlanDestroy(o) PROVE TypeInv'
    <2>1. PICK resources \in SUBSET FullTier :
              \/ Ends(o) /\ UNCHANGED lock
              \/ /\ cmd' = [cmd EXCEPT ![o].pc = "planned", ![o].left = resources]
                 /\ lock' \in {o, NoOne}
        BY <1>1, <1>6 DEF PlanTier, PlanDestroy, Plan, Recorded, TypeOK
    <2>2. UNCHANGED <<foundation, preinfra, delegated, bucket, table, tier, env, protected, images,
                      lost, history, count>>
        BY <1>6 DEF PlanTier, PlanDestroy, Plan
    <2>3. /\ [cmd[o] EXCEPT !.pc = "planned", !.left = resources] \in Commands
          /\ [cmd[o] EXCEPT !.pc = "planned", !.left = resources].left = resources
          /\ [cmd[o] EXCEPT !.pc = "planned", !.left = resources].pc = "planned"
        BY <1>1 DEF Commands
    <2>4. /\ cmd' \in [Operators -> Commands] /\ \A p \in Operators \ {o} : cmd'[p] = cmd[p]
          /\ cmd'[o] = Idle \/ (cmd'[o].pc = "planned" /\ cmd'[o].left = resources)
        <3>1. CASE Ends(o)  BY <1>1, <3>1, PhaseType
        <3>2. CASE cmd' = [cmd EXCEPT ![o] = [cmd[o] EXCEPT !.pc = "planned", !.left = resources]]
            BY <1>1, <2>3, <3>2
        <3> QED  BY <1>1, <2>1, <3>1, <3>2
    <2>5. TypeOK'
        BY <1>1, <2>1, <2>2, <2>4 DEF TypeOK, history
    <2> QED  BY <1>1, <2>4, <2>5, PlanStays DEF TypeInv, Idle
<1>7. ASSUME NEW o \in Operators, ApplyTier(o) \/ DestroyTier(o) PROVE TypeInv'
    <2>1. \/ \E r \in cmd[o].left : cmd' = [cmd EXCEPT ![o].left = @ \ {r}]
          \/ GoesOn(o, {"ssm"})
        BY <1>7 DEF ApplyTier, DestroyTier, GoesOn
    <2>2. /\ cmd' \in [Operators -> Commands] /\ \A p \in Operators \ {o} : cmd'[p] = cmd[p]
          /\ \/ cmd'[o] = Idle \/ cmd'[o].pc = "ssm"
             \/ /\ cmd'[o].kind = cmd[o].kind /\ cmd'[o].pc = cmd[o].pc
                /\ cmd'[o].left \subseteq cmd[o].left
        <3>1. ASSUME NEW r \in cmd[o].left, cmd' = [cmd EXCEPT ![o].left = @ \ {r}]
              PROVE  /\ cmd' \in [Operators -> Commands] /\ \A p \in Operators \ {o} : cmd'[p] = cmd[p]
                     /\ cmd'[o].kind = cmd[o].kind /\ cmd'[o].pc = cmd[o].pc
                     /\ cmd'[o].left \subseteq cmd[o].left
            <4>1. cmd[o].left \ {r} \in SUBSET (Envs \cup Codebases \cup FullTier)
                BY <1>1 DEF Commands
            <4>2. [cmd[o] EXCEPT !.left = @ \ {r}] \in Commands
                BY <1>1, <4>1 DEF Commands
            <4>3. cmd' = [cmd EXCEPT ![o] = [cmd[o] EXCEPT !.left = @ \ {r}]]
                BY <1>1, <3>1
            <4> QED  BY <1>1, <4>2, <4>3 DEF Commands
        <3>2. CASE GoesOn(o, {"ssm"})  BY <1>1, <3>2, GoesOnType
        <3> QED  BY <2>1, <3>1, <3>2
    <2>3. lock' \in Operators \cup {NoOne} /\
          UNCHANGED <<foundation, preinfra, delegated, bucket, table, env, protected, images,
                      lost, history, count>>
        BY <1>1, <1>7 DEF ApplyTier, DestroyTier, Unlocks, TypeOK
    <2>4. tier' \subseteq FullTier
        BY <1>1, <1>7 DEF ApplyTier, DestroyTier, TypeOK, TypeInv, PlanIsOfTier
    <2>5. TypeOK'
        BY <1>1, <2>2, <2>3, <2>4 DEF TypeOK, history
    <2>6. cmd'[o].kind = "up" /\ cmd'[o].pc = "planned" => cmd'[o].left \subseteq FullTier
        BY <2>2 DEF TypeInv, PlanIsOfTier, At, Idle
    <2>7. cmd'[o].pc \notin {"bucket", "table", "list", "zone"}
        BY <1>7, <2>2 DEF ApplyTier, DestroyTier, At, Idle
    <2> QED  BY <1>1, <2>2, <2>5, <2>6, <2>7, PlanStays DEF TypeInv
<1>8. ASSUME NEW o \in Operators, NEW e \in Envs, GateEnv(o, e) PROVE TypeInv'
    <2>1. /\ cmd' \in [Operators -> Commands] /\ \A p \in Operators \ {o} : cmd'[p] = cmd[p]
          /\ cmd'[o].kind # "up"
        <3>1. CASE Ends(o)  BY <1>1, <3>1, PhaseType, IdleType
        <3>2. ASSUME NEW pc \in {"images", "destroy", "envs"},
                     cmd' = [cmd EXCEPT ![o].left = @ \ {e}, ![o].pc = pc]
              PROVE  /\ cmd' \in [Operators -> Commands] /\ \A p \in Operators \ {o} : cmd'[p] = cmd[p]
                     /\ cmd'[o].kind = cmd[o].kind
            <4>1. cmd[o].left \ {e} \in SUBSET (Envs \cup Codebases \cup FullTier)
                BY <1>1 DEF Commands
            <4>2. [cmd[o] EXCEPT !.left = @ \ {e}, !.pc = pc] \in Commands
                BY ZenonT(40), <1>1, <4>1 DEF Commands
            <4>3. cmd' = [cmd EXCEPT ![o] = [cmd[o] EXCEPT !.left = @ \ {e}, !.pc = pc]]
                BY <1>1, <3>2
            <4> QED  BY <1>1, <4>2, <4>3 DEF Commands
        <3>3. Ends(o) \/ \E pc \in {"images", "destroy", "envs"} :
                             cmd' = [cmd EXCEPT ![o].left = @ \ {e}, ![o].pc = pc]
            BY <1>8 DEF GateEnv
        <3>4. cmd[o].kind # "up"  BY <1>8 DEF GateEnv, At
        <3> QED  BY <3>1, <3>2, <3>3, <3>4
    <2>2. TypeOK'
        BY <1>1, <1>8, <2>1, ReadsType DEF GateEnv, Reads, TypeOK, world
    <2> QED  BY <1>1, <2>1, <2>2, PlanStays DEF TypeInv
<1>9. ASSUME NEW o \in Operators, ApplyEnv(o) \/ DestroyEnv(o) PROVE TypeInv'
    <2>1. Ends(o) \/ UNCHANGED cmd
        BY <1>9 DEF ApplyEnv, DestroyEnv
    <2>2. /\ cmd' \in [Operators -> Commands] /\ \A p \in Operators \ {o} : cmd'[p] = cmd[p]
          /\ cmd'[o] = Idle \/ cmd'[o] = cmd[o]
        BY <1>1, <2>1, PhaseType
    <2>3. env' \in [Envs -> SUBSET FullEnv]
        BY <1>1, <1>9 DEF ApplyEnv, DestroyEnv, NextOf, LastOf, TypeOK
    <2>4. UNCHANGED <<foundation, preinfra, delegated, bucket, table, lock, tier, protected, images,
                      lost, history, count>>
        BY <1>9 DEF ApplyEnv, DestroyEnv
    <2>5. TypeOK'
        BY <1>1, <2>2, <2>3, <2>4 DEF TypeOK, history
    <2>6. cmd[o].kind # "up"
        BY <1>9 DEF ApplyEnv, DestroyEnv, At
    <2> QED  BY <1>1, <2>2, <2>5, <2>6, IdleType, PlanStays DEF TypeInv
<1>10. ASSUME NEW o \in Operators, NEW c \in Codebases, PushImage(o, c) PROVE TypeInv'
    <2>1. /\ cmd' \in [Operators -> Commands] /\ \A p \in Operators \ {o} : cmd'[p] = cmd[p]
          /\ cmd'[o].kind # "up"
        <3>1. cmd[o].left \ {c} \in SUBSET (Envs \cup Codebases \cup FullTier)
            BY <1>1 DEF Commands
        <3>2. [cmd[o] EXCEPT !.left = @ \ {c}] \in Commands
            BY <1>1, <3>1 DEF Commands
        <3>3. cmd[o].kind = "containerize"  BY <1>10 DEF PushImage, At
        <3>4. \/ cmd' = [cmd EXCEPT ![o] = Idle]
              \/ cmd' = [cmd EXCEPT ![o] = [cmd[o] EXCEPT !.left = @ \ {c}]]
            BY <1>1, <1>10 DEF PushImage, Ends
        <3>5. [cmd[o] EXCEPT !.left = @ \ {c}].kind = cmd[o].kind
            BY <1>1 DEF Commands
        <3> QED  BY <1>1, <3>2, <3>3, <3>4, <3>5, IdleType
    <2>2. images' \subseteq Codebases
        BY <1>1, <1>10 DEF PushImage, TypeOK
    <2>3. UNCHANGED <<foundation, preinfra, delegated, bucket, table, lock, tier, env, protected,
                      lost, history, count>>
        BY <1>10 DEF PushImage
    <2>4. TypeOK'
        BY <1>1, <2>1, <2>2, <2>3 DEF TypeOK, history
    <2> QED  BY <1>1, <2>1, <2>4, PlanStays DEF TypeInv
<1>11. ASSUME NEW o \in Operators, Interrupt(o) PROVE TypeInv'
    <2>1. cmd' \in [Operators -> Commands] /\ cmd'[o] = Idle
          /\ \A p \in Operators \ {o} : cmd'[p] = cmd[p]
        BY <1>1, <1>11, PhaseType DEF Interrupt
    <2>2. TypeOK'
        BY <1>1, <1>2, <1>11, <2>1, ReadsType
        DEF Interrupt, Reads, TypeOK, Fault, Unlocks, history
    <2> QED  BY <1>1, <2>1, <2>2, PlanStays DEF TypeInv, Idle
<1>12. CASE Prepare \/ Delegate \/ EmptyRepositories \/ \E e \in Envs, on \in BOOLEAN : Protect(e, on)
    <2>1. UNCHANGED <<foundation, bucket, table, lock, tier, env, lost, cmd, overlap, misread, skipped, count>>
        BY <1>12 DEF Prepare, Delegate, EmptyRepositories, Protect, history
    <2>2. preinfra' \subseteq Prerequisites /\ delegated' \in BOOLEAN /\ images' \subseteq Codebases
        BY <1>1, <1>12 DEF Prepare, Delegate, EmptyRepositories, Protect, TypeOK
    <2>3. protected' \in [Envs -> BOOLEAN] /\ whole' \subseteq Envs
        BY <1>1, <1>12 DEF Prepare, Delegate, EmptyRepositories, Protect, TypeOK, history
    <2>4. TypeOK'
        BY <1>1, <2>1, <2>2, <2>3 DEF TypeOK
    <2>5. PlanIsOfTier'
        BY <1>1, <2>1 DEF TypeInv, PlanIsOfTier, At, Elastic
    <2> QED  BY <2>4, <2>5 DEF TypeInv
<1>13. CASE UNCHANGED vars
    BY <1>1, <1>13 DEF vars, world, history, TypeInv, TypeOK, PlanIsOfTier, At, Elastic
<1> QED
    BY <1>3, <1>4, <1>5, <1>6, <1>7, <1>8, <1>9, <1>10, <1>11, <1>12, <1>13
    DEF Next, Step, UpStep

\* Tiers and commands stay in their ranges on either foundation.
THEOREM TypeCorrect == Spec => []TypeOK
<1>1. TypeInv => TypeOK  BY DEF TypeInv
<1> QED  BY <1>1, TypeInit, TypeStep, PTL DEF Spec

\* A step of a command is its own: it goes on or ends.
LEMMA StepKeeps ==
    ASSUME TypeOK, NEW o \in Operators, Step(o)
    PROVE  /\ \A p \in Operators \ {o} : cmd'[p] = cmd[p]
           /\ cmd'[o] = Idle \/ (cmd'[o].kind = cmd[o].kind /\ cmd'[o].env = cmd[o].env)
<1>1. cmd \in [Operators -> Commands]  BY DEF TypeOK
<1>2. ASSUME NEW S \in SUBSET {"bucket", "table", "list", "zone", "apply", "images", "destroy",
                               "ssm", "droptable"}, GoesOn(o, S)
      PROVE  /\ \A p \in Operators \ {o} : cmd'[p] = cmd[p]
             /\ cmd'[o] = Idle \/ (cmd'[o].kind = cmd[o].kind /\ cmd'[o].env = cmd[o].env)
    BY <1>2, GoesOnType
<1>3. ASSUME NEW left, cmd' = [cmd EXCEPT ![o].left = left]
      PROVE  /\ \A p \in Operators \ {o} : cmd'[p] = cmd[p]
             /\ cmd'[o].kind = cmd[o].kind /\ cmd'[o].env = cmd[o].env
    BY <1>1, <1>3 DEF Commands
<1>4. ASSUME NEW left, NEW pc, \/ cmd' = [cmd EXCEPT ![o].left = left, ![o].pc = pc]
                               \/ cmd' = [cmd EXCEPT ![o].pc = pc, ![o].left = left]
      PROVE  /\ \A p \in Operators \ {o} : cmd'[p] = cmd[p]
             /\ cmd'[o].kind = cmd[o].kind /\ cmd'[o].env = cmd[o].env
    <2>1. \/ cmd' = [cmd EXCEPT ![o] = [cmd[o] EXCEPT !.left = left, !.pc = pc]]
          \/ cmd' = [cmd EXCEPT ![o] = [cmd[o] EXCEPT !.pc = pc, !.left = left]]
        BY Zenon, <1>1, <1>4
    <2> QED  BY ZenonT(30), <1>1, <2>1 DEF Commands
<1>5. CASE CheckPreinfra(o) \/ EnsureBucket(o) \/ EnsureTable(o) \/ ListState(o) \/ ApplyZone(o)
    <2>1. GoesOn(o, {"bucket", "table", "list", "zone", "apply"})
        BY <1>5 DEF CheckPreinfra, EnsureBucket, EnsureTable, ListState, ApplyZone, GoesOn
    <2> QED  BY <1>2, <2>1
<1>6. CASE GateImages(o) \/ SkipDestroy(o) \/ DropBucket(o) \/ DropTable(o) \/ GateProtection(o)
    <2>1. GoesOn(o, {"destroy", "ssm", "droptable"})
        BY <1>6 DEF GateImages, SkipDestroy, DropBucket, DropTable, GateProtection, GoesOn
    <2> QED  BY <1>2, <2>1
<1>7. CASE PlanTier(o) \/ PlanDestroy(o)
    <2>1. GoesOn(o, {}) \/ \E left : cmd' = [cmd EXCEPT ![o].pc = "planned", ![o].left = left]
        BY <1>7 DEF PlanTier, PlanDestroy, Plan, GoesOn
    <2> QED  BY <1>2, <1>4, <2>1
<1>8. CASE ApplyTier(o) \/ DestroyTier(o)
    <2>1. GoesOn(o, {"ssm"}) \/ \E left : cmd' = [cmd EXCEPT ![o].left = left]
        BY <1>1, <1>8 DEF ApplyTier, DestroyTier, GoesOn
    <2> QED  BY <1>2, <1>3, <2>1
<1>9. ASSUME NEW e \in Envs, GateEnv(o, e)
      PROVE  /\ \A p \in Operators \ {o} : cmd'[p] = cmd[p]
             /\ cmd'[o] = Idle \/ (cmd'[o].kind = cmd[o].kind /\ cmd'[o].env = cmd[o].env)
    <2>1. GoesOn(o, {}) \/ \E left, pc : cmd' = [cmd EXCEPT ![o].left = left, ![o].pc = pc]
        BY <1>1, <1>9 DEF GateEnv, GoesOn
    <2> QED  BY <1>2, <1>4, <2>1
<1>10. CASE ApplyEnv(o) \/ DestroyEnv(o)
    <2>1. GoesOn(o, {}) \/ cmd' = cmd  BY <1>10 DEF ApplyEnv, DestroyEnv, GoesOn
    <2> QED  BY <1>2, <2>1
<1>11. ASSUME NEW c \in Codebases, PushImage(o, c)
       PROVE  /\ \A p \in Operators \ {o} : cmd'[p] = cmd[p]
              /\ cmd'[o] = Idle \/ (cmd'[o].kind = cmd[o].kind /\ cmd'[o].env = cmd[o].env)
    <2>1. GoesOn(o, {}) \/ \E left : cmd' = [cmd EXCEPT ![o].left = left]
        BY <1>1, <1>11 DEF PushImage, GoesOn
    <2> QED  BY <1>2, <1>3, <2>1
<1> QED  BY <1>5, <1>6, <1>7, <1>8, <1>9, <1>10, <1>11 DEF Step, UpStep

-----------------------------------------------------------------------------
(* A protected env.                                                         *)

WholeInv ==
    \A e \in whole :
        /\ Elastic /\ protected[e] /\ env[e] = FullEnv
        /\ \A o \in Operators : cmd[o].kind = "envdown" /\ cmd[o].env = e => cmd[o].pc = "protection"

LEMMA WholeStep ==
    ASSUME TypeInv, WholeInv, [Next]_vars
    PROVE  WholeInv'
<1>1. /\ TypeOK /\ UNCHANGED foundation /\ FullEnv' = FullEnv /\ (Elastic <=> Elastic')
      /\ cmd \in [Operators -> Commands] /\ env \in [Envs -> SUBSET FullEnv]
      /\ whole \subseteq Envs
    BY FoundationStays, SameFoundation DEF TypeInv, TypeOK
\* A step that leaves the envs alone and starts no destruction.
<1>2. ASSUME UNCHANGED <<whole, protected, env>>, NEW o \in Operators,
             \A p \in Operators \ {o} : cmd'[p] = cmd[p],
             cmd'[o].kind = "envdown" =>
                \/ cmd'[o].pc = "protection"
                \/ cmd[o].kind = "envdown" /\ cmd'[o].pc = cmd[o].pc /\ cmd'[o].env = cmd[o].env
      PROVE  WholeInv'
    BY <1>1, <1>2 DEF WholeInv
<1>3. ASSUME NEW o \in Operators, Begin(o) PROVE WholeInv'
    <2>1. PICK e \in Envs \cup {Idle.env}, left \in SUBSET (Envs \cup Codebases \cup FullTier),
               kind \in {"up", "down", "release", "envdown", "containerize"},
               pc \in {"preinfra", "envs", "apply", "protection", "push"} :
                  Starts(o, kind, pc, e, left) /\ Begins(o, kind, pc, e, left)
        BY <1>1, <1>3, BeginIs
    <2>2. /\ cmd'[o].kind = kind /\ cmd'[o].pc = pc /\ \A p \in Operators \ {o} : cmd'[p] = cmd[p]
          /\ UNCHANGED <<foundation, world, misread, skipped, whole>>
        <3>1. TypeOK
            BY <1>1
        <3> QED  BY ONLY <1>3, <2>1, <3>1, BeginsType
    <2>3. kind = "envdown" => pc = "protection"
        BY <2>1 DEF Starts
    <2> QED  BY <1>2, <2>2, <2>3 DEF world
<1>4. ASSUME NEW o \in Operators, Ends(o), UNCHANGED <<whole, protected, env>> PROVE WholeInv'
    BY <1>1, <1>2, <1>4, PhaseType, IdleType
<1>5. ASSUME NEW o \in Operators, Step(o), cmd[o].kind # "envdown", UNCHANGED <<whole, protected, env>>
      PROVE  WholeInv'
    BY <1>1, <1>2, <1>5, StepKeeps, IdleType
<1>6. ASSUME NEW o \in Operators, Step(o) PROVE WholeInv'
    <2>1. CASE UpStep(o)
        BY <1>5, <1>6, <2>1
        DEF UpStep, CheckPreinfra, EnsureBucket, EnsureTable, ListState, ApplyZone, PlanTier, Plan,
            ApplyTier, At, world, history
    <2>2. CASE (\E e \in Envs : GateEnv(o, e)) \/ GateImages(o) \/ SkipDestroy(o) \/ PlanDestroy(o)
               \/ DestroyTier(o) \/ DropBucket(o) \/ DropTable(o)
        BY <1>5, <1>6, <2>2
        DEF GateEnv, GateImages, SkipDestroy, PlanDestroy, Plan, DestroyTier, DropBucket, DropTable, At,
            world, history
    <2>3. CASE \E c \in Codebases : PushImage(o, c)
        BY <1>5, <1>6, <2>3 DEF PushImage, At, history
    <2>4. CASE ApplyEnv(o)
        <3>1. cmd[o].kind = "release" /\ UNCHANGED <<whole, protected>>
            BY <2>4 DEF ApplyEnv, At, history
        <3>2. \A e \in whole : env'[e] = env[e]
            <4>1. CASE UNCHANGED env  BY <4>1
            <4>2. CASE env[cmd[o].env] # FullEnv
                BY <1>1, <2>4, <4>2 DEF ApplyEnv, WholeInv
            <4> QED  BY <2>4, <4>1, <4>2 DEF ApplyEnv
        <3> QED  BY <1>1, <1>6, <3>1, <3>2, StepKeeps, IdleType DEF WholeInv
    <2>5. CASE GateProtection(o)
        <3>1. CASE Ends(o)  BY <1>4, <2>5, <3>1 DEF GateProtection, world, history
        <3>2. CASE Goto(o, "destroy")
            <4>1. cmd[o].env \notin whole
                <5>1. ~(Elastic /\ protected[cmd[o].env] /\ "db" \in env[cmd[o].env])
                    BY ZenonT(40), <2>5, <3>2, PhaseType, <1>1, IdleType DEF GateProtection, At, Goto, Ends
                <5> QED  BY <5>1 DEF WholeInv, FullEnv, Elastic
            <4>2. cmd'[o].env = cmd[o].env /\ \A p \in Operators \ {o} : cmd'[p] = cmd[p]
                BY <1>1, <3>2, PhaseType
            <4>3. UNCHANGED <<whole, protected, env>>
                BY <2>5 DEF GateProtection, world, history
            <4> QED  BY <1>1, <4>1, <4>2, <4>3 DEF WholeInv
        <3> QED  BY <2>5, <3>1, <3>2 DEF GateProtection
    <2>6. CASE DestroyEnv(o)
        <3>1. cmd[o].env \notin whole /\ UNCHANGED <<whole, protected>>
            BY <2>6 DEF DestroyEnv, At, history, WholeInv
        <3>2. \A e \in whole : env'[e] = env[e]
            BY <1>1, <2>6, <3>1 DEF DestroyEnv
        <3>3. cmd'[o] = Idle \/ cmd'[o] = cmd[o]
            BY <1>1, <2>6, PhaseType DEF DestroyEnv
        <3> QED  BY <1>1, <1>6, <3>1, <3>2, <3>3, StepKeeps, IdleType DEF WholeInv
    <2> QED  BY <1>6, <2>1, <2>2, <2>3, <2>4, <2>5, <2>6 DEF Step
<1>7. ASSUME NEW o \in Operators, Interrupt(o) PROVE WholeInv'
    BY <1>4, <1>7 DEF Interrupt, history
<1>8. ASSUME NEW e \in Envs, NEW on \in BOOLEAN, Protect(e, on) PROVE WholeInv'
    <2>1. UNCHANGED <<env, cmd>>  BY <1>8 DEF Protect
    <2>2. \A f \in whole' : \/ f \in whole /\ f # e
                            \/ f = e /\ on /\ env[e] = FullEnv /\ ~BeingTornDown(e)
        BY <1>8 DEF Protect
    <2>3. \A f \in Envs : protected'[f] = IF f = e THEN on ELSE protected[f]
        BY <1>1, <1>8 DEF Protect, TypeOK
    <2>4. Elastic  BY <1>8 DEF Protect
    <2> QED  BY <1>1, <2>1, <2>2, <2>3, <2>4 DEF WholeInv, BeingTornDown
<1>9. CASE Prepare \/ Delegate \/ EmptyRepositories \/ UNCHANGED vars
    <2>1. UNCHANGED <<whole, protected, env, cmd>>
        BY <1>9 DEF Prepare, Delegate, EmptyRepositories, vars, world, history
    <2> QED  BY <1>1, <2>1 DEF WholeInv
<1> QED  BY <1>3, <1>6, <1>7, <1>8, <1>9 DEF Next

\* An env that was complete when its database was protected stays complete:
\* no command that found it protected has destroyed anything of it.
THEOREM ProtectionHolds == Spec => []ProtectedStaysWhole
<1>1. Init => WholeInv  BY DEF Init, WholeInv
<1>2. WholeInv => ProtectedStaysWhole  BY DEF WholeInv, ProtectedStaysWhole
<1>3. TypeInv /\ WholeInv /\ [Next]_vars => (TypeInv /\ WholeInv)'
    BY TypeStep, WholeStep
<1> QED  BY <1>1, <1>2, <1>3, TypeInit, PTL DEF Spec

-----------------------------------------------------------------------------
(* The order of the tiers.                                                  *)

Alone == \A o, p \in Operators : o # p => cmd[o] = Idle \/ cmd[p] = Idle

\* A down that is past its gate stands over no env.
GateSawAll ==
    \A o \in Operators : cmd[o].kind = "down" =>
        \A e \in Envs : env[e] # {} => cmd[o].pc = "envs" /\ e \in cmd[o].left

\* Unless one has skipped tofu destroy: what a down has yet to destroy is all
\* there is, and then nothing is left; and nothing is out of the record.
DownEmpties ==
    skipped \/ \A o \in Operators : cmd[o].kind = "down" =>
        /\ cmd[o].pc = "planned" => tier \subseteq cmd[o].left
        /\ cmd[o].pc \in {"ssm", "droptable"} => tier = {}

NothingLost == skipped \/ lost = {}

BackendLast == Elastic => skipped \/ bucket \/ (tier = {} /\ \A e \in Envs : env[e] = {})

\* An up that has planned has the bucket it planned from.
UpHasBucket == \A o \in Operators : At(o, "up", "planned") /\ Elastic => bucket

EnvStands == \A e \in Envs : env[e] # {} => tier = FullTier

SafeInv == GateSawAll /\ DownEmpties /\ UpHasBucket /\ EnvStands /\ BackendLast /\ NothingLost
TierInv == /\ ~overlap => Alone
           /\ ~overlap /\ ~misread => SafeInv

LEMMA TierInit == Init => TierInv
BY IdleType DEF Init, TierInv, Alone, SafeInv, GateSawAll, DownEmpties, UpHasBucket, EnvStands,
                BackendLast, NothingLost, At

\* What a step of the only command must show of itself.
LEMMA TierMoves ==
    ASSUME TypeInv, TierInv, UNCHANGED <<foundation, overlap>>, misread => misread',
           NEW o \in Operators, \A p \in Operators \ {o} : cmd'[p] = cmd[p],
           (~overlap /\ ~misread' /\ SafeInv /\ \A p \in Operators \ {o} : cmd[p] = Idle) =>
              /\ cmd'[o].kind = "down" =>
                    /\ \A e \in Envs : env'[e] # {} => cmd'[o].pc = "envs" /\ e \in cmd'[o].left
                    /\ skipped' \/ (cmd'[o].pc = "planned" => tier' \subseteq cmd'[o].left)
                    /\ skipped' \/ (cmd'[o].pc \in {"ssm", "droptable"} => tier' = {})
              /\ cmd'[o].kind = "up" /\ cmd'[o].pc = "planned" /\ Elastic => bucket'
              /\ EnvStands' /\ BackendLast' /\ NothingLost',
           cmd[o] # Idle
    PROVE  TierInv'
<1>1. ~overlap => \A p \in Operators \ {o} : cmd[p] = Idle
    BY DEF TierInv, Alone
<1>2. ~overlap => Alone'
    BY <1>1 DEF Alone
<1>3. ~overlap /\ ~misread' => SafeInv'
    <2> SUFFICES ASSUME ~overlap, ~misread' PROVE SafeInv'
        OBVIOUS
    <2>1. SafeInv /\ \A p \in Operators \ {o} : cmd'[p] = Idle /\ cmd[p] = Idle
        BY <1>1 DEF TierInv
    <2>2. GateSawAll'   BY <2>1, IdleType DEF GateSawAll
    <2>3. DownEmpties'  BY <2>1, IdleType DEF DownEmpties
    <2>4. UpHasBucket'  BY <2>1, IdleType, SameFoundation DEF UpHasBucket, At
    <2> QED  BY <2>1, <2>2, <2>3, <2>4 DEF SafeInv
<1> QED  BY <1>2, <1>3 DEF TierInv

\* A step that touches neither resources nor the backend, nor moves a down or
\* an up to where it destroys or creates.
LEMMA TierReads ==
    ASSUME TypeInv, TierInv, UNCHANGED <<foundation, overlap, misread, skipped, bucket, tier, env, lost>>,
           NEW o \in Operators, \A p \in Operators \ {o} : cmd'[p] = cmd[p], cmd[o] # Idle,
           \/ cmd'[o] = Idle
           \/ /\ cmd'[o].kind = cmd[o].kind
              /\ cmd[o].kind = "down" => cmd[o].pc # "envs" /\ cmd'[o].pc \notin {"planned", "ssm"}
              /\ cmd'[o].pc = "droptable" => cmd[o].pc \in {"ssm", "droptable"}
              /\ cmd[o].kind = "up" => cmd'[o].pc # "planned"
    PROVE  TierInv'
<1>1. EnvStands => EnvStands'  BY SameFoundation DEF EnvStands
<1>2. BackendLast /\ NothingLost => BackendLast' /\ NothingLost'
    BY SameFoundation DEF BackendLast, NothingLost
<1>3. cmd'[o].kind = "down" => cmd[o].kind = "down" /\ cmd'[o].kind = cmd[o].kind
    BY IdleType
<1> QED
    BY <1>1, <1>2, <1>3, IdleType, TierMoves DEF SafeInv, GateSawAll, DownEmpties, UpHasBucket, At

LEMMA TierStep ==
    ASSUME TypeInv, TierInv, [Next]_vars
    PROVE  TierInv'
<1>1. /\ TypeOK /\ UNCHANGED foundation /\ FullTier' = FullTier /\ FullEnv' = FullEnv
      /\ (Elastic <=> Elastic') /\ cmd \in [Operators -> Commands]
      /\ env \in [Envs -> SUBSET FullEnv] /\ tier \subseteq FullTier
    BY FoundationStays, SameFoundation DEF TypeInv, TypeOK
<1>2. ASSUME NEW o \in Operators, Begin(o) PROVE TierInv'
    <2>1. PICK e \in Envs \cup {Idle.env}, left \in SUBSET (Envs \cup Codebases \cup FullTier),
               kind \in {"up", "down", "release", "envdown", "containerize"},
               pc \in {"preinfra", "envs", "apply", "protection", "push"} :
                  Starts(o, kind, pc, e, left) /\ Begins(o, kind, pc, e, left)
        BY <1>1, <1>2, BeginIs
    <2>2. /\ cmd'[o].kind = kind /\ cmd'[o].pc = pc /\ cmd'[o].left = left
          /\ \A p \in Operators \ {o} : cmd'[p] = cmd[p]
          /\ UNCHANGED <<bucket, tier, env, lost, misread, skipped>>
        <3>1. /\ cmd'[o].kind = kind /\ cmd'[o].pc = pc /\ cmd'[o].left = left
              /\ \A p \in Operators \ {o} : cmd'[p] = cmd[p]
            <4>1. cmd' = [cmd EXCEPT ![o] = [kind |-> kind, pc |-> pc, env |-> e, left |-> left]]
                BY <2>1 DEF Begins
            <4> QED  BY <1>1, <4>1
        <3>2. UNCHANGED <<world, misread, skipped>>  BY <2>1 DEF Begins
        <3> QED  BY <3>1, <3>2 DEF world
    <2>3. ~overlap' => ~overlap /\ \A p \in Operators \ {o} : cmd'[p] = Idle
        BY <2>1, <2>2 DEF Begins
    <2>4. kind = "down" => pc = "envs" /\ left = Envs
        BY <2>1 DEF Starts
    <2>5. ~overlap' => Alone'  BY <2>3 DEF Alone
    <2>6. SafeInv /\ ~overlap' => SafeInv'
        <3> SUFFICES ASSUME SafeInv, ~overlap' PROVE SafeInv'  OBVIOUS
        <3>1. GateSawAll'   BY <2>2, <2>3, <2>4, IdleType DEF GateSawAll
        <3>2. DownEmpties'  BY <2>2, <2>3, <2>4, IdleType DEF DownEmpties
        <3>3. UpHasBucket'  BY <2>2, <2>3, IdleType DEF UpHasBucket, At
        <3>4. EnvStands' /\ BackendLast' /\ NothingLost'
            BY <1>1, <2>2 DEF SafeInv, EnvStands, BackendLast, NothingLost
        <3> QED  BY <3>1, <3>2, <3>3, <3>4 DEF SafeInv
    <2> QED  BY <2>2, <2>3, <2>5, <2>6 DEF TierInv
<1>3. ASSUME NEW o \in Operators, Step(o), cmd[o] # Idle,
             CheckPreinfra(o) \/ EnsureTable(o) \/ ListState(o) \/ GateImages(o) \/ DropTable(o)
             \/ GateProtection(o) \/ \E c \in Codebases : PushImage(o, c)
      PROVE  TierInv'
    <2>1. /\ \A p \in Operators \ {o} : cmd'[p] = cmd[p]
          /\ cmd'[o] = Idle \/ cmd'[o].kind = cmd[o].kind
        BY <1>1, <1>3, StepKeeps
    <2>2. UNCHANGED <<foundation, overlap, misread, skipped, bucket, tier, env, lost>>
        BY <1>1, <1>3
        DEF CheckPreinfra, EnsureTable, ListState, GateImages, DropTable, GateProtection, PushImage,
            history, world
    <2>3. CASE \E c \in Codebases : PushImage(o, c)
        <3>1. cmd[o].kind = "containerize" /\ cmd[o].pc = "push"
            BY <2>3 DEF PushImage, At
        <3>2. cmd'[o] = Idle \/ cmd'[o].pc = "push"
            <4>1. CASE Ends(o)  BY <1>1, <4>1, PhaseType
            <4>2. ASSUME NEW c \in Codebases, cmd' = [cmd EXCEPT ![o].left = @ \ {c}]
                  PROVE  cmd'[o].pc = "push"
                BY <1>1, <3>1, <4>2 DEF Commands
            <4> QED  BY <2>3, <4>1, <4>2 DEF PushImage
        <3> QED  BY <1>3, <2>1, <2>2, <3>1, <3>2, TierReads
    <2>4. CASE CheckPreinfra(o) \/ EnsureTable(o) \/ ListState(o) \/ GateImages(o) \/ DropTable(o)
               \/ GateProtection(o)
        <3>1. GoesOn(o, {"bucket", "list", "apply", "zone", "destroy"})
            BY <2>4 DEF CheckPreinfra, EnsureTable, ListState, GateImages, DropTable, GateProtection, GoesOn
        <3>2. cmd'[o] = Idle \/ cmd'[o].pc \notin {"planned", "ssm", "droptable"}
            BY <1>1, <3>1, GoesOnType
        <3>3. cmd[o].kind = "down" => cmd[o].pc # "envs"
            BY <2>4 DEF CheckPreinfra, EnsureTable, ListState, GateImages, DropTable, GateProtection, At
        <3> QED  BY <1>3, <2>1, <2>2, <3>2, <3>3, TierReads
    <2> QED  BY <1>3, <2>3, <2>4
<1>4. ASSUME NEW o \in Operators, Step(o) PROVE TierInv'
    <2>1. /\ \A p \in Operators \ {o} : cmd'[p] = cmd[p]
          /\ cmd'[o] = Idle \/ cmd'[o].kind = cmd[o].kind
        BY <1>1, <1>4, StepKeeps
    <2>2. cmd[o] # Idle /\ UNCHANGED overlap /\ (misread => misread')
        <3>1. cmd[o].kind # "none"
            BY <1>4 DEF Step, UpStep, CheckPreinfra, EnsureBucket, EnsureTable, ListState, ApplyZone,
                        PlanTier, Plan, ApplyTier, GateEnv, GateImages, SkipDestroy, PlanDestroy, DestroyTier,
                        DropBucket, DropTable, ApplyEnv, GateProtection, DestroyEnv, PushImage, At
        <3>2. UNCHANGED overlap /\ (misread => misread')
            <4>1. CASE UpStep(o)
                BY <4>1 DEF UpStep, CheckPreinfra, EnsureBucket, EnsureTable, ListState, ApplyZone,
                            PlanTier, Plan, ApplyTier, history
            <4>2. ASSUME NEW e \in Envs, GateEnv(o, e)
                  PROVE  UNCHANGED overlap /\ (misread => misread')
                BY <4>2 DEF GateEnv
            <4>3. CASE GateImages(o) \/ SkipDestroy(o) \/ PlanDestroy(o) \/ DestroyTier(o)
                       \/ DropBucket(o) \/ DropTable(o)
                BY <4>3 DEF GateImages, SkipDestroy, PlanDestroy, Plan, DestroyTier, DropBucket,
                            DropTable, history
            <4>4. CASE ApplyEnv(o) \/ GateProtection(o) \/ DestroyEnv(o)
                       \/ \E c \in Codebases : PushImage(o, c)
                BY <4>4 DEF ApplyEnv, GateProtection, DestroyEnv, PushImage, history
            <4> QED  BY <1>4, <4>1, <4>2, <4>3, <4>4 DEF Step
        <3> QED  BY <3>1, <3>2, IdleType
    <2>3. CASE EnsureBucket(o) \/ ApplyZone(o)
        <3>1. cmd[o].kind = "up" /\ UNCHANGED <<env, skipped>> /\ GoesOn(o, {"table"})
            BY <2>3 DEF EnsureBucket, ApplyZone, At, GoesOn, history
        <3>2. cmd'[o].kind # "down" /\ cmd'[o].pc # "planned"
            BY <1>1, <2>1, <3>1, GoesOnType, IdleType DEF Idle
        <3>3. bucket' = TRUE \/ (bucket' = bucket /\ (tier' = tier \/ bucket))
            BY <2>3 DEF EnsureBucket, ApplyZone, Locks
        <3>4. tier \subseteq tier' /\ tier' \subseteq FullTier
            <4>1. TypeOK'  BY TypeStep DEF TypeInv
            <4> QED  BY <1>1, <2>3, <4>1 DEF EnsureBucket, ApplyZone, TypeOK
        <3>5. EnvStands => EnvStands'
            BY <1>1, <3>1, <3>4 DEF EnvStands
        <3>6. BackendLast => BackendLast'
            BY <1>1, <3>1, <3>3 DEF BackendLast
        <3>7. NothingLost => NothingLost'
            BY <2>3, <3>1 DEF EnsureBucket, ApplyZone, NothingLost
        <3> QED  BY <1>1, <2>1, <2>2, <3>2, <3>5, <3>6, <3>7, TierMoves DEF SafeInv
    <2>4. CASE PlanTier(o) \/ PlanDestroy(o)
        <3>1. UNCHANGED <<bucket, tier, env, lost, misread, skipped>>
            BY <2>4 DEF PlanTier, PlanDestroy, Plan, history
        <3>2. EnvStands' <=> EnvStands  BY <1>1, <3>1 DEF EnvStands
        <3>3. (BackendLast' <=> BackendLast) /\ (NothingLost' <=> NothingLost)
            BY <1>1, <3>1 DEF BackendLast, NothingLost
        <3>4. CASE Ends(o)
            BY <1>1, <2>1, <2>2, <3>1, <3>2, <3>3, <3>4, PhaseType, IdleType, TierMoves DEF SafeInv, Idle
        <3>5. CASE PlanTier(o) /\ ~Ends(o)
            <4>1. /\ cmd[o].kind = "up" /\ (Elastic => bucket)
                  /\ cmd' = [cmd EXCEPT ![o].pc = "planned", ![o].left = FullTier \ Recorded]
                BY <3>5 DEF PlanTier, Plan, At, Locks
            <4>2. cmd'[o].kind # "down"
                BY <2>1, <4>1, IdleType
            <4> QED  BY <1>1, <2>1, <2>2, <3>1, <3>2, <3>3, <4>1, <4>2, TierMoves DEF SafeInv
        <3>6. CASE PlanDestroy(o) /\ ~Ends(o)
            <4>1. /\ cmd[o].kind = "down" /\ cmd[o].pc = "destroy"
                  /\ cmd' = [cmd EXCEPT ![o].pc = "planned", ![o].left = Recorded]
                BY <3>6 DEF PlanDestroy, Plan, At
            <4>2. cmd'[o].kind = "down" /\ cmd'[o].pc = "planned" /\ cmd'[o].left = Recorded
                <5>1. cmd' = [cmd EXCEPT ![o] = [cmd[o] EXCEPT !.pc = "planned", !.left = Recorded]]
                    BY <1>1, <4>1
                <5> QED  BY <1>1, <4>1, <5>1 DEF Commands
            <4>3. GateSawAll => \A e \in Envs : env[e] = {}
                BY <4>1 DEF GateSawAll
            <4>4. NothingLost => skipped' \/ tier' \subseteq cmd'[o].left
                BY <3>1, <4>2 DEF NothingLost, Recorded
            <4> QED  BY <1>1, <2>1, <2>2, <3>1, <3>2, <3>3, <4>2, <4>3, <4>4, TierMoves DEF SafeInv
        <3> QED  BY <2>4, <3>4, <3>5, <3>6
    <2>5. CASE ApplyTier(o)
        <3>1. cmd[o].kind = "up" /\ cmd[o].pc = "planned" /\ UNCHANGED <<bucket, env, lost, skipped>>
            BY <2>5 DEF ApplyTier, At, history
        <3>2. cmd'[o].kind # "down"
            BY <2>1, <3>1, IdleType
        <3>3. tier \subseteq tier' /\ tier' \subseteq FullTier
            <4>1. TypeOK'  BY TypeStep DEF TypeInv
            <4> QED  BY <1>1, <2>5, <4>1 DEF ApplyTier, TypeOK
        <3>4. EnvStands => EnvStands'
            BY <1>1, <3>1, <3>3 DEF EnvStands
        <3>5. UpHasBucket /\ Elastic => bucket
            BY <3>1 DEF UpHasBucket, At
        <3>6. UpHasBucket => BackendLast'
            BY <1>1, <3>1, <3>5 DEF BackendLast
        <3>7. NothingLost => NothingLost'
            BY <3>1 DEF NothingLost
        <3> QED  BY <1>1, <2>1, <2>2, <3>1, <3>2, <3>4, <3>5, <3>6, <3>7, TierMoves DEF SafeInv
    <2>6. CASE DestroyTier(o)
        <3>1. cmd[o].kind = "down" /\ cmd[o].pc = "planned" /\ UNCHANGED <<bucket, env, lost, skipped>>
            BY <2>6 DEF DestroyTier, At, history
        <3>2. GateSawAll => \A e \in Envs : env[e] = {}
            BY <3>1 DEF GateSawAll
        <3>3. tier' \subseteq tier
            BY <2>6 DEF DestroyTier
        <3>4. GateSawAll => EnvStands'
            BY <3>1, <3>2 DEF EnvStands
        <3>5. BackendLast /\ NothingLost => BackendLast' /\ NothingLost'
            BY <1>1, <3>1, <3>3 DEF BackendLast, NothingLost
        <3>6. DownEmpties => skipped' \/ tier \subseteq cmd[o].left
            BY <3>1 DEF DownEmpties
        <3>7. CASE Ends(o)
            BY <1>1, <2>1, <2>2, <3>4, <3>5, <3>7, PhaseType, IdleType, TierMoves DEF SafeInv, Idle
        <3>8. CASE Goto(o, "ssm") /\ cmd[o].left = {}
            <4>1. cmd'[o].kind = "down" /\ cmd'[o].pc = "ssm"
                BY <1>1, <3>1, <3>8, PhaseType
            <4>2. DownEmpties => skipped' \/ tier' = {}
                BY <3>3, <3>6, <3>8
            <4> QED  BY <1>1, <2>1, <2>2, <3>1, <3>2, <3>4, <3>5, <4>1, <4>2, TierMoves DEF SafeInv
        <3>9. ASSUME NEW r \in cmd[o].left, tier' = tier \ {r},
                     cmd' = [cmd EXCEPT ![o].left = @ \ {r}]
              PROVE  TierInv'
            <4>1. cmd'[o].kind = "down" /\ cmd'[o].pc = "planned" /\ cmd'[o].left = cmd[o].left \ {r}
                BY <1>1, <3>1, <3>9 DEF Commands
            <4>2. DownEmpties => skipped' \/ tier' \subseteq cmd'[o].left
                BY <3>6, <3>9, <4>1
            <4> QED  BY <1>1, <2>1, <2>2, <3>1, <3>2, <3>4, <3>5, <4>1, <4>2, TierMoves DEF SafeInv
        <3> QED  BY <2>6, <3>7, <3>8, <3>9 DEF DestroyTier
    <2>7. ASSUME NEW e \in Envs, GateEnv(o, e) PROVE TierInv'
        <3>1. /\ cmd[o].kind = "down" /\ cmd[o].pc = "envs" /\ e \in cmd[o].left
              /\ UNCHANGED <<bucket, tier, env, lost, skipped>>
            BY <2>7 DEF GateEnv, At, world
        <3>2. EnvStands' <=> EnvStands  BY <1>1, <3>1 DEF EnvStands
        <3>3. (BackendLast' <=> BackendLast) /\ (NothingLost' <=> NothingLost)
            BY <1>1, <3>1 DEF BackendLast, NothingLost
        <3>4. CASE Ends(o)
            BY <1>1, <2>1, <2>2, <3>1, <3>2, <3>3, <3>4, PhaseType, IdleType, TierMoves DEF SafeInv, Idle
        <3>5. CASE ~SeesUp(e) /\ ~Ends(o)
            <4>1. ~misread' => env[e] = {}
                BY <2>7, <3>5 DEF GateEnv, SeesUp
            <4>2. PICK pc \in {"images", "destroy", "envs"} :
                    /\ cmd' = [cmd EXCEPT ![o].left = @ \ {e}, ![o].pc = pc]
                    /\ pc = "envs" \/ cmd[o].left = {e}
                BY <2>7, <3>5 DEF GateEnv
            <4>3. cmd' = [cmd EXCEPT ![o] = [cmd[o] EXCEPT !.left = @ \ {e}, !.pc = pc]]
                BY <1>1, <4>2
            <4>4. cmd'[o].kind = "down" /\ cmd'[o].pc = pc /\ cmd'[o].left = cmd[o].left \ {e}
                BY <1>1, <3>1, <4>3 DEF Commands
            <4>5. ~misread' /\ GateSawAll =>
                    \A f \in Envs : env'[f] # {} => pc = "envs" /\ f \in cmd'[o].left
                BY <3>1, <4>1, <4>2, <4>4 DEF GateSawAll
            <4> QED  BY <1>1, <2>1, <2>2, <3>1, <3>2, <3>3, <4>4, <4>5, TierMoves DEF SafeInv
        <3> QED  BY <2>7, <3>4, <3>5 DEF GateEnv
    <2>8. CASE DropBucket(o)
        <3>1. cmd[o].kind = "down" /\ cmd[o].pc = "ssm" /\ UNCHANGED <<tier, env, skipped>>
            BY <2>8 DEF DropBucket, At, history
        <3>2. cmd'[o].kind = "down" /\ cmd'[o].pc = "droptable"
            BY <1>1, <2>8, <3>1, PhaseType DEF DropBucket
        <3>3. SafeInv => (skipped \/ tier = {}) /\ \A e \in Envs : env[e] = {}
            BY <3>1 DEF SafeInv, DownEmpties, GateSawAll
        <3>4. lost' = Standing  BY <2>8 DEF DropBucket
        <3>5. SafeInv => EnvStands' /\ BackendLast' /\ NothingLost'
            BY <3>1, <3>3, <3>4 DEF EnvStands, BackendLast, NothingLost, Standing
        <3> QED  BY <1>1, <2>1, <2>2, <3>1, <3>2, <3>3, <3>5, TierMoves
    <2>9. CASE ApplyEnv(o)
        <3>1. cmd[o].kind = "release" /\ UNCHANGED <<bucket, tier, lost, skipped>>
            BY <2>9 DEF ApplyEnv, At, history
        <3>2. cmd'[o].kind \notin {"up", "down"}
            BY <2>1, <3>1, IdleType
        <3>3. UNCHANGED env \/ (tier = FullTier /\ (Elastic => bucket))
            BY <1>1, <2>9 DEF ApplyEnv, Recorded
        <3>4. EnvStands /\ BackendLast /\ NothingLost => EnvStands' /\ BackendLast' /\ NothingLost'
            BY <1>1, <3>1, <3>3 DEF EnvStands, BackendLast, NothingLost
        <3> QED  BY <1>1, <2>1, <2>2, <3>2, <3>4, TierMoves DEF SafeInv
    <2>10. CASE DestroyEnv(o)
        <3>1. cmd[o].kind = "envdown" /\ UNCHANGED <<bucket, tier, lost, skipped>>
            BY <2>10 DEF DestroyEnv, At, history
        <3>2. cmd'[o].kind \notin {"up", "down"}
            BY <2>1, <3>1, IdleType
        <3>3. \A e \in Envs : env'[e] \subseteq env[e]
            BY <1>1, <2>10 DEF DestroyEnv
        <3>4. EnvStands /\ BackendLast /\ NothingLost => EnvStands' /\ BackendLast' /\ NothingLost'
            BY <1>1, <3>1, <3>3 DEF EnvStands, BackendLast, NothingLost
        <3> QED  BY <1>1, <2>1, <2>2, <3>2, <3>4, TierMoves DEF SafeInv
    <2>11. CASE SkipDestroy(o)
        <3>1. UNCHANGED <<foundation, bucket, tier, env, lost, overlap, misread>>
            BY <2>11 DEF SkipDestroy, world
        <3>2. CASE Elastic
            <4>1. cmd[o].kind = "down" /\ cmd[o].pc = "images" /\ Goto(o, "ssm") /\ skipped'
                BY <2>11, <3>2 DEF SkipDestroy, At
            <4>2. cmd'[o].kind = "down" /\ cmd'[o].pc = "ssm"
                BY <1>1, <4>1, PhaseType
            <4>3. GateSawAll => \A e \in Envs : env'[e] = {}
                BY <3>1, <4>1 DEF GateSawAll
            <4>4. EnvStands => EnvStands' /\ BackendLast' /\ NothingLost'
                BY <1>1, <3>1, <4>1 DEF EnvStands, BackendLast, NothingLost
            <4> QED  BY <1>1, <2>1, <2>2, <4>1, <4>2, <4>3, <4>4, TierMoves DEF SafeInv
        <3>3. CASE ~Elastic
            <4>1. Ends(o) /\ UNCHANGED skipped
                <5>1. Ends(o) /\ skipped' = (skipped \/ Elastic)
                    BY <2>11, <3>3 DEF SkipDestroy
                <5>2. skipped \in BOOLEAN  BY <1>1 DEF TypeOK
                <5> QED  BY <3>3, <5>1, <5>2
            <4>2. cmd'[o] = Idle  BY <1>1, <4>1, PhaseType
            <4> QED  BY <1>1, <2>1, <2>2, <3>1, <4>1, <4>2, TierReads
        <3> QED  BY <3>2, <3>3
    <2> QED
        BY <1>3, <1>4, <2>2, <2>3, <2>4, <2>5, <2>6, <2>7, <2>8, <2>9, <2>10, <2>11 DEF Step, UpStep
<1>5. ASSUME NEW o \in Operators, Interrupt(o) PROVE TierInv'
    <2>1. /\ cmd[o] # Idle /\ cmd'[o] = Idle /\ \A p \in Operators \ {o} : cmd'[p] = cmd[p]
          /\ UNCHANGED <<bucket, tier, env, lost, overlap, misread, skipped>>
        BY <1>1, <1>5, PhaseType DEF Interrupt, history
    <2> QED  BY <1>1, <2>1, TierReads
<1>6. CASE Prepare \/ Delegate \/ EmptyRepositories \/ UNCHANGED vars
           \/ \E e \in Envs, on \in BOOLEAN : Protect(e, on)
    <2>1. UNCHANGED <<bucket, tier, env, lost, cmd, overlap, misread, skipped>>
        BY <1>6 DEF Prepare, Delegate, EmptyRepositories, Protect, vars, world, history
    <2>2. Alone => Alone'  BY <2>1 DEF Alone
    <2>3. SafeInv => SafeInv'
        BY <1>1, <2>1
        DEF SafeInv, GateSawAll, DownEmpties, UpHasBucket, EnvStands, BackendLast, NothingLost, At
    <2> QED  BY <2>1, <2>2, <2>3 DEF TierInv
<1> QED  BY <1>2, <1>4, <1>5, <1>6 DEF Next

\* No env is ever without the project tier it stands on, as long as commands
\* do not overlap and no gate took an env for torn down that was not.
THEOREM TierStands == Spec => []EnvHasItsTier
<1>1. TierInv => EnvHasItsTier  BY DEF TierInv, SafeInv, EnvStands, EnvHasItsTier
<1>2. TypeInv /\ TierInv /\ [Next]_vars => (TypeInv /\ TierInv)'
    BY TypeStep, TierStep
<1> QED  BY <1>1, <1>2, TypeInit, TierInit, PTL DEF Spec

\* The state backend outlives all that is recorded in it, likewise, and as long
\* as no down skips tofu destroy for want of compiled output.
THEOREM BackendOutlives == Spec => []StateOutlivesResources
<1>1. TierInv => StateOutlivesResources
    BY DEF TierInv, SafeInv, BackendLast, StateOutlivesResources, Standing
<1>2. TypeInv /\ TierInv /\ [Next]_vars => (TypeInv /\ TierInv)'
    BY TypeStep, TierStep
<1> QED  BY <1>1, <1>2, TypeInit, TierInit, PTL DEF Spec
===============================================================================
