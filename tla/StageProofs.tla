----------------------------- MODULE StageProofs -----------------------------
(***************************************************************************)
(* Theorems about Stage: what the releases keep on a fixed host, for any   *)
(* number of operators, keys, services, versions and faults, and whatever  *)
(* the gate and ECS do beside them; and what a certificate of the gate     *)
(* vouches for, on either foundation.                                      *)
(***************************************************************************)
EXTENDS Stage, TLAPS

(* The steps of FixedRelease: what its commands keep on the host.          *)

Commands == [kind : Kinds \cup {"none"}, version : Versions, pc : ReleasePhases, tte : Credentials]
Containers == [version : 0..MaxVersion, env : Credentials,
               health : {"none", "starting", "healthy", "unhealthy"}]
Tallies == [{"values", "commands", "faults"} -> Nat]

LEMMA NothingIsCredentials == Nothing \in Credentials
BY FixedShapeAssumption DEF Nothing, Credentials, NoValue

LEMMA IdleIsCommand == Idle \in Commands /\ Idle.pc = "idle" /\ Idle.kind = "none"
BY NothingIsCredentials, FixedShapeAssumption
DEF Idle, Commands, Versions, ReleasePhases, Kinds

LEMMA ReleaseInitType == ReleaseInit => ReleaseTypeOK
<1> SUFFICES ASSUME ReleaseInit PROVE ReleaseTypeOK  OBVIOUS
<1>1. tally \in Tallies
    BY DEF ReleaseInit, Tallies
<1>2. cmd \in [Operators -> Commands]
    BY IdleIsCommand DEF ReleaseInit
<1>3. container \in [Services -> Containers]
    BY NothingIsCredentials, FixedShapeAssumption DEF ReleaseInit, None, Containers
<1>4. project \in Versions /\ compose \in 0..MaxVersion /\ schema \in 0..MaxVersion
      /\ done \in 0..MaxVersion
    BY FixedShapeAssumption DEF ReleaseInit, Versions
<1>5. /\ tteFile \in Credentials /\ envFile \in Credentials /\ volume \in Credentials
      /\ overlap \in BOOLEAN /\ leapt \in BOOLEAN /\ clobbered \in BOOLEAN
    BY NothingIsCredentials DEF ReleaseInit
<1> QED
    BY <1>1, <1>2, <1>3, <1>4, <1>5 DEF ReleaseTypeOK, Commands, Containers, Tallies

\* Changing the command's phase, or ending it, keeps the type of the commands.
LEMMA PhaseType ==
    ASSUME ReleaseTypeOK, NEW o \in Operators, NEW pc \in ReleasePhases
    PROVE  /\ Goto(o, pc) => cmd' \in [Operators -> Commands]
           /\ Ends(o) => cmd' \in [Operators -> Commands]
BY SMTT(20), IdleIsCommand DEF ReleaseTypeOK, Goto, Ends, Commands

LEMMA TallyType ==
    ASSUME ReleaseTypeOK, NEW f \in {"values", "commands", "faults"}, Counted(f, 1)
    PROVE  tally' \in Tallies
BY DEF ReleaseTypeOK, Counted, Tallies

LEMMA EnginesType == ReleaseTypeOK => EnginesStarted \in Credentials
BY DEF ReleaseTypeOK, EnginesStarted, Credentials

LEMMA FreshType == ReleaseTypeOK => Fresh \in Containers
BY DEF ReleaseTypeOK, Fresh, Containers

\* A staged store is credentials, and mints one value at most.
LEMMA StageType ==
    ASSUME ReleaseTypeOK, NEW o \in Operators, NEW seen \in Credentials, StageStore(o, seen)
    PROVE  /\ cmd' \in [Operators -> Commands]
           /\ cmd'[o].tte = Superset(cmd[o].version, seen, tally.values + 1)
           /\ cmd'[o].pc = "compose" /\ cmd'[o].kind = cmd[o].kind
           /\ cmd'[o].version = cmd[o].version
           /\ \A p \in Operators \ {o} : cmd'[p] = cmd[p]
<1> DEFINE store == Superset(cmd[o].version, seen, tally.values + 1)
<1>1. store \in Credentials
    <2>1. CASE store = seen  BY <2>1
    <2>2. CASE store # seen
        <3>1. tally.values \in Nat  BY DEF ReleaseTypeOK
        <3>2. tally.values + 1 <= MaxValues  BY <2>2 DEF StageStore
        <3>3. tally.values + 1 \in 0..MaxValues  BY <3>1, <3>2, FixedShapeAssumption
        <3>4. QED  BY <3>3 DEF Superset, Credentials
    <2>3. QED  BY <2>1, <2>2
<1>2. cmd' = [cmd EXCEPT ![o].tte = store, ![o].pc = "compose"]
    BY DEF StageStore
<1>3. cmd \in [Operators -> Commands]  BY DEF ReleaseTypeOK, Commands
<1> HIDE DEF store
<1>4. [cmd[o] EXCEPT !.tte = store, !.pc = "compose"] \in Commands
    BY <1>1, <1>3 DEF Commands, ReleasePhases
<1>5. cmd' = [cmd EXCEPT ![o] = [cmd[o] EXCEPT !.tte = store, !.pc = "compose"]]
    BY <1>2, <1>3
<1>6. /\ cmd' \in [Operators -> Commands] /\ cmd'[o].tte = store
      /\ cmd'[o].pc = "compose" /\ cmd'[o].kind = cmd[o].kind
      /\ cmd'[o].version = cmd[o].version
      /\ \A p \in Operators \ {o} : cmd'[p] = cmd[p]
    BY <1>3, <1>4, <1>5 DEF Commands
<1> QED  BY <1>6 DEF store

LEMMA ReleaseStepType ==
    ASSUME ReleaseTypeOK, [ReleaseNext]_releaseVars
    PROVE  ReleaseTypeOK'
<1> USE FixedShapeAssumption
<1> DEFINE Others == /\ project' \in Versions /\ compose' \in 0..MaxVersion
                     /\ schema' \in 0..MaxVersion /\ done' \in 0..MaxVersion
                     /\ tteFile' \in Credentials /\ envFile' \in Credentials
                     /\ volume' \in Credentials
                     /\ overlap' \in BOOLEAN /\ leapt' \in BOOLEAN /\ clobbered' \in BOOLEAN
<1> SUFFICES Others /\ cmd' \in [Operators -> Commands]
             /\ container' \in [Services -> Containers] /\ tally' \in Tallies
    BY DEF ReleaseTypeOK, Commands, Containers, Tallies
<1>1. /\ cmd \in [Operators -> Commands] /\ container \in [Services -> Containers]
      /\ tally \in Tallies
    BY DEF ReleaseTypeOK, Commands, Containers, Tallies
<1>2. ASSUME NEW o \in Operators, NEW kind \in Kinds, Begin(o, kind)
      PROVE  Others /\ cmd' \in [Operators -> Commands] /\ tally' \in Tallies
             /\ UNCHANGED container
    <2>1. cmd' \in [Operators -> Commands]
        BY <1>1, <1>2, NothingIsCredentials DEF Begin, Commands, Kinds, ReleasePhases
    <2>2. Others
        BY <1>2 DEF Begin, ReleaseTypeOK, hostVars
    <2> QED  BY <1>2, <2>1, <2>2, TallyType DEF Begin, hostVars
<1>3. ASSUME NEW o \in Operators, ReadHostStore(o) \/ ReadMasked(o)
      PROVE  Others /\ cmd' \in [Operators -> Commands] /\ tally' \in Tallies
             /\ UNCHANGED container
    <2>1. cmd' \in [Operators -> Commands]
        BY <1>3, StageType, NothingIsCredentials DEF ReadHostStore, ReadMasked, ReleaseTypeOK
    <2>2. tally' \in Tallies
        <3>1. /\ tally.values \in Nat /\ tally.faults \in Nat
              /\ tally \in [{"values", "commands", "faults"} -> Nat]
            BY <1>1 DEF Tallies
        <3>2. CASE ReadHostStore(o)
            <4>1. PICK n \in {tally.values, tally.values + 1} : tally' = [tally EXCEPT !.values = n]
                BY <3>2 DEF ReadHostStore
            <4> QED  BY <3>1, <4>1 DEF Tallies
        <3>3. CASE ReadMasked(o)
            <4>1. PICK n \in {tally.values, tally.values + 1} :
                      tally' = [tally EXCEPT !.faults = @ + 1, !.values = n]
                BY <3>3 DEF ReadMasked
            <4>2. [tally EXCEPT !.faults = @ + 1] \in [{"values", "commands", "faults"} -> Nat]
                BY <3>1
            <4>3. n \in Nat  BY <3>1, <4>1
            <4>4. tally' = [[tally EXCEPT !.faults = @ + 1] EXCEPT !.values = n]
                BY <3>1, <4>1
            <4> QED  BY <4>2, <4>3, <4>4 DEF Tallies
        <3> QED  BY <1>3, <3>2, <3>3
    <2>3. Others
        BY <1>3 DEF ReadHostStore, ReadMasked, ReleaseTypeOK, hostVars
    <2> QED  BY <1>3, <2>1, <2>2, <2>3 DEF ReadHostStore, ReadMasked, hostVars
<1>4. ASSUME NEW o \in Operators, RenderCompose(o) \/ RenderStore(o)
      PROVE  Others /\ cmd' \in [Operators -> Commands] /\ UNCHANGED <<container, tally>>
    <2>1. cmd' \in [Operators -> Commands]
        BY <1>4, PhaseType DEF RenderCompose, RenderStore, ReleasePhases
    <2>2. cmd[o].version \in 0..MaxVersion /\ cmd[o].tte \in Credentials
        BY <1>1 DEF Commands, Versions
    <2> QED  BY <1>4, <2>1, <2>2 DEF RenderCompose, RenderStore, ReleaseTypeOK, historyVars
<1>5. ASSUME NEW o \in Operators, RenderEnv(o)
      PROVE  Others /\ cmd' \in [Operators -> Commands] /\ UNCHANGED <<container, tally>>
    <2>1. cmd' \in [Operators -> Commands]
        BY <1>5, PhaseType DEF RenderEnv, ReleasePhases
    <2>2. cmd[o].tte \in Credentials
        BY <1>1 DEF Commands
    <2>3. envFile' \in Credentials
        BY <1>5, <2>2 DEF RenderEnv, Credentials, NoValue
    <2> QED  BY <1>5, <2>1, <2>3 DEF RenderEnv, ReleaseTypeOK, historyVars
<1>6. ASSUME NEW o \in Operators, Migrate(o)
      PROVE  Others /\ cmd' \in [Operators -> Commands] /\ UNCHANGED <<container, tally>>
    <2>1. cmd' \in [Operators -> Commands]
        BY <1>6, PhaseType DEF Migrate, ReleasePhases
    <2>2. volume' \in Credentials /\ schema' \in 0..MaxVersion
        BY <1>6, EnginesType DEF Migrate, ReleaseTypeOK
    <2> QED  BY <1>6, <2>1, <2>2 DEF Migrate, ReleaseTypeOK, historyVars
<1>7. ASSUME NEW o \in Operators, NEW s \in Services, Recreate(o, s) \/ RemoveOrphan(o, s)
      PROVE  Others /\ UNCHANGED <<cmd, tally>> /\ container' \in [Services -> Containers]
    <2>1. None \in Containers
        BY NothingIsCredentials DEF None, Containers
    <2>2. container' \in [Services -> Containers]
        BY <1>1, <1>7, <2>1, FreshType DEF Recreate, RemoveOrphan
    <2> QED  BY <1>7, <2>2, EnginesType DEF Recreate, RemoveOrphan, ReleaseTypeOK, historyVars
<1>8. ASSUME NEW o \in Operators, FinishUp(o)
      PROVE  Others /\ cmd' \in [Operators -> Commands] /\ UNCHANGED <<container, tally>>
    <2>1. cmd[o].version \in 0..MaxVersion
        BY <1>1 DEF Commands, Versions
    <2> QED  BY <1>8, <2>1, PhaseType DEF FinishUp, ReleaseTypeOK, hostVars, ReleasePhases
<1>9. ASSUME NEW o \in Operators, Fail(o)
      PROVE  Others /\ cmd' \in [Operators -> Commands] /\ UNCHANGED container /\ tally' \in Tallies
    BY <1>9, PhaseType, TallyType DEF Fail, ReleaseTypeOK, hostVars, historyVars, ReleasePhases
<1>10. ASSUME Bump
       PROVE  Others /\ UNCHANGED <<cmd, container, tally>>
    BY <1>10 DEF Bump, ReleaseTypeOK, hostVars, historyVars, Versions
<1>11. ASSUME NEW s \in Services, NEW health \in {"healthy", "unhealthy"}, Report(s, health)
       PROVE  Others /\ UNCHANGED cmd /\ container' \in [Services -> Containers] /\ tally' \in Tallies
    <2>1. container' \in [Services -> Containers]
        BY <1>1, <1>11 DEF Report, Containers
    <2>2. tally' \in Tallies
        BY <1>1, <1>11 DEF Report, Tallies
    <2> QED  BY <1>11, <2>1, <2>2 DEF Report, ReleaseTypeOK, historyVars
<1>12. CASE UNCHANGED releaseVars
    BY <1>1, <1>12 DEF releaseVars, ReleaseTypeOK, hostVars, historyVars
<1> QED
    BY <1>1, <1>2, <1>3, <1>4, <1>5, <1>6, <1>7, <1>8, <1>9, <1>10, <1>11, <1>12
    DEF ReleaseNext, ReleaseStep

-----------------------------------------------------------------------------
(* The credentials.                                                         *)

Staging(o) == cmd[o].pc \in {"compose", "tte"}

\* Stores that are staged at once are the same, and hold what the host's does.
StagersAgree == \A o, p \in Operators : Staging(o) /\ Staging(p) => cmd[o].tte = cmd[p].tte
StagedIsSuperset ==
    \A o \in Operators, k \in Keys :
        Staging(o) /\ tteFile[k] # NoValue => cmd[o].tte[k] = tteFile[k]
\* A store that was put on the host stays part of it, and so does its rendering.
StoredStays ==
    \A o \in Operators, k \in Keys :
        cmd[o].pc = "env" /\ cmd[o].tte[k] # NoValue => tteFile[k] = cmd[o].tte[k]
RenderedIsStored == \A k \in Keys : envFile[k] # NoValue => tteFile[k] = envFile[k]

StoreInv ==
    ~clobbered => /\ StagersAgree /\ StagedIsSuperset /\ StoredStays /\ RenderedIsStored
                  /\ \A k \in Keys : volume[k] # NoValue => tteFile[k] = volume[k]

LEMMA StoreInit == ReleaseInit => StoreInv
BY DEF ReleaseInit, StoreInv, StagersAgree, StagedIsSuperset, StoredStays, RenderedIsStored,
       Staging, Idle, Nothing

\* A command that only moves on, or ends, without staging a store keeps all.
LEMMA StoreMoves ==
    ASSUME ReleaseTypeOK, StoreInv, UNCHANGED <<tteFile, envFile, volume, clobbered>>,
           NEW o \in Operators, cmd' \in [Operators -> Commands],
           \A p \in Operators \ {o} : cmd'[p] = cmd[p],
           \/ cmd'[o].pc \notin {"compose", "tte", "env"}
           \/ cmd[o].pc = "compose" /\ cmd'[o].pc = "tte" /\ cmd'[o].tte = cmd[o].tte
    PROVE  StoreInv'
<1> SUFFICES ASSUME ~clobbered PROVE StoreInv'
    BY DEF StoreInv
<1>1. \A p \in Operators : Staging(p)' => Staging(p) /\ cmd'[p].tte = cmd[p].tte
    BY DEF Staging
<1>2. \A p \in Operators : cmd'[p].pc = "env" => cmd[p].pc = "env" /\ cmd'[p].tte = cmd[p].tte
    OBVIOUS
<1> QED
    BY <1>1, <1>2 DEF StoreInv, StagersAgree, StagedIsSuperset, StoredStays, RenderedIsStored

\* An engine's volume is made with what is rendered or was made before.
LEMMA StoreEngines ==
    ASSUME ReleaseTypeOK, StoreInv, UNCHANGED <<tteFile, envFile, clobbered>>,
           volume' = EnginesStarted, NEW o \in Operators, cmd' \in [Operators -> Commands],
           \A p \in Operators \ {o} : cmd'[p] = cmd[p],
           cmd'[o] = cmd[o] \/ cmd'[o].pc \notin {"compose", "tte", "env"}
    PROVE  StoreInv'
<1> SUFFICES ASSUME ~clobbered PROVE StoreInv'
    BY DEF StoreInv
<1>1. \A p \in Operators : Staging(p)' => Staging(p) /\ cmd'[p].tte = cmd[p].tte
    BY DEF Staging
<1>2. \A p \in Operators : cmd'[p].pc = "env" => cmd[p].pc = "env" /\ cmd'[p].tte = cmd[p].tte
    OBVIOUS
<1>3. \A k \in Keys : volume'[k] \in {volume[k], envFile[k]}
    BY DEF EnginesStarted
<1> QED
    BY <1>1, <1>2, <1>3
    DEF StoreInv, StagersAgree, StagedIsSuperset, StoredStays, RenderedIsStored

\* What a phase leaves of the other commands.
LEMMA PhaseOf ==
    ASSUME ReleaseTypeOK, NEW o \in Operators, NEW pc \in ReleasePhases
    PROVE  /\ Goto(o, pc) => /\ cmd'[o].pc = pc /\ cmd'[o].tte = cmd[o].tte
                             /\ cmd'[o].kind = cmd[o].kind /\ cmd'[o].version = cmd[o].version
                             /\ \A p \in Operators \ {o} : cmd'[p] = cmd[p]
           /\ Ends(o) => cmd'[o] = Idle /\ \A p \in Operators \ {o} : cmd'[p] = cmd[p]
BY DEF ReleaseTypeOK, Goto, Ends

LEMMA StoreStep ==
    ASSUME ReleaseTypeOK, StoreInv, [ReleaseNext]_releaseVars
    PROVE  StoreInv'
<1>1. ReleaseTypeOK' /\ cmd' \in [Operators -> Commands] /\ cmd \in [Operators -> Commands]
    BY ReleaseStepType DEF ReleaseTypeOK, Commands
<1>2. ASSUME NEW o \in Operators, NEW kind \in Kinds, Begin(o, kind) PROVE StoreInv'
    <2>1. cmd'[o].pc \in {"read", "migrate"} /\ \A p \in Operators \ {o} : cmd'[p] = cmd[p]
        BY <1>1, <1>2 DEF Begin
    <2> QED  BY <1>1, <1>2, <2>1, StoreMoves DEF Begin, hostVars
<1>3. ASSUME NEW o \in Operators, ReadHostStore(o) PROVE StoreInv'
    <2> SUFFICES ASSUME ~clobbered, ~clobbered' PROVE StoreInv'
        BY <1>3 DEF StoreInv, ReadHostStore
    <2>1. /\ cmd'[o].tte = Superset(cmd[o].version, tteFile, tally.values + 1)
          /\ cmd'[o].pc = "compose" /\ \A p \in Operators \ {o} : cmd'[p] = cmd[p]
        BY <1>3, StageType DEF ReadHostStore, ReleaseTypeOK
    <2>2. \A k \in Keys : tteFile[k] # NoValue => cmd'[o].tte[k] = tteFile[k]
        BY <2>1 DEF Superset
    <2>3. \A p \in Operators \ {o} : Staging(p) => cmd[p].tte = cmd'[o].tte
        BY <1>3 DEF ReadHostStore, Races, Staging
    <2>4. UNCHANGED <<tteFile, envFile, volume>>
        BY <1>3 DEF ReadHostStore, hostVars
    <2>5. StagersAgree'
        BY <2>1, <2>3 DEF StoreInv, StagersAgree, Staging
    <2>6. StagedIsSuperset' /\ StoredStays'
        BY <2>1, <2>2, <2>4 DEF StoreInv, StagedIsSuperset, StoredStays, Staging
    <2> QED  BY <2>4, <2>5, <2>6 DEF StoreInv, RenderedIsStored
<1>4. ASSUME NEW o \in Operators, ReadMasked(o) PROVE StoreInv'
    BY <1>4 DEF ReadMasked, StoreInv
<1>5. ASSUME NEW o \in Operators, RenderCompose(o) PROVE StoreInv'
    BY <1>1, <1>5, PhaseOf, StoreMoves DEF RenderCompose, At, ReleasePhases, historyVars
<1>6. ASSUME NEW o \in Operators, RenderStore(o) PROVE StoreInv'
    <2> SUFFICES ASSUME ~clobbered PROVE StoreInv'
        BY <1>6 DEF StoreInv, RenderStore, historyVars
    <2>1. /\ cmd[o].pc = "tte" /\ cmd'[o].pc = "env" /\ cmd'[o].tte = cmd[o].tte
          /\ \A p \in Operators \ {o} : cmd'[p] = cmd[p]
        BY <1>6, PhaseOf DEF RenderStore, At, ReleasePhases
    <2>2. tteFile' = cmd[o].tte /\ UNCHANGED <<envFile, volume>>
        BY <1>6 DEF RenderStore
    <2>3. \A k \in Keys : tteFile[k] # NoValue => tteFile'[k] = tteFile[k]
        BY <2>1, <2>2 DEF StoreInv, StagedIsSuperset, Staging
    <2>4. StagersAgree'
        BY <2>1 DEF StoreInv, StagersAgree, Staging
    <2>5. StagedIsSuperset'
        BY <2>1, <2>2 DEF StoreInv, StagersAgree, StagedIsSuperset, Staging
    <2>6. StoredStays'
        BY <2>1, <2>2, <2>3 DEF StoreInv, StoredStays
    <2> QED  BY <2>2, <2>3, <2>4, <2>5, <2>6 DEF StoreInv, RenderedIsStored
<1>7. ASSUME NEW o \in Operators, RenderEnv(o) PROVE StoreInv'
    <2> SUFFICES ASSUME ~clobbered PROVE StoreInv'
        BY <1>7 DEF StoreInv, RenderEnv, historyVars
    <2>1. /\ cmd[o].pc = "env" /\ cmd'[o].pc \in {"up", "migrate"}
          /\ \A p \in Operators \ {o} : cmd'[p] = cmd[p]
        BY <1>7, PhaseOf DEF RenderEnv, At, ReleasePhases
    <2>2. UNCHANGED <<tteFile, volume>>
        BY <1>7 DEF RenderEnv
    <2>3. \A k \in Keys : envFile'[k] \in {cmd[o].tte[k], NoValue}
        BY <1>7 DEF RenderEnv
    <2>4. RenderedIsStored'
        BY <2>1, <2>2, <2>3 DEF StoreInv, StoredStays, RenderedIsStored
    <2>5. StagersAgree' /\ StagedIsSuperset' /\ StoredStays'
        BY <2>1, <2>2 DEF StoreInv, StagersAgree, StagedIsSuperset, StoredStays, Staging
    <2> QED  BY <2>2, <2>4, <2>5 DEF StoreInv
<1>8. ASSUME NEW o \in Operators, Migrate(o) PROVE StoreInv'
    BY <1>1, <1>8, PhaseOf, IdleIsCommand, StoreEngines DEF Migrate, ReleasePhases, historyVars
<1>9. ASSUME NEW o \in Operators, NEW s \in Services, Recreate(o, s) PROVE StoreInv'
    BY <1>1, <1>9, StoreEngines DEF Recreate, historyVars
<1>10. ASSUME UNCHANGED <<cmd, tteFile, envFile, volume, clobbered>> PROVE StoreInv'
    BY <1>10 DEF StoreInv, StagersAgree, StagedIsSuperset, StoredStays, RenderedIsStored, Staging
<1>11. ASSUME NEW o \in Operators, Ends(o), UNCHANGED <<tteFile, envFile, volume, clobbered>>
       PROVE  StoreInv'
    BY <1>1, <1>11, PhaseOf, IdleIsCommand, StoreMoves DEF ReleasePhases
<1> QED
    BY <1>2, <1>3, <1>4, <1>5, <1>6, <1>7, <1>8, <1>9, <1>10, <1>11
    DEF ReleaseNext, ReleaseStep, FinishUp, RemoveOrphan, Fail, Bump, Report, hostVars,
        historyVars, releaseVars

-----------------------------------------------------------------------------
(* The schema, and what was deployed when a command ends well.              *)

\* Commands that have not overlapped are alone, and what a release or rollback
\* rendered is what it brings up.
Alone == \A o, p \in Operators : o # p => cmd[o].pc = "idle" \/ cmd[p].pc = "idle"
BringsUpItsOwn ==
    \A o \in Operators : cmd[o].kind # "migrate" /\ cmd[o].pc \in {"tte", "env", "migrate", "up"} =>
        compose = cmd[o].version
MigrateOnlyMigrates ==
    \A o \in Operators : cmd[o].kind = "migrate" => cmd[o].pc = "migrate"
SuccessInv ==
    done # 0 => /\ \A o \in Operators : cmd[o].pc = "idle"
                /\ Deployed = Shape[done]
                /\ \A s \in Shape[done] : container[s].version = done /\ container[s].env = envFile

\* The schema is there before a stack is brought up, and for a rollback from
\* the start.
UpIsMigrated == \A o \in Operators : cmd[o].pc = "up" => compose <= schema
RollbackIsMigrated ==
    \A o \in Operators : cmd[o].kind = "rollback" => cmd[o].version <= schema
RunsMigrated == \A s \in Services : container[s].version <= schema

OrderInv ==
    /\ MigrateOnlyMigrates
    /\ ~overlap => Alone /\ BringsUpItsOwn /\ SuccessInv
    /\ ~overlap /\ ~leapt => UpIsMigrated /\ RollbackIsMigrated /\ RunsMigrated

LEMMA OrderInit == ReleaseInit => OrderInv
BY DEF ReleaseInit, OrderInv, MigrateOnlyMigrates, Alone, BringsUpItsOwn, SuccessInv, UpIsMigrated,
       RollbackIsMigrated, RunsMigrated, Idle, None

LEMMA OrderStep ==
    ASSUME ReleaseTypeOK, OrderInv, [ReleaseNext]_releaseVars
    PROVE  OrderInv'
<1>1. /\ ReleaseTypeOK' /\ cmd' \in [Operators -> Commands] /\ cmd \in [Operators -> Commands]
      /\ schema \in Nat /\ compose \in Nat /\ schema' \in Nat /\ compose' \in Nat
      /\ container \in [Services -> Containers] /\ done \in Nat
    BY ReleaseStepType, FixedShapeAssumption DEF ReleaseTypeOK, Commands, Containers
<1>2. ASSUME NEW o \in Operators, NEW kind \in Kinds, Begin(o, kind) PROVE OrderInv'
    <2>1. /\ cmd[o].pc = "idle" /\ cmd'[o].kind = kind /\ cmd'[o].version = Target(kind)
          /\ cmd'[o].pc = (IF kind = "migrate" THEN "migrate" ELSE "read")
          /\ \A p \in Operators \ {o} : cmd'[p] = cmd[p]
        BY <1>1, <1>2 DEF Begin, At
    <2>2. UNCHANGED <<compose, schema, container, envFile>> /\ done' = 0
        BY <1>2 DEF Begin, hostVars
    <2>3. ~overlap' => ~overlap /\ \A p \in Operators \ {o} : cmd[p].pc = "idle"
        BY <1>2 DEF Begin, At
    <2>4. ~leapt' => ~leapt /\ (kind = "rollback" => Target(kind) <= schema)
        <3>1. Target(kind) \in Nat  BY <1>2 DEF Begin, Versions
        <3>2. ~leapt' => ~leapt /\ ~(kind = "rollback" /\ Target(kind) > schema)
            BY <1>2 DEF Begin
        <3> QED  BY <1>1, <3>1, <3>2
    <2>5. MigrateOnlyMigrates'
        BY <2>1 DEF OrderInv, MigrateOnlyMigrates
    <2>6. ~overlap' => Alone' /\ BringsUpItsOwn' /\ SuccessInv'
        BY <2>1, <2>2, <2>3 DEF OrderInv, Alone, BringsUpItsOwn, SuccessInv
    <2>7. ~overlap' /\ ~leapt' => UpIsMigrated' /\ RollbackIsMigrated' /\ RunsMigrated'
        BY <2>1, <2>2, <2>3, <2>4 DEF OrderInv, UpIsMigrated, RollbackIsMigrated, RunsMigrated
    <2> QED  BY <2>5, <2>6, <2>7 DEF OrderInv
<1>3. ASSUME NEW o \in Operators, ReadHostStore(o) \/ ReadMasked(o) PROVE OrderInv'
    <2>1. /\ cmd[o].pc = "read" /\ cmd'[o].pc = "compose" /\ cmd'[o].kind = cmd[o].kind
          /\ cmd'[o].version = cmd[o].version
          /\ \A p \in Operators \ {o} : cmd'[p] = cmd[p]
        BY <1>3, StageType, NothingIsCredentials DEF ReadHostStore, ReadMasked, ReleaseTypeOK, At
    <2>2. UNCHANGED <<compose, schema, container, envFile, done, overlap, leapt>>
        BY <1>3 DEF ReadHostStore, ReadMasked, hostVars
    <2> QED
        BY <2>1, <2>2
        DEF OrderInv, MigrateOnlyMigrates, Alone, BringsUpItsOwn, SuccessInv, Deployed,
            UpIsMigrated, RollbackIsMigrated, RunsMigrated
<1>4. ASSUME NEW o \in Operators, RenderCompose(o) \/ RenderStore(o) PROVE OrderInv'
    <2>1. /\ cmd[o].pc \in {"compose", "tte"} /\ cmd'[o].pc \in {"tte", "env"}
          /\ cmd'[o].kind = cmd[o].kind /\ cmd'[o].version = cmd[o].version
          /\ \A p \in Operators \ {o} : cmd'[p] = cmd[p]
        BY <1>4, PhaseOf DEF RenderCompose, RenderStore, At, ReleasePhases
    <2>2. UNCHANGED <<schema, container, envFile, done, overlap, leapt>>
        BY <1>4 DEF RenderCompose, RenderStore, historyVars
    <2>3. compose' = cmd[o].version \/ (cmd[o].pc = "tte" /\ compose' = compose)
        BY <1>4 DEF RenderCompose, RenderStore, At
    <2>4. MigrateOnlyMigrates'
        BY <2>1 DEF OrderInv, MigrateOnlyMigrates
    <2>5. ~overlap => \A p \in Operators \ {o} : cmd'[p].pc = "idle"
        BY <2>1 DEF OrderInv, Alone
    <2>6. ~overlap => Alone' /\ BringsUpItsOwn' /\ SuccessInv'
        BY <2>1, <2>2, <2>3, <2>5 DEF OrderInv, Alone, BringsUpItsOwn, SuccessInv
    <2>7. ~overlap /\ ~leapt => UpIsMigrated' /\ RollbackIsMigrated' /\ RunsMigrated'
        BY <2>1, <2>2, <2>5 DEF OrderInv, UpIsMigrated, RollbackIsMigrated, RunsMigrated
    <2> QED  BY <2>2, <2>4, <2>6, <2>7 DEF OrderInv
<1>5. ASSUME NEW o \in Operators, RenderEnv(o) PROVE OrderInv'
    <2>1. /\ cmd[o].pc = "env" /\ cmd[o].kind # "migrate"
          /\ cmd'[o].pc = (IF cmd[o].kind = "rollback" THEN "up" ELSE "migrate")
          /\ cmd'[o].kind = cmd[o].kind /\ cmd'[o].version = cmd[o].version
          /\ \A p \in Operators \ {o} : cmd'[p] = cmd[p]
        BY <1>5, PhaseOf DEF RenderEnv, At, ReleasePhases, OrderInv, MigrateOnlyMigrates
    <2>2. UNCHANGED <<compose, schema, container, done, overlap, leapt>>
        BY <1>5 DEF RenderEnv, historyVars
    <2>3. MigrateOnlyMigrates'
        BY <2>1 DEF OrderInv, MigrateOnlyMigrates
    <2>4. ~overlap => compose = cmd[o].version /\ \A p \in Operators \ {o} : cmd'[p].pc = "idle"
        BY <2>1 DEF OrderInv, Alone, BringsUpItsOwn
    <2>5. ~overlap => Alone' /\ BringsUpItsOwn' /\ SuccessInv'
        BY <2>1, <2>2, <2>4 DEF OrderInv, Alone, BringsUpItsOwn, SuccessInv
    <2>6. ~overlap /\ ~leapt => UpIsMigrated' /\ RollbackIsMigrated' /\ RunsMigrated'
        BY <2>1, <2>2, <2>4 DEF OrderInv, UpIsMigrated, RollbackIsMigrated, RunsMigrated
    <2> QED  BY <2>2, <2>3, <2>5, <2>6 DEF OrderInv
<1>6. ASSUME NEW o \in Operators, Migrate(o) PROVE OrderInv'
    <2>1. /\ cmd[o].pc = "migrate" /\ \A p \in Operators \ {o} : cmd'[p] = cmd[p]
          /\ \/ cmd'[o] = Idle
             \/ /\ cmd[o].kind # "migrate" /\ cmd'[o].pc = "up" /\ compose <= schema'
                /\ cmd'[o].kind = cmd[o].kind /\ cmd'[o].version = cmd[o].version
        BY <1>1, <1>6, PhaseOf DEF Migrate, At, ReleasePhases
    <2>2. schema <= schema' /\ UNCHANGED <<compose, envFile, container, done, overlap, leapt>>
        BY <1>1, <1>6 DEF Migrate, historyVars
    <2>3. MigrateOnlyMigrates'
        BY <2>1, IdleIsCommand DEF OrderInv, MigrateOnlyMigrates
    <2>4. ~overlap => \A p \in Operators \ {o} : cmd'[p].pc = "idle"
        BY <2>1 DEF OrderInv, Alone
    <2>5. ~overlap => Alone' /\ BringsUpItsOwn' /\ SuccessInv'
        BY <2>1, <2>2, <2>4, IdleIsCommand DEF OrderInv, Alone, BringsUpItsOwn, SuccessInv
    <2>6. ~overlap /\ ~leapt => UpIsMigrated' /\ RollbackIsMigrated' /\ RunsMigrated'
        <3> SUFFICES ASSUME ~overlap, ~leapt PROVE UpIsMigrated' /\ RollbackIsMigrated' /\ RunsMigrated'
            OBVIOUS
        <3>1. UpIsMigrated'
            BY <2>1, <2>2, <2>4, IdleIsCommand DEF UpIsMigrated
        <3>2. RollbackIsMigrated'
            <4> SUFFICES ASSUME NEW p \in Operators, cmd'[p].kind = "rollback"
                         PROVE  cmd'[p].version <= schema'
                BY DEF RollbackIsMigrated
            <4>1. cmd[p].kind = "rollback" /\ cmd'[p].version = cmd[p].version
                BY <2>1, IdleIsCommand
            <4>2. cmd[p].version <= schema /\ cmd[p].version \in Nat
                BY <1>1, <4>1 DEF OrderInv, RollbackIsMigrated, Commands, Versions
            <4> QED  BY <1>1, <2>2, <4>1, <4>2
        <3>3. RunsMigrated'
            <4> SUFFICES ASSUME NEW s \in Services PROVE container[s].version <= schema'
                BY <2>2 DEF RunsMigrated
            <4>1. container[s].version <= schema /\ container[s].version \in Nat
                BY <1>1 DEF OrderInv, RunsMigrated, Containers
            <4> QED  BY <1>1, <2>2, <4>1
        <3> QED  BY <3>1, <3>2, <3>3
    <2> QED  BY <2>2, <2>3, <2>5, <2>6 DEF OrderInv
<1>7. ASSUME NEW o \in Operators, NEW s \in Services, Recreate(o, s) \/ RemoveOrphan(o, s)
      PROVE  OrderInv'
    <2>1. cmd[o].pc = "up" /\ UNCHANGED <<cmd, compose, schema, envFile, done, overlap, leapt>>
        BY <1>7 DEF Recreate, RemoveOrphan, At, historyVars
    <2>2. \A t \in Services : container'[t].version \in {container[t].version, compose, 0}
        BY <1>1, <1>7 DEF Recreate, RemoveOrphan, Fresh, None
    <2>3. ~overlap => done = 0
        BY <2>1 DEF OrderInv, SuccessInv
    <2>4. ~overlap => Alone' /\ BringsUpItsOwn' /\ SuccessInv'
        BY <2>1, <2>3 DEF OrderInv, Alone, BringsUpItsOwn, SuccessInv
    <2>5. ~overlap /\ ~leapt => UpIsMigrated' /\ RollbackIsMigrated' /\ RunsMigrated'
        BY <1>1, <2>1, <2>2 DEF OrderInv, UpIsMigrated, RollbackIsMigrated, RunsMigrated
    <2> QED  BY <2>1, <2>4, <2>5 DEF OrderInv, MigrateOnlyMigrates
<1>8. ASSUME NEW o \in Operators, FinishUp(o) PROVE OrderInv'
    <2>1. /\ cmd[o].pc = "up" /\ cmd[o].kind # "migrate" /\ cmd'[o] = Idle
          /\ \A p \in Operators \ {o} : cmd'[p] = cmd[p]
        BY <1>1, <1>8, PhaseOf DEF FinishUp, At, OrderInv, MigrateOnlyMigrates, ReleasePhases
    <2>2. UNCHANGED <<compose, schema, envFile, container, overlap, leapt>>
          /\ done' = cmd[o].version
        BY <1>8 DEF FinishUp, hostVars
    <2>3. MigrateOnlyMigrates'
        BY <2>1, IdleIsCommand DEF OrderInv, MigrateOnlyMigrates
    <2>4. ~overlap => compose = cmd[o].version /\ \A p \in Operators : cmd'[p].pc = "idle"
        BY <2>1, IdleIsCommand DEF OrderInv, Alone, BringsUpItsOwn
    <2>5. ~overlap => Alone' /\ BringsUpItsOwn'
        BY <2>4 DEF Alone, BringsUpItsOwn
    <2>6. ~overlap => SuccessInv'
        BY <1>8, <2>2, <2>4 DEF FinishUp, SuccessInv, Deployed, Current
    <2>7. ~overlap /\ ~leapt => UpIsMigrated' /\ RollbackIsMigrated' /\ RunsMigrated'
        BY <2>1, <2>2, IdleIsCommand DEF OrderInv, UpIsMigrated, RollbackIsMigrated, RunsMigrated
    <2> QED  BY <2>2, <2>3, <2>5, <2>6, <2>7 DEF OrderInv
<1>9. ASSUME NEW o \in Operators, Fail(o) PROVE OrderInv'
    <2>1. cmd'[o] = Idle /\ \A p \in Operators \ {o} : cmd'[p] = cmd[p]
        BY <1>9, PhaseOf DEF Fail, ReleasePhases
    <2>2. UNCHANGED <<compose, schema, envFile, container, done, overlap, leapt>>
        BY <1>9 DEF Fail, hostVars, historyVars
    <2> QED
        BY <2>1, <2>2, IdleIsCommand
        DEF OrderInv, MigrateOnlyMigrates, Alone, BringsUpItsOwn, SuccessInv, Deployed,
            UpIsMigrated, RollbackIsMigrated, RunsMigrated
<1>10. ASSUME NEW s \in Services, NEW health \in {"healthy", "unhealthy"}, Report(s, health)
       PROVE  OrderInv'
    <2>1. UNCHANGED <<cmd, compose, schema, envFile, done, overlap, leapt>>
        BY <1>10 DEF Report, historyVars
    <2>2. \A t \in Services : /\ container'[t].version = container[t].version
                              /\ container'[t].env = container[t].env
                              /\ container'[t] # None <=> container[t] # None
        <3>1. container[s] \in Containers /\ container[s] # None
            BY <1>1, <1>10 DEF Report
        <3>2. container' = [container EXCEPT ![s] = [container[s] EXCEPT !.health = health]]
            BY <1>1, <1>10 DEF Report
        <3>3. [container[s] EXCEPT !.health = health].health # None.health
            BY <3>1 DEF Containers, None
        <3> QED  BY <1>1, <3>1, <3>2, <3>3 DEF Containers
    <2>3. Deployed' = Deployed
        BY <2>2 DEF Deployed
    <2>4. SuccessInv => SuccessInv'
        <3>1. done # 0 => done \in Versions
            BY FixedShapeAssumption DEF ReleaseTypeOK, Versions
        <3>2. done # 0 => Shape[done] \subseteq Services
            BY <3>1, FixedShapeAssumption
        <3>3. done' = done /\ cmd' = cmd /\ envFile' = envFile
            BY <2>1
        <3> QED  BY <2>2, <2>3, <3>2, <3>3 DEF SuccessInv
    <2> QED
        BY <2>1, <2>2, <2>4
        DEF OrderInv, MigrateOnlyMigrates, Alone, BringsUpItsOwn, UpIsMigrated,
            RollbackIsMigrated, RunsMigrated
<1>11. ASSUME UNCHANGED <<cmd, compose, schema, envFile, container, done, overlap, leapt>>
       PROVE  OrderInv'
    BY <1>11
    DEF OrderInv, MigrateOnlyMigrates, Alone, BringsUpItsOwn, SuccessInv, Deployed,
        UpIsMigrated, RollbackIsMigrated, RunsMigrated
<1> QED
    BY <1>2, <1>3, <1>4, <1>5, <1>6, <1>7, <1>8, <1>9, <1>10, <1>11
    DEF ReleaseNext, ReleaseStep, Bump, hostVars, historyVars, releaseVars

-----------------------------------------------------------------------------
(* The logins.                                                              *)

\* A staged store has what its version declares, and so has what is rendered
\* from it, while the command is alone; a container that was given a credential
\* was started beside an engine that has its volume.
StagedForAll ==
    \A o \in Operators : cmd[o].pc \in {"compose", "tte", "env"} =>
        \A k \in Declares[cmd[o].version] : cmd[o].tte[k] # NoValue
RenderedForAll ==
    \A o \in Operators : cmd[o].kind # "migrate" /\ cmd[o].pc \in {"migrate", "up"} =>
        \A k \in Declares[cmd[o].version] : envFile[k] # NoValue
DoneForAll == done # 0 => \A k \in Declares[done] : envFile[k] # NoValue
VolumeMade ==
    \A s \in Services : container[s].version # 0 =>
        \A k \in Declares[container[s].version] :
            container[s].env[k] # NoValue => volume[k] # NoValue

LoginInv == StagedForAll /\ VolumeMade /\ (~overlap => RenderedForAll /\ DoneForAll)

LEMMA LoginInit == ReleaseInit => LoginInv
BY DEF ReleaseInit, LoginInv, StagedForAll, VolumeMade, RenderedForAll, DoneForAll, Idle, None

\* Starting engines keeps the volumes there are.
LEMMA VolumesStay ==
    ASSUME ReleaseTypeOK, volume' = EnginesStarted
    PROVE  /\ \A k \in Keys : volume[k] # NoValue => volume'[k] = volume[k]
           /\ \A k \in Keys : k \in Declares[compose] /\ envFile[k] # NoValue => volume'[k] # NoValue
BY DEF EnginesStarted

LEMMA LoginStep ==
    ASSUME ReleaseTypeOK, OrderInv, LoginInv, [ReleaseNext]_releaseVars
    PROVE  LoginInv'
<1>1. /\ ReleaseTypeOK' /\ cmd' \in [Operators -> Commands] /\ cmd \in [Operators -> Commands]
      /\ container \in [Services -> Containers] /\ container' \in [Services -> Containers]
    BY ReleaseStepType DEF ReleaseTypeOK, Commands, Containers
<1>2. \A v \in 0..MaxVersion : v # 0 => Declares[v] \subseteq Keys
    BY FixedShapeAssumption DEF Versions
<1>3. \A o \in Operators : cmd[o].version \in 0..MaxVersion /\ cmd[o].version # 0
    BY <1>1, FixedShapeAssumption DEF Commands, Versions
<1>4. ASSUME NEW o \in Operators, NEW kind \in Kinds, Begin(o, kind) PROVE LoginInv'
    <2>1. /\ cmd'[o].kind = kind /\ cmd'[o].pc = (IF kind = "migrate" THEN "migrate" ELSE "read")
          /\ \A p \in Operators \ {o} : cmd'[p] = cmd[p]
        BY <1>1, <1>4 DEF Begin
    <2>2. UNCHANGED <<container, envFile, volume>> /\ done' = 0 /\ (~overlap' => ~overlap)
        BY <1>4 DEF Begin, hostVars
    <2> QED
        BY <2>1, <2>2 DEF LoginInv, StagedForAll, VolumeMade, RenderedForAll, DoneForAll
<1>5. ASSUME NEW o \in Operators, ReadHostStore(o) \/ ReadMasked(o) PROVE LoginInv'
    <2>1. PICK seen \in Credentials : StageStore(o, seen)
        BY <1>5, NothingIsCredentials DEF ReadHostStore, ReadMasked, ReleaseTypeOK
    <2>2. /\ cmd'[o].tte = Superset(cmd[o].version, seen, tally.values + 1)
          /\ cmd'[o].pc = "compose" /\ cmd'[o].version = cmd[o].version
          /\ \A p \in Operators \ {o} : cmd'[p] = cmd[p]
        BY <2>1, StageType
    <2>3. tally.values + 1 # NoValue
        BY DEF ReleaseTypeOK, NoValue
    <2>4. \A k \in Declares[cmd[o].version] : cmd'[o].tte[k] # NoValue
        BY <1>2, <1>3, <2>2, <2>3 DEF Superset
    <2>5. UNCHANGED <<container, envFile, volume, done, overlap>>
        BY <1>5 DEF ReadHostStore, ReadMasked, hostVars
    <2> QED
        BY <2>2, <2>4, <2>5 DEF LoginInv, StagedForAll, VolumeMade, RenderedForAll, DoneForAll
<1>6. ASSUME NEW o \in Operators, RenderCompose(o) \/ RenderStore(o) PROVE LoginInv'
    <2>1. /\ cmd[o].pc \in {"compose", "tte"} /\ cmd'[o].pc \in {"tte", "env"}
          /\ cmd'[o].tte = cmd[o].tte /\ cmd'[o].version = cmd[o].version
          /\ \A p \in Operators \ {o} : cmd'[p] = cmd[p]
        BY <1>6, PhaseOf DEF RenderCompose, RenderStore, At, ReleasePhases
    <2>2. UNCHANGED <<container, envFile, volume, done, overlap>>
        BY <1>6 DEF RenderCompose, RenderStore, historyVars
    <2> QED
        BY <2>1, <2>2 DEF LoginInv, StagedForAll, VolumeMade, RenderedForAll, DoneForAll
<1>7. ASSUME NEW o \in Operators, RenderEnv(o) PROVE LoginInv'
    <2>1. /\ cmd[o].pc = "env" /\ cmd'[o].pc \in {"up", "migrate"}
          /\ cmd'[o].version = cmd[o].version /\ \A p \in Operators \ {o} : cmd'[p] = cmd[p]
        BY <1>7, PhaseOf DEF RenderEnv, At, ReleasePhases
    <2>2. UNCHANGED <<container, volume, done, overlap>>
        BY <1>7 DEF RenderEnv, historyVars
    <2>3. \A k \in Declares[cmd[o].version] : envFile'[k] # NoValue
        BY <1>2, <1>3, <1>7, <2>1 DEF RenderEnv, LoginInv, StagedForAll
    <2>4. ~overlap => done = 0 /\ \A p \in Operators \ {o} : cmd[p].pc = "idle"
        BY <2>1 DEF OrderInv, Alone, SuccessInv
    <2> QED
        BY <2>1, <2>2, <2>3, <2>4
        DEF LoginInv, StagedForAll, VolumeMade, RenderedForAll, DoneForAll
<1>8. ASSUME NEW o \in Operators, Migrate(o) PROVE LoginInv'
    <2>1. /\ cmd[o].pc = "migrate" /\ \A p \in Operators \ {o} : cmd'[p] = cmd[p]
          /\ \/ cmd'[o] = Idle
             \/ /\ cmd[o].kind # "migrate" /\ cmd'[o].pc = "up"
                /\ cmd'[o].kind = cmd[o].kind /\ cmd'[o].version = cmd[o].version
        BY <1>1, <1>8, PhaseOf DEF Migrate, At, ReleasePhases
    <2>2. UNCHANGED <<container, envFile, done, overlap>> /\ volume' = EnginesStarted
        BY <1>8 DEF Migrate, historyVars
    <2>3. VolumeMade'
        BY <1>1, <1>2, <2>2, VolumesStay DEF LoginInv, VolumeMade, Containers
    <2> QED
        BY <2>1, <2>2, <2>3, IdleIsCommand DEF LoginInv, StagedForAll, RenderedForAll, DoneForAll
<1>9. ASSUME NEW o \in Operators, NEW s \in Services, Recreate(o, s) PROVE LoginInv'
    <2>1. UNCHANGED <<cmd, envFile, done, overlap, compose>> /\ volume' = EnginesStarted
        BY <1>9 DEF Recreate, historyVars
    <2>2. /\ container'[s].version = compose /\ container'[s].env = envFile
          /\ \A r \in Services \ {s} : container'[r] = container[r]
        BY <1>1, <1>9 DEF Recreate, Fresh
    <2>3. compose \in 0..MaxVersion  BY DEF ReleaseTypeOK
    <2>4. VolumeMade'
        BY <1>1, <1>2, <2>1, <2>2, <2>3, VolumesStay DEF LoginInv, VolumeMade, Containers
    <2> QED  BY <2>1, <2>4 DEF LoginInv, StagedForAll, RenderedForAll, DoneForAll
<1>10. ASSUME NEW o \in Operators, NEW s \in Services, RemoveOrphan(o, s) PROVE LoginInv'
    <2>1. UNCHANGED <<cmd, envFile, volume, done, overlap>>
        BY <1>10 DEF RemoveOrphan, historyVars
    <2>2. container'[s].version = 0 /\ \A r \in Services \ {s} : container'[r] = container[r]
        BY <1>1, <1>10 DEF RemoveOrphan, None
    <2> QED
        BY <2>1, <2>2 DEF LoginInv, StagedForAll, VolumeMade, RenderedForAll, DoneForAll
<1>11. ASSUME NEW o \in Operators, FinishUp(o) PROVE LoginInv'
    <2>1. /\ cmd[o].pc = "up" /\ cmd[o].kind # "migrate" /\ cmd'[o] = Idle
          /\ \A p \in Operators \ {o} : cmd'[p] = cmd[p]
        BY <1>1, <1>11, PhaseOf DEF FinishUp, At, OrderInv, MigrateOnlyMigrates, ReleasePhases
    <2>2. UNCHANGED <<container, envFile, volume, overlap>> /\ done' = cmd[o].version
        BY <1>11 DEF FinishUp, hostVars
    <2>3. ~overlap => DoneForAll'
        BY <2>1, <2>2 DEF LoginInv, RenderedForAll, DoneForAll
    <2> QED
        BY <2>1, <2>2, <2>3, IdleIsCommand DEF LoginInv, StagedForAll, VolumeMade, RenderedForAll
<1>12. ASSUME NEW o \in Operators, Fail(o) PROVE LoginInv'
    <2>1. cmd'[o] = Idle /\ \A p \in Operators \ {o} : cmd'[p] = cmd[p]
        BY <1>12, PhaseOf DEF Fail, ReleasePhases
    <2>2. UNCHANGED <<container, envFile, volume, done, overlap>>
        BY <1>12 DEF Fail, hostVars, historyVars
    <2> QED
        BY <2>1, <2>2, IdleIsCommand
        DEF LoginInv, StagedForAll, VolumeMade, RenderedForAll, DoneForAll
<1>13. ASSUME NEW s \in Services, NEW health \in {"healthy", "unhealthy"}, Report(s, health)
       PROVE  LoginInv'
    <2>1. UNCHANGED <<cmd, envFile, volume, done, overlap>>
        BY <1>13 DEF Report, historyVars
    <2>2. \A t \in Services : /\ container'[t].version = container[t].version
                              /\ container'[t].env = container[t].env
        BY <1>1, <1>13 DEF Report, Containers
    <2> QED
        BY <2>1, <2>2 DEF LoginInv, StagedForAll, VolumeMade, RenderedForAll, DoneForAll
<1>14. ASSUME UNCHANGED <<cmd, envFile, volume, container, done, overlap>> PROVE LoginInv'
    BY <1>14 DEF LoginInv, StagedForAll, VolumeMade, RenderedForAll, DoneForAll
<1> QED
    BY <1>4, <1>5, <1>6, <1>7, <1>8, <1>9, <1>10, <1>11, <1>12, <1>13, <1>14
    DEF ReleaseNext, ReleaseStep, Bump, hostVars, historyVars, releaseVars

----------------------------------------------------------------------------
(* The gate and ECS beside them.                                           *)

Gates == [pc : GatePhases, version : Versions, todo : SUBSET Services,
          svc : Services \cup {NoGate.svc}, arns : SUBSET TaskIds, again : BOOLEAN]

\* The gate and ECS leave the host alone; they count faults and commands.
Beside == UNCHANGED <<project, hostVars, cmd, historyVars>> /\ tally' \in Tallies

LEMMA ReleaseBeside ==
    ASSUME ReleaseTypeOK, Beside
    PROVE  ReleaseTypeOK' /\ (StoreInv => StoreInv') /\ (OrderInv => OrderInv')
           /\ (LoginInv => LoginInv')
<1>1. UNCHANGED <<project, compose, tteFile, envFile, volume, schema, container, cmd, done,
                  overlap, leapt, clobbered>>
    BY DEF Beside, hostVars, historyVars
<1>2. ReleaseTypeOK'
    BY <1>1 DEF Beside, ReleaseTypeOK, Tallies
<1>3. StoreInv => StoreInv'
    BY <1>1 DEF StoreInv, StagersAgree, StagedIsSuperset, StoredStays, RenderedIsStored, Staging
<1>4. OrderInv => OrderInv'
    BY <1>1 DEF OrderInv, MigrateOnlyMigrates, Alone, BringsUpItsOwn, SuccessInv, Deployed,
                UpIsMigrated, RollbackIsMigrated, RunsMigrated
<1>5. LoginInv => LoginInv'
    BY <1>1 DEF LoginInv, StagedForAll, VolumeMade, RenderedForAll, DoneForAll
<1> QED  BY <1>2, <1>3, <1>4, <1>5

LEMMA FaultsType ==
    ASSUME ReleaseTypeOK
    PROVE  [tally EXCEPT !.faults = @ + 1] \in Tallies
BY DEF ReleaseTypeOK, Tallies

LEMMA NoGateType == NoGate \in Gates
<1>1. 1 \in Versions  BY FixedShapeAssumption DEF Versions
<1> QED  BY <1>1 DEF NoGate, Gates, GatePhases

LEMMA NeverType == Never \in Tasks /\ Gone \in Tasks /\ Gone.last = "STOPPED"
<1>1. Never \in Tasks  BY FixedShapeAssumption DEF Never, Tasks
<1> QED  BY <1>1 DEF Gone, Tasks

LEMMA InitType == Init => TypeOK
<1> SUFFICES ASSUME Init PROVE TypeOK  OBVIOUS
<1>1. ReleaseTypeOK  BY ReleaseInitType DEF Init
<1>2. Never \in Tasks  BY NeverType
<1>3. gate \in Gates /\ gate.pc = "idle"  BY NoGateType DEF Init, NoGate
<1>4. wanted \in 0..MaxVersion /\ certified \in 0..MaxVersion /\ primary \in [Services -> 0..MaxVersion]
    BY FixedShapeAssumption DEF Init
<1>5. task \in [Services -> [TaskIds -> Tasks]]  BY <1>2 DEF Init
<1> QED  BY <1>1, <1>3, <1>4, <1>5 DEF Init, TypeOK, Gates

-----------------------------------------------------------------------------
(* Types.                                                                   *)

EcsType == wanted \in 0..MaxVersion /\ primary \in [Services -> 0..MaxVersion]
           /\ task \in [Services -> [TaskIds -> Tasks]]
GateType == gate \in Gates /\ (gate.pc = "describe" => gate.svc \in Services)
            /\ certified \in 0..MaxVersion /\ calm \in BOOLEAN /\ seenUp \subseteq Services

LEMMA SetTaskType ==
    ASSUME TypeOK, NEW s \in Services, NEW i \in TaskIds, NEW t \in Tasks, SetTask(s, i, t)
    PROVE  task' \in [Services -> [TaskIds -> Tasks]]
<1>1. [task[s] EXCEPT ![i] = t] \in [TaskIds -> Tasks]  BY DEF TypeOK
<1>2. task' = [task EXCEPT ![s] = [task[s] EXCEPT ![i] = t]]  BY DEF SetTask
<1> QED  BY <1>1, <1>2 DEF TypeOK

LEMMA EcsStepType ==
    ASSUME TypeOK, EcsStep
    PROVE  Beside /\ EcsType' /\ foundation' = foundation /\ GateType'
<1>0. /\ tally \in Tallies /\ EcsType /\ GateType /\ project \in Versions
      /\ task \in [Services -> [TaskIds -> Tasks]]
    BY DEF TypeOK, ReleaseTypeOK, EcsType, GateType, Gates, Tallies
<1> SUFFICES Beside /\ EcsType' /\ foundation' = foundation /\ UNCHANGED <<gate, certified, seenUp>>
             /\ calm' \in {calm, FALSE}
    BY <1>0 DEF GateType
<1>1. ASSUME NEW v \in Versions, Deploy(v)
      PROVE  Beside /\ EcsType' /\ foundation' = foundation /\ UNCHANGED <<gate, certified, seenUp>>
             /\ calm' \in {calm, FALSE}
    <2>1. tally' \in Tallies  BY <1>1, TallyType DEF Deploy, TypeOK
    <2>2. wanted' \in 0..MaxVersion  BY <1>1 DEF Deploy, Versions
    <2> QED  BY <1>0, <1>1, <2>1, <2>2 DEF Deploy, Beside, EcsType
<1>2. ASSUME NEW s \in Services, Roll(s)
      PROVE  Beside /\ EcsType' /\ foundation' = foundation /\ UNCHANGED <<gate, certified, seenUp>>
             /\ calm' \in {calm, FALSE}
    <2>1. UNCHANGED <<project, hostVars, cmd, historyVars, tally>>
        BY <1>2 DEF Roll, releaseVars
    <2> QED  BY <1>0, <1>2, <2>1 DEF Roll, Beside, EcsType
<1>3. ASSUME NEW s \in Services, NEW i \in TaskIds, NEW t \in Tasks, SetTask(s, i, t),
             UNCHANGED <<project, hostVars, cmd, historyVars, foundation, wanted, primary, gateVars>>,
             tally' \in Tallies
      PROVE  Beside /\ EcsType' /\ foundation' = foundation /\ UNCHANGED <<gate, certified, seenUp>>
             /\ calm' \in {calm, FALSE}
    BY <1>0, <1>3, SetTaskType DEF Beside, EcsType, gateVars
<1>4. ASSUME NEW s \in Services, NEW i \in TaskIds,
             Place(s, i) \/ Start(s, i) \/ Drain(s, i) \/ Lose(s, i) \/ Stopped(s, i)
             \/ \E health \in {"HEALTHY", "UNHEALTHY"} : Judged(s, i, health)
      PROVE  \E t \in Tasks : SetTask(s, i, t)
    <2>1. task[s][i] \in Tasks /\ primary[s] \in 0..MaxVersion
        BY <1>0 DEF EcsType
    <2>2. CASE Place(s, i)
        <3> DEFINE t == [version |-> primary[s], last |-> "PENDING", kept |-> TRUE, health |-> "UNKNOWN"]
        <3>1. t \in Tasks  BY <2>1 DEF Tasks
        <3> QED  BY <2>2, <3>1 DEF Place
    <2>3. CASE Start(s, i) \/ Drain(s, i) \/ Lose(s, i)
        <3>1. /\ [task[s][i] EXCEPT !.last = "RUNNING"] \in Tasks
              /\ [task[s][i] EXCEPT !.kept = FALSE] \in Tasks
            BY <2>1 DEF Tasks
        <3>2. SetTask(s, i, [task[s][i] EXCEPT !.last = "RUNNING"])
              \/ SetTask(s, i, [task[s][i] EXCEPT !.kept = FALSE])
            BY <2>3 DEF Start, Drain, Lose
        <3> QED  BY <3>1, <3>2
    <2>4. CASE Stopped(s, i)
        BY <2>4, NeverType DEF Stopped
    <2>5. ASSUME NEW health \in {"HEALTHY", "UNHEALTHY"}, Judged(s, i, health)
          PROVE  \E t \in Tasks : SetTask(s, i, t)
        <3>1. [task[s][i] EXCEPT !.health = health] \in Tasks  BY <2>1 DEF Tasks
        <3> QED  BY <2>5, <3>1 DEF Judged
    <2> QED  BY <1>4, <2>2, <2>3, <2>4, <2>5
<1>5. ASSUME NEW s \in Services, NEW i \in TaskIds,
             Place(s, i) \/ Start(s, i) \/ Drain(s, i) \/ Stopped(s, i)
             \/ \E health \in {"HEALTHY", "UNHEALTHY"} : Judged(s, i, health)
      PROVE  UNCHANGED <<project, hostVars, cmd, historyVars, foundation, wanted, primary, gateVars>>
             /\ tally' \in Tallies
    BY <1>0, <1>5 DEF Place, Start, Drain, Stopped, Judged, EcsOnly, releaseVars
<1>6. ASSUME NEW s \in Services, NEW i \in TaskIds, Lose(s, i)
      PROVE  UNCHANGED <<project, hostVars, cmd, historyVars, foundation, wanted, primary, gateVars>>
             /\ tally' \in Tallies
    BY <1>0, <1>6, FaultsType DEF Lose, TypeOK
<1> QED  BY <1>1, <1>2, <1>3, <1>4, <1>5, <1>6 DEF EcsStep

LEMMA GateStepType ==
    ASSUME TypeOK, GateStep
    PROVE  Beside /\ EcsType' /\ foundation' = foundation /\ GateType'
           /\ UNCHANGED task
<1>0. /\ tally \in Tallies /\ EcsType /\ GateType /\ gate \in Gates /\ project \in Versions
      /\ task \in [Services -> [TaskIds -> Tasks]]
    BY DEF TypeOK, ReleaseTypeOK, EcsType, GateType, Gates, Tallies
<1>1. ASSUME WorldStays PROVE Beside /\ EcsType' /\ foundation' = foundation /\ UNCHANGED task
    BY <1>0, <1>1 DEF WorldStays, releaseVars, ecsVars, Beside, EcsType
<1>2. Reject => gate' \in Gates /\ gate'.pc = "idle" /\ UNCHANGED <<certified, calm>>
    BY NoGateType DEF Reject, NoGate
<1>3. ASSUME NEW s, Passed(s) PROVE gate' \in Gates /\ gate'.pc = "next"
    BY <1>0, <1>3, NoGateType DEF Passed, Gates, GatePhases, NoGate
<1>4. CASE BeginStagetest
    <2>1. Shape[project] \subseteq Services  BY <1>0, FixedShapeAssumption
    <2>2. gate' \in Gates /\ gate'.pc = "next"
        BY <1>0, <1>4, <2>1, NoGateType DEF BeginStagetest, Gates, GatePhases, NoGate
    <2>3. GateType'
        BY <1>4, <2>2, FixedShapeAssumption DEF BeginStagetest, GateType
    <2> QED  BY <1>1, <1>4, <2>3 DEF BeginStagetest
<1>5. CASE GateFails
    <2>1. GateType'  BY <1>0, <1>2, <1>5 DEF GateFails, GateType
    <2>2. tally' \in Tallies  BY <1>5, TallyType DEF GateFails, TypeOK
    <2> QED  BY <1>0, <1>5, <2>1, <2>2 DEF GateFails, Beside, EcsType, ecsVars
<1>6. ASSUME NEW lost \in SUBSET TaskIds, Describe(lost)
      PROVE  GateType' /\ WorldStays
    <2>1. gate.svc \in Services
        BY <1>0, <1>6 DEF Describe, GateAt, GateType
    <2>2. /\ [gate EXCEPT !.pc = "relist", !.arns = {}] \in Gates
          /\ [gate EXCEPT !.pc = "relist", !.arns = {}].pc = "relist"
        BY <1>0 DEF Gates, GatePhases
    <2>3. Reread => gate' \in Gates /\ gate'.pc # "describe" /\ UNCHANGED <<certified, calm>>
        BY <1>2, <2>2 DEF Reread
    <2>4. gate' \in Gates /\ gate'.pc # "describe" /\ UNCHANGED <<certified, calm>>
        BY <1>2, <1>3, <1>6, <2>3 DEF Describe
    <2>5. seenUp' \in {seenUp, seenUp \cup {gate.svc}}
        BY <1>6 DEF Describe
    <2>6. GateType'
        BY <1>0, <2>1, <2>4, <2>5 DEF GateType
    <2> QED  BY <1>6, <2>6 DEF Describe
<1>7. ASSUME NEW s \in Services, Inspect(s) \/ List(s)
      PROVE  GateType' /\ WorldStays
    <2>1. CASE Inspect(s)  BY <1>0, <1>2, <1>3, <2>1 DEF Inspect, GateType
    <2>2. CASE List(s)
        <3>1. Kept(s) \subseteq TaskIds  BY DEF Kept
        <3>2. gate' \in Gates /\ (gate'.pc = "describe" => gate'.svc \in Services)
              /\ UNCHANGED <<certified, calm, seenUp>>
            BY ZenonT(40), <1>0, <1>2, <2>2, <3>1 DEF List, Gates, GatePhases, GateAt
        <3> QED  BY <1>0, <2>2, <3>2 DEF List, GateType
    <2> QED  BY <1>7, <2>1, <2>2
<1>8. ASSUME NEW passes \in BOOLEAN, RunTester(passes)
      PROVE  GateType' /\ WorldStays
    <2>1. gate.version \in 0..MaxVersion  BY <1>0 DEF Gates, Versions
    <2> QED  BY <1>0, <1>8, <2>1, NoGateType, FixedShapeAssumption DEF RunTester, GateType, NoGate
<1> QED  BY <1>1, <1>4, <1>5, <1>6, <1>7, <1>8 DEF GateStep

LEMMA StepType ==
    ASSUME TypeOK, [Next]_vars
    PROVE  TypeOK'
<1>1. CASE HostStep
    <2>1. ReleaseTypeOK'  BY <1>1, ReleaseStepType DEF HostStep, TypeOK
    <2> QED  BY <1>1, <2>1 DEF HostStep, TypeOK, ecsVars
<1>2. CASE ProjectMoves
    <2>1. ReleaseTypeOK'
        BY <1>2, ReleaseStepType DEF ProjectMoves, TypeOK, ReleaseNext
    <2> QED  BY <1>2, <2>1 DEF ProjectMoves, TypeOK, ecsVars, gateVars
<1>3. CASE EcsStep
    BY <1>3, EcsStepType, ReleaseBeside DEF TypeOK, EcsType, GateType, Gates
<1>4. CASE GateStep
    BY <1>4, GateStepType, ReleaseBeside DEF TypeOK, EcsType, GateType, Gates
<1>5. CASE UNCHANGED vars
    <2>1. ReleaseTypeOK'  BY <1>5, ReleaseStepType DEF vars, TypeOK
    <2> QED  BY <1>5, <2>1 DEF vars, TypeOK, ecsVars, gateVars
<1> QED  BY <1>1, <1>2, <1>3, <1>4, <1>5 DEF Next

\* Every variable of the host, of ECS and of the gate keeps its type.
THEOREM TypeCorrect == Spec => []TypeOK
<1> QED  BY InitType, StepType, PTL DEF Spec

-----------------------------------------------------------------------------
(* The host.                                                                *)

HostInv == TypeOK /\ StoreInv /\ OrderInv /\ LoginInv

LEMMA HostInit == Init => HostInv
BY InitType, StoreInit, OrderInit, LoginInit DEF Init, HostInv

LEMMA HostStays ==
    ASSUME HostInv, [Next]_vars
    PROVE  HostInv'
<1>1. TypeOK'  BY StepType DEF HostInv
<1>2. CASE HostStep \/ ProjectMoves \/ UNCHANGED vars
    <2>1. [ReleaseNext]_releaseVars
        BY <1>2 DEF HostStep, ProjectMoves, ReleaseNext, vars
    <2> QED  BY <1>1, <2>1, StoreStep, OrderStep, LoginStep DEF HostInv, TypeOK
<1>3. CASE EcsStep \/ GateStep
    BY <1>1, <1>3, EcsStepType, GateStepType, ReleaseBeside DEF HostInv, TypeOK
<1> QED  BY <1>2, <1>3 DEF Next

\* The credential an engine's volume was made with stays in the host's store
\* for any number of operators, keys, versions and interrupted commands.
THEOREM CredentialKept == Spec => []HostCredentialKept
<1>1. HostInv => HostCredentialKept
    BY DEF HostInv, StoreInv, HostCredentialKept
<1> QED  BY <1>1, HostInit, HostStays, PTL DEF Spec

\* No container runs ahead of its schema, wherever commands are broken off.
THEOREM SchemaComesFirst == Spec => []FixedSchemaBeforeCode
<1>1. HostInv => FixedSchemaBeforeCode
    BY DEF HostInv, OrderInv, RunsMigrated, FixedSchemaBeforeCode
<1> QED  BY <1>1, HostInit, HostStays, PTL DEF Spec

\* Whatever a release or rollback that reported success deployed can log in to
\* its engines: the volume of each was made with the credential it was given.
THEOREM DeployedLogsIn == Spec => []DeployedCanLogIn
<1>1. HostInv => DeployedCanLogIn
    <2> SUFFICES ASSUME HostInv, done # 0, ~overlap, ~clobbered,
                        NEW s \in Shape[done], NEW k \in Declares[done]
                 PROVE  container[s].env[k] # NoValue /\ container[s].env[k] = volume[k]
        BY DEF DeployedCanLogIn
    <2>1. done \in Versions
        BY FixedShapeAssumption DEF HostInv, TypeOK, ReleaseTypeOK, Versions
    <2>2. s \in Services /\ k \in Keys
        BY <2>1, FixedShapeAssumption
    <2>3. container[s].version = done /\ container[s].env = envFile
        BY DEF HostInv, OrderInv, SuccessInv
    <2>4. envFile[k] # NoValue
        BY DEF HostInv, LoginInv, DoneForAll
    <2>5. volume[k] # NoValue
        BY <2>2, <2>3, <2>4 DEF HostInv, LoginInv, VolumeMade
    <2>6. tteFile[k] = envFile[k] /\ tteFile[k] = volume[k]
        BY <2>2, <2>4, <2>5 DEF HostInv, StoreInv, RenderedIsStored
    <2> QED  BY <2>3, <2>4, <2>6
<1> QED  BY <1>1, HostInit, HostStays, PTL DEF Spec

-----------------------------------------------------------------------------
(* The certificate.                                                         *)

\* What the gate has vouched for so far, and of which version; once it has
\* ended, what its certificate is about.
Vouched ==
    IF ~GateAt("idle") THEN Shape[gate.version] \ gate.todo
    ELSE IF certified = 0 THEN {} ELSE Shape[certified]
Claim == IF GateAt("idle") THEN certified ELSE gate.version

GateIsOwn ==
    /\ ~GateAt("idle") => certified = 0 /\ Shape[gate.version] # {}
    /\ certified # 0 => Shape[certified] # {}
    /\ GateAt("describe") => gate.arns # {}
    /\ GateAt("describe") \/ GateAt("relist") => foundation = "elastic"
CalmIsIdle == calm => \A o \in Operators : At(o, "idle")

\* While no one deploys, what the gate has read stays what it read: nothing
\* recreates a container, and a task placed since is of the one deployment.
HostVouched ==
    (calm /\ foundation = "fixed") => \A s \in Vouched : container[s].version = Claim
TasksVouched ==
    (calm /\ foundation = "elastic") =>
        \A s \in Vouched : \A i \in Kept(s) : task[s][i].version \in {Claim, primary[s]}
ListedOrNew ==
    (calm /\ GateAt("describe")) =>
        \A s \in Services : \A i \in Kept(s) :
            s = gate.svc => i \in gate.arns \/ task[s][i].version = primary[s]

CertInv ==
    /\ GateIsOwn /\ Vouched \subseteq seenUp /\ CalmIsIdle
    /\ HostVouched /\ TasksVouched /\ ListedOrNew

\* The gate vouches for services of its version only.
LEMMA VouchedOfServices == TypeOK => Vouched \subseteq Services
<1> SUFFICES ASSUME TypeOK PROVE Vouched \subseteq Services  OBVIOUS
<1>1. gate.version \in Versions /\ (certified # 0 => certified \in Versions)
    BY FixedShapeAssumption DEF TypeOK, Versions
<1> QED  BY <1>1, FixedShapeAssumption DEF Vouched

\* A step of the world leaves what was vouched for as it is.
LEMMA WorldVouched ==
    ASSUME TypeOK, CertInv, UNCHANGED <<gate, certified, seenUp, foundation>>,
           calm' => calm /\ UNCHANGED <<cmd, primary>>,
           calm' /\ foundation = "fixed" =>
               \A s \in Services : container'[s].version = container[s].version,
           calm' => \A s \in Services, i \in TaskIds : task'[s][i].kept =>
               \/ task[s][i].kept /\ task'[s][i].version = task[s][i].version
               \/ task'[s][i].version = primary[s]
    PROVE  CertInv'
<1>1. Vouched' = Vouched /\ Claim' = Claim /\ GateIsOwn'
    BY DEF Vouched, Claim, GateIsOwn, GateAt, CertInv
<1>2. Vouched \subseteq Services  BY VouchedOfServices
<1>3. CalmIsIdle'
    BY DEF CertInv, CalmIsIdle, At
<1>4. HostVouched'
    BY <1>1, <1>2 DEF CertInv, HostVouched
<1>5. TasksVouched'
    <2> SUFFICES ASSUME calm', foundation = "elastic", NEW s \in Vouched,
                        NEW i \in TaskIds, task'[s][i].kept
                 PROVE  task'[s][i].version \in {Claim, primary[s]}
        BY <1>1 DEF TasksVouched, Kept
    <2>1. s \in Services /\ (task[s][i].kept => task[s][i].version \in {Claim, primary[s]})
        BY <1>2 DEF CertInv, TasksVouched, Kept
    <2> QED  BY <2>1
<1>6. ListedOrNew'
    <2> SUFFICES ASSUME calm', GateAt("describe"), NEW s \in Services, s = gate.svc,
                        NEW i \in TaskIds, task'[s][i].kept
                 PROVE  i \in gate.arns \/ task'[s][i].version = primary[s]
        BY DEF ListedOrNew, Kept, GateAt
    <2>1. task[s][i].kept => i \in gate.arns \/ task[s][i].version = primary[s]
        BY DEF CertInv, ListedOrNew, Kept
    <2> QED  BY <2>1
<1> QED  BY <1>1, <1>3, <1>4, <1>5, <1>6 DEF CertInv

\* With every command idle, a release that begins ends the calm, and health
\* is all that changes on the host.
LEMMA HostVouches ==
    ASSUME TypeOK, CertInv, HostStep
    PROVE  CertInv'
<1>1. /\ ReleaseNext /\ calm' = (calm /\ cmd' = cmd) /\ foundation = "fixed"
      /\ UNCHANGED <<foundation, wanted, primary, task, gate, certified, seenUp>>
    BY DEF HostStep, ecsVars
<1>2. ASSUME calm' PROVE \A s \in Services : container'[s].version = container[s].version
    <2>1. /\ cmd' = cmd /\ \A o \in Operators : cmd[o].pc = "idle"
        BY <1>1, <1>2 DEF CertInv, CalmIsIdle, At
    <2>2. ASSUME NEW o \in Operators, NEW kind \in Kinds, Begin(o, kind) PROVE FALSE
        <3>1. cmd'[o].pc \in {"migrate", "read"}
            BY <2>2 DEF Begin, TypeOK, ReleaseTypeOK
        <3> QED  BY <2>1, <3>1
    <2>3. ASSUME NEW o \in Operators, ReleaseStep(o) \/ Fail(o) PROVE FALSE
        BY <2>1, <2>3
        DEF ReleaseStep, Fail, ReadHostStore, ReadMasked, RenderCompose, RenderStore, RenderEnv, Migrate,
            Recreate, RemoveOrphan, FinishUp, At
    <2>4. CASE Bump
        BY <2>4 DEF Bump, hostVars
    <2>5. ASSUME NEW s \in Services, NEW health \in {"healthy", "unhealthy"}, Report(s, health)
          PROVE  \A r \in Services : container'[r].version = container[r].version
        <3>1. container' = [container EXCEPT ![s] = [container[s] EXCEPT !.health = health]]
            BY <2>5 DEF Report
        <3>2. [container[s] EXCEPT !.health = health].version = container[s].version
            BY DEF TypeOK, ReleaseTypeOK
        <3> QED  BY <3>1, <3>2 DEF TypeOK, ReleaseTypeOK
    <2> QED  BY <1>1, <2>2, <2>3, <2>4, <2>5 DEF ReleaseNext
<1> QED  BY <1>1, <1>2, WorldVouched

\* A deployment ends the calm; without one, the only new tasks are of the one
\* there is.
LEMMA EcsVouches ==
    ASSUME TypeOK, CertInv, EcsStep
    PROVE  CertInv'
<1>1. ASSUME (\E v \in Versions : Deploy(v)) \/ (\E s \in Services : Roll(s)) PROVE CertInv'
    BY <1>1, WorldVouched DEF Deploy, Roll
<1>2. ASSUME NEW s \in Services, NEW i \in TaskIds, NEW t \in Tasks, SetTask(s, i, t),
             UNCHANGED <<foundation, primary, gateVars, cmd, container>>,
             t.kept => \/ task[s][i].kept /\ t.version = task[s][i].version
                       \/ t.version = primary[s]
      PROVE  CertInv'
    <2>1. UNCHANGED <<gate, certified, seenUp, calm>>  BY <1>2 DEF gateVars
    <2>2. /\ \A r \in Services \ {s} : task'[r] = task[r]
          /\ \A j \in TaskIds \ {i} : task'[s][j] = task[s][j]
          /\ task'[s][i] = t
        BY <1>2 DEF SetTask, TypeOK
    <2>3. \A r \in Services, j \in TaskIds : task'[r][j].kept =>
              \/ task[r][j].kept /\ task'[r][j].version = task[r][j].version
              \/ task'[r][j].version = primary[r]
        BY <1>2, <2>2
    <2> QED  BY <1>2, <2>1, <2>3, WorldVouched
<1>3. ASSUME NEW s \in Services, NEW i \in TaskIds,
             Place(s, i) \/ Start(s, i) \/ Drain(s, i) \/ Lose(s, i) \/ Stopped(s, i)
             \/ \E health \in {"HEALTHY", "UNHEALTHY"} : Judged(s, i, health)
      PROVE  CertInv'
    <2>1. task[s][i] \in Tasks  BY DEF TypeOK
    <2>2. UNCHANGED <<foundation, primary, gateVars, cmd, container>>
        BY <1>3 DEF Place, Start, Drain, Lose, Stopped, Judged, EcsOnly, releaseVars, hostVars
    <2>3. CASE Place(s, i)
        <3> DEFINE t == [version |-> primary[s], last |-> "PENDING", kept |-> TRUE, health |-> "UNKNOWN"]
        <3>1. t \in Tasks /\ t.version = primary[s]  BY DEF TypeOK, Tasks
        <3>2. SetTask(s, i, t)  BY <2>3 DEF Place
        <3> HIDE DEF t
        <3> QED  BY <1>2, <2>2, <3>1, <3>2
    <2>4. CASE Start(s, i)
        <3> DEFINE t == [task[s][i] EXCEPT !.last = "RUNNING"]
        <3>1. t \in Tasks /\ t.version = task[s][i].version /\ task[s][i].kept
            BY <2>1, <2>4 DEF Tasks, Start
        <3>2. SetTask(s, i, t)  BY <2>4 DEF Start
        <3> HIDE DEF t
        <3> QED  BY <1>2, <2>2, <3>1, <3>2
    <2>5. CASE Drain(s, i) \/ Lose(s, i)
        <3> DEFINE t == [task[s][i] EXCEPT !.kept = FALSE]
        <3>1. t \in Tasks /\ ~t.kept  BY <2>1 DEF Tasks
        <3>2. SetTask(s, i, t)  BY <2>5 DEF Drain, Lose
        <3> HIDE DEF t
        <3> QED  BY <1>2, <2>2, <3>1, <3>2
    <2>6. CASE Stopped(s, i)
        <3>1. Gone \in Tasks /\ ~Gone.kept  BY NeverType DEF Gone, Never
        <3> QED  BY <1>2, <2>2, <2>6, <3>1 DEF Stopped
    <2>7. ASSUME NEW health \in {"HEALTHY", "UNHEALTHY"}, Judged(s, i, health) PROVE CertInv'
        <3> DEFINE t == [task[s][i] EXCEPT !.health = health]
        <3>1. t \in Tasks /\ t.version = task[s][i].version /\ task[s][i].kept
            BY <2>1, <2>7 DEF Tasks, Judged
        <3>2. SetTask(s, i, t)  BY <2>7 DEF Judged
        <3> HIDE DEF t
        <3> QED  BY <1>2, <2>2, <3>1, <3>2
    <2> QED  BY <1>3, <2>3, <2>4, <2>5, <2>6, <2>7
<1> QED  BY <1>1, <1>3 DEF EcsStep

\* What the ways a call of the gate ends leave of it.
LEMMA GateEnds ==
    ASSUME TypeOK
    PROVE  /\ NoGate.pc = "idle"
           /\ \A s : Passed(s) => /\ gate'.pc = "next" /\ gate'.version = gate.version
                                  /\ gate'.todo = gate.todo \ {s}
<1>1. NoGate \in Gates /\ NoGate.pc = "idle"  BY NoGateType DEF NoGate
<1> QED  BY <1>1 DEF Passed, Gates

\* A gate that is idle without a certificate vouches for nothing.
LEMMA NothingVouched ==
    ASSUME TypeOK, CertInv, gate' = NoGate, certified' = 0, CalmIsIdle'
    PROVE  CertInv'
<1>1. GateAt("idle")'  BY GateEnds DEF GateAt
<1>2. Vouched' = {} /\ ~GateAt("describe")' /\ ~GateAt("relist")'
    BY <1>1 DEF Vouched, GateAt
<1>3. GateIsOwn'  BY <1>1, <1>2 DEF GateIsOwn
<1> QED  BY <1>2, <1>3 DEF CertInv, HostVouched, TasksVouched, ListedOrNew

\* A service that passes is vouched for besides the others.
LEMMA PassVouches ==
    ASSUME TypeOK, CertInv, WorldStays, NEW s \in Services, Passed(s), ~GateAt("idle"),
           UNCHANGED <<certified, calm>>, seenUp' = seenUp \cup {s},
           calm /\ foundation = "fixed" => container[s].version = gate.version,
           calm /\ foundation = "elastic" =>
               \A i \in Kept(s) : task[s][i].version \in {gate.version, primary[s]}
    PROVE  CertInv'
<1>1. /\ gate'.pc = "next" /\ gate'.version = gate.version /\ gate'.todo = gate.todo \ {s}
      /\ certified = 0 /\ Shape[gate.version] # {}
    BY GateEnds DEF CertInv, GateIsOwn
<1>2. /\ UNCHANGED <<container, cmd, foundation, primary, task>>
    BY DEF WorldStays, releaseVars, hostVars, ecsVars
<1>3. /\ Vouched' \subseteq Vouched \cup {s} /\ Claim' = gate.version /\ Claim = gate.version
    BY <1>1 DEF Vouched, Claim, GateAt
<1>4. GateIsOwn' /\ CalmIsIdle' /\ ListedOrNew'
    BY <1>1, <1>2 DEF CertInv, GateIsOwn, CalmIsIdle, ListedOrNew, GateAt, At
<1>5. Vouched' \subseteq seenUp'
    BY <1>3 DEF CertInv
<1>6. HostVouched'
    BY <1>2, <1>3 DEF CertInv, HostVouched
<1>7. TasksVouched'
    <2>1. \A r \in Services : Kept(r)' = Kept(r)  BY <1>2 DEF Kept
    <2>2. Vouched \subseteq Services
        BY VouchedOfServices
    <2> QED  BY <1>2, <1>3, <2>1, <2>2 DEF CertInv, TasksVouched
<1> QED  BY <1>4, <1>5, <1>6, <1>7 DEF CertInv

\* A gate that reads on has vouched for what it had.
LEMMA GoesOn ==
    ASSUME TypeOK, CertInv, WorldStays, ~GateAt("idle"), UNCHANGED <<certified, calm>>,
           gate'.pc \in {"describe", "relist"}, foundation = "elastic", gate'.version = gate.version, gate'.todo = gate.todo,
           gate'.pc = "describe" =>
               gate'.arns # {} /\ \A s \in Services : s = gate'.svc => Kept(s) \subseteq gate'.arns,
           seenUp \subseteq seenUp'
    PROVE  CertInv'
<1>1. UNCHANGED <<container, cmd, foundation, primary, task>>
    BY DEF WorldStays, releaseVars, hostVars, ecsVars
<1>2. Vouched' = Vouched /\ Claim' = Claim
    BY DEF Vouched, Claim, GateAt
<1>3. GateIsOwn' /\ CalmIsIdle'
    BY <1>1 DEF CertInv, GateIsOwn, CalmIsIdle, GateAt, At
<1>4. \A r \in Services : Kept(r)' = Kept(r)  BY <1>1 DEF Kept
<1>5. Vouched \subseteq Services
    BY VouchedOfServices
<1>6. HostVouched' /\ TasksVouched'
    BY <1>1, <1>2, <1>4, <1>5 DEF CertInv, HostVouched, TasksVouched
<1>7. ListedOrNew'
    BY <1>1, <1>4 DEF ListedOrNew, GateAt
<1> QED  BY <1>2, <1>3, <1>6, <1>7 DEF CertInv

\* The answer for the tasks of a listing: all were there, running and of the
\* version, and whatever was placed since is of the deployment.
LEMMA DescribeVouches ==
    ASSUME TypeOK, CertInv, NEW lost \in SUBSET TaskIds, Describe(lost)
    PROVE  CertInv'
<1> DEFINE s == gate.svc
           found == {task[s][i] : i \in gate.arns \ lost}
<1>1. /\ GateAt("describe") /\ WorldStays /\ s \in Services /\ gate \in Gates
      /\ ~GateAt("idle") /\ certified = 0 /\ gate.arns # {} /\ CalmIsIdle
      /\ foundation = "elastic"
    BY DEF Describe, TypeOK, GateAt, CertInv, GateIsOwn, Gates
<1>2. Reject => CertInv'
    <2>1. CalmIsIdle /\ Reject => CalmIsIdle'
        BY <1>1 DEF CalmIsIdle, Reject, WorldStays, releaseVars, At
    <2> QED  BY <1>1, <2>1, NothingVouched DEF Reject
<1>3. CASE lost # {}
    <2>1. Reread /\ seenUp \subseteq seenUp'  BY <1>3 DEF Describe
    <2>2. CASE ~gate.again
        <3>1. gate' = [gate EXCEPT !.pc = "relist", !.arns = {}] /\ UNCHANGED <<certified, calm>>
            BY <2>1, <2>2 DEF Reread
        <3>2. gate'.pc = "relist" /\ gate'.version = gate.version /\ gate'.todo = gate.todo
            BY <1>1, <3>1 DEF Gates
        <3> QED  BY <1>1, <2>1, <3>1, <3>2, GoesOn
    <2> QED  BY <1>2, <2>1, <2>2 DEF Reread
<1>4. CASE lost = {} /\ ~(\A t \in found : Judges(t))
    BY <1>2, <1>4 DEF Describe
<1>5. CASE lost = {} /\ \A t \in found : Judges(t)
    <2>1. Passed(s) /\ UNCHANGED <<certified, calm>>
        BY <1>5 DEF Describe
    <2>2. \A i \in gate.arns : task[s][i].last = "RUNNING" /\ task[s][i].version = gate.version
        BY <1>5 DEF Judges, Certifies
    <2>3. \E t \in found : t.last = "RUNNING"
        BY <1>1, <1>5, <2>2
    <2>4. seenUp' = seenUp \cup {s}
        BY <1>5, <2>3 DEF Describe
    <2>5. calm /\ foundation = "elastic" =>
              \A i \in Kept(s) : task[s][i].version \in {gate.version, primary[s]}
        BY <1>1, <2>2 DEF CertInv, ListedOrNew
    <2> HIDE DEF s, found
    <2> QED  BY <1>1, <2>1, <2>4, <2>5, PassVouches
<1> QED  BY <1>3, <1>4, <1>5

LEMMA GateVouches ==
    ASSUME TypeOK, CertInv, GateStep
    PROVE  CertInv'
<1>1. ASSUME Reject, ~GateAt("idle"), UNCHANGED cmd PROVE CertInv'
    <2>1. certified' = 0 /\ CalmIsIdle'
        BY <1>1 DEF CertInv, GateIsOwn, CalmIsIdle, Reject, At
    <2> QED  BY <1>1, <2>1, NothingVouched DEF Reject
<1>2. CASE BeginStagetest
    <2>1. gate' = [NoGate EXCEPT !.pc = "next", !.version = project, !.todo = Shape[project]]
          /\ certified' = 0 /\ Shape[project] # {} /\ calm' = (\A o \in Operators : At(o, "idle"))
          /\ UNCHANGED cmd
        BY <1>2 DEF BeginStagetest, WorldStays, releaseVars
    <2>2. gate'.pc = "next" /\ gate'.version = project /\ gate'.todo = Shape[project]
        BY <2>1, NoGateType DEF Gates
    <2>3. Vouched' = {} /\ ~GateAt("idle")' /\ ~GateAt("describe")' /\ ~GateAt("relist")'
        BY <2>2 DEF Vouched, GateAt
    <2>4. GateIsOwn' /\ CalmIsIdle'
        BY <2>1, <2>2, <2>3 DEF GateIsOwn, CalmIsIdle, At
    <2> QED  BY <2>3, <2>4 DEF CertInv, HostVouched, TasksVouched, ListedOrNew
<1>3. CASE GateFails
    BY <1>1, <1>3 DEF GateFails
<1>4. ASSUME NEW s \in Services, Inspect(s) PROVE CertInv'
    <2>1. ~GateAt("idle") /\ WorldStays /\ foundation = "fixed" /\ UNCHANGED cmd
        BY <1>4 DEF Inspect, Look, GateAt, WorldStays, releaseVars
    <2>2. CASE Certifies(container[s].health = "healthy", container[s].version)
        <3>1. /\ Passed(s) /\ UNCHANGED <<certified, calm>> /\ seenUp' = seenUp \cup {s}
              /\ container[s].version = gate.version
            BY <1>4, <2>2 DEF Inspect, Certifies
        <3> QED  BY <2>1, <3>1, PassVouches
    <2>3. CASE ~Certifies(container[s].health = "healthy", container[s].version)
        BY <1>1, <1>4, <2>1, <2>3 DEF Inspect
    <2> QED  BY <2>2, <2>3
<1>5. ASSUME NEW s \in Services, List(s) PROVE CertInv'
    <2>1. ~GateAt("idle") /\ WorldStays /\ foundation = "elastic" /\ UNCHANGED <<cmd, task, seenUp>>
        BY <1>5 DEF List, Look, GateAt, WorldStays, releaseVars, ecsVars
    <2>2. CASE Kept(s) = {}
        BY <1>1, <1>5, <2>1, <2>2 DEF List
    <2>3. CASE Kept(s) # {}
        <3>1. /\ gate' = [gate EXCEPT !.pc = "describe", !.svc = s, !.arns = Kept(s),
                                      !.again = GateAt("relist")]
              /\ UNCHANGED <<certified, calm>> /\ gate \in Gates
            BY <1>5, <2>3 DEF List, TypeOK, Gates
        <3>2. /\ gate'.pc = "describe" /\ gate'.version = gate.version /\ gate'.todo = gate.todo
              /\ gate'.svc = s /\ gate'.arns = Kept(s)
            BY <3>1 DEF Gates
        <3> QED  BY <2>1, <2>3, <3>1, <3>2, GoesOn
    <2> QED  BY <2>2, <2>3
<1>6. ASSUME NEW passes \in BOOLEAN, RunTester(passes) PROVE CertInv'
    <2>1. /\ GateAt("next") /\ gate.todo = {} /\ gate' = NoGate
          /\ certified' = (IF passes THEN gate.version ELSE 0)
          /\ UNCHANGED <<calm, seenUp, container, cmd, foundation, primary, task>>
        BY <1>6 DEF RunTester, WorldStays, releaseVars, hostVars, ecsVars
    <2>2. CalmIsIdle'  BY <2>1 DEF CertInv, CalmIsIdle, At
    <2>3. CASE ~passes
        BY <2>1, <2>2, <2>3, NothingVouched
    <2>4. CASE passes
        <3>1. /\ certified' = gate.version /\ Vouched = Shape[gate.version] /\ Claim = gate.version
              /\ Shape[gate.version] # {} /\ gate.version # 0 /\ gate.version \in Versions
            BY <2>1, <2>4 DEF CertInv, GateIsOwn, Vouched, Claim, GateAt, TypeOK, Versions
        <3>2. GateAt("idle")' /\ ~GateAt("describe")' /\ ~GateAt("relist")'
            BY <2>1, GateEnds DEF GateAt
        <3>3. Vouched' = Vouched /\ Claim' = Claim /\ Vouched \subseteq Services
            BY <3>1, <3>2, FixedShapeAssumption DEF Vouched, Claim
        <3>4. \A r \in Services : Kept(r)' = Kept(r)  BY <2>1 DEF Kept
        <3>5. HostVouched' /\ TasksVouched'
            BY <2>1, <3>3, <3>4 DEF CertInv, HostVouched, TasksVouched
        <3>6. GateIsOwn' /\ ListedOrNew'
            BY <3>1, <3>2 DEF GateIsOwn, ListedOrNew
        <3> QED  BY <2>1, <2>2, <3>3, <3>5, <3>6 DEF CertInv
    <2> QED  BY <2>3, <2>4
<1> QED  BY <1>2, <1>3, <1>4, <1>5, <1>6, DescribeVouches DEF GateStep

\* A certificate tells the truth (pipeline/orchestrator_health.py): however
\* tasks are placed, crash and are drained between the calls of the gate, each
\* service was seen up; on a host what it certifies is what is deployed, and on
\* ECS no service keeps a task of a version that is neither the certified one
\* nor the one it had been rolled to before.
THEOREM CertificateHolds == Spec => []CertificateIsTrue
<1>1. Init => CertInv
    <2> SUFFICES ASSUME Init PROVE CertInv  OBVIOUS
    <2>1. GateAt("idle") /\ ~GateAt("describe") /\ ~GateAt("relist")
        BY DEF Init, NoGate, GateAt
    <2>2. Vouched = {} /\ certified = 0 /\ calm = FALSE
        BY <2>1 DEF Init, Vouched
    <2> QED
        BY <2>1, <2>2 DEF CertInv, GateIsOwn, CalmIsIdle, HostVouched, TasksVouched, ListedOrNew
<1>2. TypeOK /\ CertInv /\ [Next]_vars => CertInv'
    <2> SUFFICES ASSUME TypeOK, CertInv, [Next]_vars PROVE CertInv'  OBVIOUS
    <2>1. CASE ProjectMoves
        <3>1. UNCHANGED <<gate, certified, seenUp, calm, foundation, cmd, primary, task, container>>
            BY <2>1 DEF ProjectMoves, Bump, ecsVars, gateVars, hostVars
        <3> QED  BY <3>1, WorldVouched
    <2>2. CASE UNCHANGED vars
        <3>1. UNCHANGED <<gate, certified, seenUp, calm, foundation, cmd, primary, task, container>>
            BY <2>2 DEF vars, ecsVars, gateVars, releaseVars, hostVars
        <3> QED  BY <3>1, WorldVouched
    <2> QED  BY <2>1, <2>2, HostVouches, EcsVouches, GateVouches DEF Next
<1>3. HostInv /\ CertInv => CertificateIsTrue
    <2> SUFFICES ASSUME HostInv, CertInv, certified # 0
                 PROVE  /\ Shape[certified] \subseteq seenUp
                        /\ (calm /\ foundation = "elastic") =>
                              \A s \in Shape[certified] : Serving(s) \subseteq {certified, primary[s]}
                        /\ (calm /\ foundation = "fixed" /\ ~overlap /\ ~leapt) =>
                              /\ \A s \in Shape[certified] : container[s].version = certified
                              /\ certified <= schema
        BY DEF CertificateIsTrue
    <2>1. Vouched = Shape[certified] /\ Claim = certified /\ Shape[certified] # {}
        BY DEF CertInv, GateIsOwn, Vouched, Claim
    <2>2. certified \in Versions /\ Shape[certified] \subseteq Services
        <3>1. certified \in Versions
            BY FixedShapeAssumption DEF HostInv, TypeOK, Versions
        <3> QED  BY <3>1, FixedShapeAssumption
    <2>3. Shape[certified] \subseteq seenUp
        BY <2>1 DEF CertInv
    <2>4. ASSUME calm, foundation = "elastic", NEW s \in Shape[certified]
          PROVE  Serving(s) \subseteq {certified, primary[s]}
        BY <2>1, <2>4 DEF CertInv, TasksVouched, Serving
    <2>5. ASSUME calm, foundation = "fixed", ~overlap, ~leapt
          PROVE  /\ \A s \in Shape[certified] : container[s].version = certified
                 /\ certified <= schema
        <3>1. \A s \in Shape[certified] : container[s].version = certified
            BY <2>1, <2>5 DEF CertInv, HostVouched
        <3>2. PICK s \in Shape[certified] : container[s].version = certified
            BY <2>1, <3>1
        <3>3. container[s].version <= schema
            BY <2>2, <2>5 DEF HostInv, OrderInv, RunsMigrated
        <3> QED  BY <3>1, <3>2, <3>3
    <2> QED  BY <2>3, <2>4, <2>5
<1>4. HostInv /\ [Next]_vars => HostInv' /\ TypeOK
    BY HostStays DEF HostInv
<1> QED  BY <1>1, <1>2, <1>3, <1>4, HostInit, PTL DEF Spec

=============================================================================
