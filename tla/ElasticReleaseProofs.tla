------------------------- MODULE ElasticReleaseProofs -------------------------
(***************************************************************************)
(* Theorems about ElasticRelease, for any services, uses, schema owners,   *)
(* versions, shapes and faults.                                            *)
(***************************************************************************)
EXTENDS ElasticRelease, TLAPS

CmdRecords == [pc : CmdStates, kind : {"none", "release", "rollback", "migrate"},
               version : 0..MaxVersion, first : BOOLEAN,
               owners : SUBSET Owners, stale : SUBSET Services]
Counts == [{"fault", "rollback"} -> Nat]

\* A command under way has a version.
Versioned == \A o \in Operators : ~At(o, "idle") => cmd[o].version \in Versions
\* A task that someone waits for is the one that the command started last.
Awaited ==
    /\ \A t \in running : t.by # NoOne =>
          cmd[t.by].pc = "wait" /\ t.owner \in cmd[t.by].owners
    /\ \A t, u \in running : t.by = u.by /\ t.by # NoOne => t = u
Typed == TypeOK /\ Versioned /\ Awaited

LEMMA NewDeploymentFacts ==
    ASSUME TypeOK, NEW v \in 0..MaxVersion, NEW d \in NewDeployments(v)
    PROVE  /\ d \in Deployments /\ d.version = v
           /\ d.clear \subseteq d.sees
           /\ racing = {} => d.sees = {s \in Services : Present(s)}
BY DEF NewDeployments, Deployments, TypeOK

LEMMA ForgetsFacts ==
    ASSUME NEW d \in Deployments, NEW s \in Services
    PROVE  /\ Forgets(d, s) \in Deployments /\ Forgets(d, s).version = d.version
           /\ d.clear \subseteq d.sees => Forgets(d, s).clear \subseteq Forgets(d, s).sees
           /\ d = Absent => Forgets(d, s) = Absent
<1>1. Forgets(d, s) \in Deployments
    BY DEF Forgets, Deployments
<1>2. /\ Forgets(d, s).version = d.version /\ Forgets(d, s).env = d.env
      /\ Forgets(d, s).clear = d.clear \ {s} /\ Forgets(d, s).sees = d.sees \ {s}
    BY DEF Forgets, Deployments
<1>3. ASSUME d = Absent PROVE Forgets(d, s) = Absent
    <2> DEFINE f == Forgets(d, s)
    <2>1. f = [version |-> f.version, env |-> f.env, clear |-> f.clear, sees |-> f.sees]
        BY <1>1 DEF Deployments
    <2> QED  BY <1>2, <1>3, <2>1 DEF Absent
<1> QED  BY <1>1, <1>2, <1>3

\* A command moves alone.
LEMMA CmdMoves ==
    ASSUME TypeOK, NEW o \in Operators
    PROVE  /\ cmd \in [Operators -> CmdRecords]
           /\ Idle \in CmdRecords
           /\ Finish(o) => cmd' \in [Operators -> CmdRecords] /\ cmd'[o] = Idle
           /\ \A pc \in CmdStates : Goto(o, pc) =>
                 /\ cmd' \in [Operators -> CmdRecords]
                 /\ cmd'[o] = [cmd[o] EXCEPT !.pc = pc]
           /\ \A r \in CmdRecords : cmd' = [cmd EXCEPT ![o] = r] =>
                 cmd' \in [Operators -> CmdRecords] /\ cmd'[o] = r
<1>1. cmd \in [Operators -> CmdRecords]
    BY DEF TypeOK, CmdRecords
<1>2. Idle \in CmdRecords
    BY ShapeAssumption DEF Idle, CmdRecords, CmdStates
<1>3. ASSUME NEW pc \in CmdStates, Goto(o, pc)
      PROVE  /\ cmd' \in [Operators -> CmdRecords]
             /\ cmd'[o] = [cmd[o] EXCEPT !.pc = pc]
    BY <1>1, <1>3 DEF Goto, CmdRecords
<1> QED  BY <1>1, <1>2, <1>3 DEF Finish

LEMMA TypeStep == Typed /\ [Next]_vars => TypeOK'
<1> SUFFICES ASSUME Typed, [Next]_vars PROVE TypeOK'  OBVIOUS
<1> USE DEF Typed
<1>1. /\ project \in Versions /\ secrets \in Nat /\ ssm \in Nat
      /\ service \in [Services -> Deployments] /\ count \in Counts
      /\ cmd \in [Operators -> CmdRecords] /\ \A o \in Operators : cmd[o] \in CmdRecords
    BY DEF TypeOK, Counts, CmdRecords
<1>2. TypeOK' <=> /\ project' \in Versions /\ secrets' \in Nat /\ ssm' \in Nat
                  /\ lock' \in Operators \cup {NoOne} /\ database' \in BOOLEAN
                  /\ schema' \in [Owners -> 0..MaxVersion]
                  /\ migrateDef' \in [Owners -> 0..MaxVersion]
                  /\ running' \subseteq Tasks /\ service' \in [Services -> Deployments]
                  /\ racing' \subseteq recent' /\ recent' \subseteq Services
                  /\ cmd' \in [Operators -> CmdRecords] /\ count' \in Counts
    BY DEF TypeOK, CmdRecords, Counts
<1>3. UNCHANGED vars => TypeOK'
    BY <1>1, <1>2, CmdMoves DEF vars, localVars, awsVars, names, TypeOK, Counts
<1>4. ASSUME Fault PROVE count' \in Counts
    BY <1>1, <1>4 DEF Fault, Counts
<1>5. ASSUME NEW o \in Operators, NEW kind \in {"release", "migrate"}, Begin(o, kind) PROVE TypeOK'
    <2>1. [Idle EXCEPT !.kind = kind, !.version = project, !.owners = Owners,
              !.pc = IF kind = "release" THEN "push" ELSE "migrate"] \in CmdRecords
        <3>1. Idle \in CmdRecords
            BY CmdMoves
        <3>2. \A n \in Versions : n \in 0..MaxVersion
            BY ShapeAssumption DEF Versions
        <3> QED  BY <1>1, <3>1, <3>2 DEF CmdRecords, CmdStates
    <2>2. cmd' \in [Operators -> CmdRecords]
        BY <1>5, <2>1, CmdMoves DEF Begin
    <2> QED  BY <1>1, <1>2, <1>5, <2>2 DEF Begin, localVars, awsVars, names, TypeOK
<1>6. ASSUME NEW o \in Operators, NEW v \in Versions, BeginRollback(o, v) PROVE TypeOK'
    <2>1. [Idle EXCEPT !.pc = "push", !.kind = "rollback", !.version = v] \in CmdRecords
        <3>1. Idle \in CmdRecords
            BY CmdMoves
        <3>2. \A n \in Versions : n \in 0..MaxVersion
            BY ShapeAssumption DEF Versions
        <3> QED  BY <1>1, <3>1, <3>2 DEF CmdRecords, CmdStates
    <2>2. cmd' \in [Operators -> CmdRecords] /\ count' \in Counts
        BY <1>1, <1>6, <2>1, CmdMoves DEF BeginRollback, Counts
    <2> QED  BY <1>1, <1>2, <1>6, <2>2 DEF BeginRollback, localVars, awsVars, names, TypeOK
<1>7. ASSUME NEW o \in Operators, CommandStep(o) PROVE TypeOK'
    <2>1. CASE PushSSM(o)
        <3>1. ssm' \in Nat /\ count' \in Counts /\ cmd' \in [Operators -> CmdRecords]
            BY <1>1, <1>4, <2>1, CmdMoves DEF PushSSM, CmdStates
        <3> QED  BY <1>1, <1>2, <2>1, <3>1 DEF PushSSM, localVars, names, TypeOK
    <2>2. CASE Detect(o)
        <3> DEFINE first == \A s \in Services : ~Present(s)
                   r == [cmd[o] EXCEPT !.first = first, !.pc = IF first THEN "apply"
                                       ELSE IF Owners = {} THEN "migrate" ELSE "target"]
        <3>1. first \in BOOLEAN
            OBVIOUS
        <3> HIDE DEF first
        <3>2. r \in CmdRecords
            BY <1>1, <3>1 DEF CmdRecords, CmdStates
        <3>3. cmd' = [cmd EXCEPT ![o] = r]
            <4>1. cmd' = [cmd EXCEPT ![o].first = first,
                             ![o].pc = IF first THEN "apply"
                                       ELSE IF Owners = {} THEN "migrate" ELSE "target"]
                BY <2>2 DEF Detect, first
            <4> QED  BY <1>1, <4>1, CmdMoves DEF CmdRecords
        <3>4. cmd' \in [Operators -> CmdRecords]
            <4> HIDE DEF r
            <4> QED  BY <3>2, <3>3, CmdMoves
        <3> QED  BY <1>1, <1>2, <2>2, <3>4 DEF Detect, localVars, awsVars, names, TypeOK
    <2>3. CASE TakeLock(o)
        <3>1. cmd' \in [Operators -> CmdRecords]
            BY <2>3, CmdMoves DEF TakeLock, CmdStates, Applying
        <3> QED  BY <1>1, <1>2, <2>3, <3>1 DEF TakeLock, localVars, names, TypeOK
    <2>4. ASSUME NEW w \in Owners, RegisterMigrateDef(o, w) PROVE TypeOK'
        <3>1. migrateDef' \in [Owners -> 0..MaxVersion]
            BY <1>1, <2>4 DEF RegisterMigrateDef, TypeOK, CmdRecords
        <3> QED  BY <1>1, <1>2, <2>4, <3>1, CmdMoves DEF RegisterMigrateDef, localVars, names, TypeOK
    <2>5. ASSUME NEW w \in Owners, RunTask(o, w) PROVE TypeOK'
        <3>1. cmd' \in [Operators -> CmdRecords]
            BY <2>5, CmdMoves DEF RunTask, CmdStates
        <3>2. migrateDef[w] > 0 => [owner |-> w, version |-> migrateDef[w], by |-> o] \in Tasks
            BY DEF Tasks, TypeOK, Versions
        <3> QED  BY <1>1, <1>2, <2>5, <3>1, <3>2 DEF RunTask, localVars, names, TypeOK
    <2>6. ASSUME NEW s \in Services, Deploy(o, s) PROVE TypeOK'
        <3>1. cmd[o].version \in 0..MaxVersion
            BY <1>1 DEF CmdRecords
        <3>2. service' \in [Services -> Deployments]
            BY <1>1, <2>6, <3>1, NewDeploymentFacts DEF Deploy
        <3>3. racing' \subseteq recent' /\ recent' \subseteq Services
            BY <2>6 DEF Deploy, names, TypeOK
        <3> QED  BY <1>1, <1>2, <2>6, <3>2, <3>3, CmdMoves DEF Deploy, localVars, TypeOK
    <2>7. ASSUME NEW s \in Services, Undeploy(o, s) PROVE TypeOK'
        <3>1. Absent \in Deployments
            BY ShapeAssumption DEF Absent, Deployments
        <3>2. service' \in [Services -> Deployments]
            BY <1>1, <2>7, <3>1, ForgetsFacts DEF Undeploy
        <3>3. racing' \subseteq recent' /\ recent' \subseteq Services
            BY <2>7 DEF Undeploy, TypeOK
        <3> QED  BY <1>1, <1>2, <2>7, <3>2, <3>3, CmdMoves DEF Undeploy, localVars, TypeOK
    <2>8. ASSUME NEW c \in Services, ForceNewDeployment(o, c) PROVE TypeOK'
        <3>1. service' \in [Services -> Deployments]
            <4>1. service[c].version \in 0..MaxVersion
                BY <1>1 DEF Deployments
            <4> QED  BY <1>1, <2>8, <4>1, NewDeploymentFacts DEF ForceNewDeployment
        <3>2. cmd' \in [Operators -> CmdRecords] /\ count' \in Counts
            <4>1. CASE Fault /\ Finish(o)
                BY <1>4, <4>1, CmdMoves
            <4>2. CASE /\ cmd' = [cmd EXCEPT ![o].stale = cmd[o].stale \ {c},
                                    ![o].pc = IF cmd[o].stale \ {c} = {} THEN "released" ELSE @]
                       /\ UNCHANGED count
                <5> DEFINE rest == cmd[o].stale \ {c}
                           r == [cmd[o] EXCEPT !.stale = rest,
                                    !.pc = IF rest = {} THEN "released" ELSE @]
                <5>1. rest \subseteq Services
                    BY <1>1 DEF CmdRecords
                <5> HIDE DEF rest
                <5>2. r \in CmdRecords
                    BY <1>1, <5>1 DEF CmdRecords, CmdStates
                <5>3. cmd' = [cmd EXCEPT ![o] = r]
                    BY <1>1, <4>2, CmdMoves DEF CmdRecords, rest
                <5> HIDE DEF r
                <5> QED  BY <1>1, <4>2, <5>2, <5>3, CmdMoves
            <4> QED  BY <2>8, <4>1, <4>2 DEF ForceNewDeployment
        <3> QED  BY <1>1, <1>2, <2>8, <3>1, <3>2 DEF ForceNewDeployment, localVars, names, TypeOK
    <2>9. CASE ApplyDone(o)
        <3>1. cmd' \in [Operators -> CmdRecords]
            BY <2>9, CmdMoves DEF ApplyDone, CmdStates
        <3> QED  BY <1>1, <1>2, <2>9, <3>1 DEF ApplyDone, localVars, TypeOK
    <2>10. CASE ApplyFails(o)
        <3>1. cmd' \in [Operators -> CmdRecords] /\ count' \in Counts
            BY <1>4, <2>10, CmdMoves DEF ApplyFails
        <3> QED  BY <1>1, <1>2, <2>10, <3>1 DEF ApplyFails, localVars, names, TypeOK
    <2>11. CASE MigrationsDone(o)
        <3>1. cmd' \in [Operators -> CmdRecords]
            BY <2>11, CmdMoves DEF MigrationsDone, CmdStates
        <3> QED  BY <1>1, <1>2, <2>11, <3>1 DEF MigrationsDone, localVars, awsVars, names, TypeOK
    <2>12. CASE WaitTimesOut(o)
        <3>1. cmd' \in [Operators -> CmdRecords] /\ count' \in Counts
            BY <1>4, <2>12, CmdMoves DEF WaitTimesOut
        <3>2. running' \subseteq Tasks
            BY <2>12 DEF WaitTimesOut, Abandoned, TypeOK, Tasks
        <3> QED  BY <1>1, <1>2, <2>12, <3>1, <3>2 DEF WaitTimesOut, localVars, names, TypeOK
    <2>13. CASE Reconcile(o)
        <3> DEFINE stale == Stale(cmd[o].version)
        <3>1. cmd' = [cmd EXCEPT ![o].stale = stale,
                         ![o].pc = IF stale = {} THEN "released" ELSE "force"]
            BY <2>13 DEF Reconcile
        <3>2. stale \subseteq Services
            <4>1. cmd[o].version \in Versions => Shape[cmd[o].version] \subseteq Services
                BY ShapeAssumption DEF Versions
            <4>2. cmd[o].version \in Versions
                BY <2>13 DEF Reconcile, At, Versioned
            <4> QED  BY <4>1, <4>2 DEF Stale
        <3>3. cmd' \in [Operators -> CmdRecords]
            <4> HIDE DEF stale
            <4> DEFINE r == [cmd[o] EXCEPT !.stale = stale,
                                !.pc = IF stale = {} THEN "released" ELSE "force"]
            <4>1. r \in CmdRecords
                BY <1>1, <3>2 DEF CmdRecords, CmdStates
            <4>2. cmd' = [cmd EXCEPT ![o] = r]
                BY <1>1, <3>1, CmdMoves DEF CmdRecords
            <4> HIDE DEF r
            <4> QED  BY <1>1, <4>1, <4>2, CmdMoves
        <3> QED  BY <1>1, <1>2, <2>13, <3>3 DEF Reconcile, localVars, awsVars, names, TypeOK
    <2>14. CASE Return(o)
        <3>1. cmd' \in [Operators -> CmdRecords]
            BY <2>14, CmdMoves DEF Return
        <3> QED  BY <1>1, <1>2, <2>14, <3>1 DEF Return, localVars, awsVars, names, TypeOK
    <2> QED  BY <1>7, <2>1, <2>2, <2>3, <2>4, <2>5, <2>6, <2>7, <2>8, <2>9, <2>10, <2>11, <2>12, <2>13,
                <2>14 DEF CommandStep
<1>8. ASSUME NEW o \in Operators, Kill(o) PROVE TypeOK'
    <2>1. cmd' \in [Operators -> CmdRecords] /\ count' \in Counts
        BY <1>4, <1>8, CmdMoves DEF Kill
    <2>2. running' \subseteq Tasks
        BY <1>8 DEF Kill, Abandoned, TypeOK, Tasks
    <2> QED  BY <1>1, <1>2, <1>8, <2>1, <2>2 DEF Kill, localVars, names, TypeOK
<1>9. ASSUME NEW o \in Operators, ForceUnlock(o) PROVE TypeOK'
    BY <1>1, <1>2, <1>9, CmdMoves DEF ForceUnlock, localVars, names, TypeOK
<1>10. ASSUME NEW t \in running, TaskSucceeds(t) PROVE TypeOK'
    <2>1. t \in Tasks
        BY DEF TypeOK
    <2>2. schema' \in [Owners -> 0..MaxVersion]
        BY <1>10, <2>1 DEF TaskSucceeds, Tasks, TypeOK, Versions
    <2>3. cmd' \in [Operators -> CmdRecords]
        <3>1. CASE t.by = NoOne
            BY <1>1, <1>10, <3>1 DEF TaskSucceeds
        <3>2. CASE t.by # NoOne
            <4> DEFINE r == [cmd[t.by] EXCEPT !.pc = "migrate", !.owners = @ \ {t.owner}]
            <4>1. t.by \in Operators
                BY <2>1, <3>2 DEF Tasks
            <4>2. r \in CmdRecords
                BY <1>1, <4>1 DEF CmdRecords, CmdStates
            <4>3. cmd' = [cmd EXCEPT ![t.by] = r]
                BY <1>10, <3>2, <4>1, CmdMoves DEF TaskSucceeds, CmdRecords
            <4> HIDE DEF r
            <4> QED  BY <4>1, <4>2, <4>3, CmdMoves
        <3> QED  BY <3>1, <3>2
    <2> QED  BY <1>1, <1>2, <1>10, <2>2, <2>3 DEF TaskSucceeds, localVars, names, TypeOK
<1>11. ASSUME NEW t \in running, TaskFails(t) PROVE TypeOK'
    <2>1. t.by # NoOne => t.by \in Operators
        BY DEF TypeOK, Tasks
    <2>2. cmd' \in [Operators -> CmdRecords]
        BY <1>1, <1>11, <2>1, CmdMoves DEF TaskFails, Finish
    <2> QED  BY <1>1, <1>2, <1>4, <1>11, <2>2 DEF TaskFails, localVars, names, TypeOK
<1>12. CASE TimePasses \/ NextVersion \/ EditSecrets
    <2>1. project' \in Versions /\ secrets' \in Nat
        BY <1>1, <1>12, ShapeAssumption
           DEF TimePasses, NextVersion, EditSecrets, localVars, Versions
    <2> QED  BY <1>1, <1>2, <1>12, <2>1, CmdMoves
             DEF TimePasses, NextVersion, EditSecrets, localVars, awsVars, names, TypeOK
<1> QED  BY <1>3, <1>5, <1>6, <1>7, <1>8, <1>9, <1>10, <1>11, <1>12 DEF Next

\* A step of a command moves that command alone, within one version and kind.
SameRun(o) == cmd'[o].version = cmd[o].version /\ cmd'[o].kind = cmd[o].kind

LEMMA StepMoves ==
    ASSUME Typed, NEW o \in Operators, CommandStep(o)
    PROVE  /\ ~At(o, "idle")
           /\ \A p \in Operators \ {o} : cmd'[p] = cmd[p]
           /\ cmd'[o] = Idle \/ SameRun(o)
           /\ \/ UNCHANGED running /\ cmd[o].pc # "wait"
              \/ WaitTimesOut(o)
              \/ \E w \in Owners : RunTask(o, w)
<1>1. cmd \in [Operators -> CmdRecords]
    BY CmdMoves DEF Typed
<1>2. Finish(o) => cmd'[o] = Idle /\ \A p \in Operators \ {o} : cmd'[p] = cmd[p]
    BY <1>1 DEF Finish
<1>3. ASSUME NEW pc, Goto(o, pc) PROVE SameRun(o) /\ \A p \in Operators \ {o} : cmd'[p] = cmd[p]
    BY <1>1, <1>3 DEF Goto, SameRun, CmdRecords
<1>4. ~At(o, "idle")
    BY DEF CommandStep, PushSSM, Detect, TakeLock, RegisterMigrateDef, RunTask, Deploy, Undeploy,
           ForceNewDeployment, ApplyDone, ApplyFails, MigrationsDone, WaitTimesOut, Reconcile, Return,
           At, Applying
<1>5. \/ UNCHANGED running /\ cmd[o].pc # "wait"
      \/ WaitTimesOut(o)
      \/ \E w \in Owners : RunTask(o, w)
    BY DEF CommandStep, PushSSM, Detect, TakeLock, RegisterMigrateDef, Deploy, Undeploy,
           ForceNewDeployment, ApplyDone, ApplyFails, MigrationsDone, Reconcile, Return,
           At, Applying, awsVars
<1>6. \/ cmd'[o] = Idle /\ \A p \in Operators \ {o} : cmd'[p] = cmd[p]
      \/ SameRun(o) /\ \A p \in Operators \ {o} : cmd'[p] = cmd[p]
    <2>1. CASE PushSSM(o) \/ TakeLock(o) \/ ApplyDone(o) \/ ApplyFails(o) \/ MigrationsDone(o)
               \/ WaitTimesOut(o) \/ Return(o) \/ \E w \in Owners : RunTask(o, w)
        BY <1>2, <1>3, <2>1
           DEF PushSSM, TakeLock, ApplyDone, ApplyFails, MigrationsDone, WaitTimesOut, Return, RunTask
    <2>2. CASE UNCHANGED cmd
        BY <2>2 DEF SameRun
    <2>3. CASE Detect(o)
        BY <1>1, <2>3 DEF Detect, SameRun, CmdRecords
    <2>4. CASE Reconcile(o)
        BY <1>1, <2>4 DEF Reconcile, SameRun, CmdRecords
    <2>5. CASE \E c \in Services : ForceNewDeployment(o, c)
        BY <1>1, <1>2, <2>5 DEF ForceNewDeployment, SameRun, CmdRecords
    <2> QED  BY <2>1, <2>2, <2>3, <2>4, <2>5
             DEF CommandStep, RegisterMigrateDef, Deploy, Undeploy
<1> QED  BY <1>4, <1>5, <1>6

LEMMA TypedStep == Typed /\ [Next]_vars => Typed'
<1> SUFFICES ASSUME Typed, [Next]_vars PROVE Versioned' /\ Awaited'
    BY TypeStep DEF Typed
<1>1. /\ cmd \in [Operators -> CmdRecords] /\ project \in Versions /\ Versioned /\ Awaited
      /\ \A t \in running : t.by \in Operators \cup {NoOne} /\ t \in Tasks
    BY DEF Typed, TypeOK, CmdRecords, Tasks
<1> DEFINE Others(o) == \A p \in Operators \ {o} : cmd'[p] = cmd[p]
           Keeps(o) == cmd[o].pc # "wait" /\ UNCHANGED running
           Leaves(o) == running' = Abandoned(o)
<1>2. ASSUME NEW o \in Operators, Others(o), Keeps(o) PROVE Awaited'
    BY <1>1, <1>2 DEF Awaited
<1>3. ASSUME NEW o \in Operators, Others(o), Leaves(o) PROVE Awaited'
    <2>1. \A t \in running' : t.by # NoOne => t \in running /\ t.by # o
        <3>1. \A t \in running : [t EXCEPT !.by = NoOne].by = NoOne
            BY <1>1 DEF Tasks
        <3> QED  BY <1>3, <3>1 DEF Abandoned
    <2> QED  BY <1>1, <1>3, <2>1 DEF Awaited
<1>4. ASSUME NEW o \in Operators, Others(o), cmd'[o] = Idle \/ cmd'[o].version \in Versions
      PROVE  Versioned'
    BY <1>1, <1>4 DEF Versioned, At, Idle
<1>5. ASSUME NEW o \in Operators, NEW kind \in {"release", "migrate"}, Begin(o, kind)
      PROVE  Versioned' /\ Awaited'
    <2>1. Others(o) /\ Keeps(o) /\ cmd'[o].version = project
        BY <1>1, <1>5 DEF Begin, At, awsVars, Idle
    <2> QED  BY <1>1, <1>2, <1>4, <2>1
<1>6. ASSUME NEW o \in Operators, NEW v \in Versions, BeginRollback(o, v)
      PROVE  Versioned' /\ Awaited'
    <2>1. Others(o) /\ Keeps(o) /\ cmd'[o].version = v
        BY <1>1, <1>6 DEF BeginRollback, At, awsVars, Idle
    <2> QED  BY <1>1, <1>2, <1>4, <2>1
<1>7. ASSUME NEW o \in Operators, CommandStep(o) PROVE Versioned' /\ Awaited'
    <2>1. /\ Others(o) /\ ~At(o, "idle") /\ (cmd'[o] = Idle \/ cmd'[o].version = cmd[o].version)
          /\ Keeps(o) \/ WaitTimesOut(o) \/ \E w \in Owners : RunTask(o, w)
        BY <1>7, StepMoves DEF SameRun
    <2>2. Versioned'
        BY <1>1, <1>4, <2>1 DEF Versioned
    <2>3. CASE Keeps(o)
        BY <1>2, <2>1, <2>2, <2>3
    <2>4. CASE WaitTimesOut(o)
        BY <1>3, <2>1, <2>2, <2>4 DEF WaitTimesOut
    <2>5. ASSUME NEW w \in Owners, RunTask(o, w) PROVE Awaited'
        <3>1. CASE UNCHANGED running
            BY <1>2, <2>1, <2>5, <3>1 DEF RunTask, At
        <3>2. CASE ~UNCHANGED running
            <4> DEFINE new == [owner |-> w, version |-> migrateDef[w], by |-> o]
            <4>1. /\ running' = running \cup {new} /\ Goto(o, "wait")
                  /\ At(o, "migrate") /\ w \in cmd[o].owners
                BY <2>5, <3>2 DEF RunTask
            <4>2. cmd'[o].pc = "wait" /\ cmd'[o].owners = cmd[o].owners
                BY <1>1, <4>1 DEF Goto, CmdRecords
            <4>3. \A t \in running : t.by # o
                BY <1>1, <4>1, OperatorsAssumption DEF Awaited, At
            <4>4. new.by = o /\ new.owner = w
                OBVIOUS
            <4> HIDE DEF new
            <4> QED  BY <1>1, <2>1, <4>1, <4>2, <4>3, <4>4 DEF Awaited
        <3> QED  BY <3>1, <3>2
    <2> QED  BY <2>1, <2>2, <2>3, <2>4, <2>5
<1>8. ASSUME NEW o \in Operators, Kill(o) PROVE Versioned' /\ Awaited'
    <2>1. Others(o) /\ Leaves(o) /\ cmd'[o] = Idle
        BY <1>1, <1>8 DEF Kill, Finish
    <2> QED  BY <1>3, <1>4, <2>1
<1>9. ASSUME NEW t \in running, TaskSucceeds(t) \/ TaskFails(t) PROVE Versioned' /\ Awaited'
    <2>1. running' = running \ {t}
        BY <1>9 DEF TaskSucceeds, TaskFails
    <2>2. CASE t.by = NoOne
        BY <1>1, <1>9, <2>1, <2>2 DEF TaskSucceeds, TaskFails, Awaited, Versioned, At
    <2>3. CASE t.by # NoOne
        <3>1. t.by \in Operators /\ ~At(t.by, "idle")
            BY <1>1, <2>3 DEF Awaited, At
        <3>2. Others(t.by) /\ (cmd'[t.by] = Idle \/ cmd'[t.by].version = cmd[t.by].version)
            BY <1>1, <1>9, <2>3, <3>1 DEF TaskSucceeds, TaskFails, CmdRecords
        <3>3. \A u \in running' : u \in running /\ u.by # t.by
            BY <1>1, <2>1, <2>3 DEF Awaited
        <3>4. Awaited'
            BY <1>1, <3>2, <3>3 DEF Awaited
        <3> QED  BY <1>1, <1>4, <3>1, <3>2, <3>4 DEF Versioned
    <2> QED  BY <2>2, <2>3
<1>10. CASE UNCHANGED <<cmd, running>>
    BY <1>1, <1>10 DEF Awaited, Versioned, At
<1> QED  BY <1>5, <1>6, <1>7, <1>8, <1>9, <1>10
         DEF Next, ForceUnlock, TimePasses, NextVersion, EditSecrets, vars, awsVars

LEMMA TypedAlways == Spec => []Typed
<1>1. Init => Typed
    <2> SUFFICES ASSUME Init PROVE Typed  OBVIOUS
    <2>1. 0 \in 0..MaxVersion
        BY ShapeAssumption
    <2>2. Idle \in CmdRecords /\ Absent \in Deployments /\ 1 \in Versions
        BY <2>1, ShapeAssumption DEF Idle, Absent, CmdRecords, CmdStates, Deployments, Versions
    <2>3. TypeOK
        <3>1. /\ schema \in [Owners -> 0..MaxVersion] /\ migrateDef \in [Owners -> 0..MaxVersion]
              /\ service \in [Services -> Deployments]
            BY <2>1, <2>2 DEF Init
        <3>2. cmd \in [Operators -> CmdRecords]
            BY <2>2 DEF Init
        <3>3. count \in [{"fault", "rollback"} -> Nat]
            BY DEF Init
        <3>4. /\ project \in Versions /\ secrets \in Nat /\ ssm \in Nat
              /\ lock \in Operators \cup {NoOne} /\ database \in BOOLEAN /\ running \subseteq Tasks
              /\ racing \subseteq recent /\ recent \subseteq Services
            BY <2>2 DEF Init
        <3> QED  BY <3>1, <3>2, <3>3, <3>4 DEF TypeOK, CmdRecords
    <2> QED  BY <2>3 DEF Init, Typed, Versioned, Awaited, At, Idle
<1> QED  BY <1>1, TypedStep, PTL DEF Spec

\* Whoever runs what, and whatever fails or is killed, every variable has its
\* type: no step of release, rollback or migrate writes what another cannot read.
THEOREM TypeCorrect == Spec => []TypeOK
BY TypedAlways, PTL DEF Typed

----------------------------------------------------------------------------
(* What a command of the only operator has left when it gets this far.     *)

OneOperator == \A o, p \in Operators : o = p

\* A release migrates owner after owner, from definitions of its version, and
\* is done with all of them before it touches the services of an env that has
\* any.
TaskVersions ==
    \A t \in running : t.by # NoOne /\ cmd[t.by].kind = "release" =>
        t.version = cmd[t.by].version
Migrated(o) ==
    cmd[o].kind = "release" =>
        /\ \A w \in Owners \ cmd[o].owners : schema[w] >= cmd[o].version
        /\ cmd[o].pc \in {"migrate", "wait"} =>
              \A w \in cmd[o].owners : migrateDef[w] = cmd[o].version
        /\ cmd[o].pc \in {"reconcile", "force", "released"} => cmd[o].owners = {}
        /\ cmd[o].pc \in {"apply", "applying"} /\ ~cmd[o].first => cmd[o].owners = {}
FirstIsFresh(o) ==
    /\ cmd[o].pc \in {"push", "target", "targeting"} => ~cmd[o].first
    /\ cmd[o].pc \in {"apply", "applying"} /\ cmd[o].first =>
          \A s \in Services : Present(s) => service[s].version = cmd[o].version

\* What follows a full apply finds its services on the version, and no name
\* that a new deployment could miss.
AfterApply(o) ==
    \/ cmd[o].pc \in {"reconcile", "force"} \/ Deployed(o)
    \/ cmd[o].pc \in {"migrate", "wait"} /\ cmd[o].first
Settled(o) == AfterApply(o) => ServicesConverged(cmd[o].version) /\ racing = {}
Sighted(o) ==
    At(o, "force") \/ Deployed(o) =>
        \A c, t \in Shape[cmd[o].version] :
            <<c, t>> \in Uses => c \in cmd[o].stale \/ t \in service[c].sees
Reconciled(o) == Deployed(o) => cmd[o].stale = {}
CommandInv(o) == Migrated(o) /\ FirstIsFresh(o) /\ Settled(o) /\ Sighted(o) /\ Reconciled(o)

ServeInv ==
    /\ TaskVersions
    /\ \A s \in Services : service[s].clear \subseteq service[s].sees
    /\ \A o \in Operators : CommandInv(o)

LEMMA IdleInv ==
    ASSUME NEW o
    PROVE  /\ cmd[o] = Idle => CommandInv(o)
           /\ cmd'[o] = Idle => CommandInv(o)'
BY DEF CommandInv, Migrated, FirstIsFresh, Settled, AfterApply, Sighted, Reconciled, Deployed, At, Idle

\* Nobody awaits a task unless the command waits.
LEMMA TaskVersionsStep ==
    ASSUME Typed', NEW o \in Operators, OneOperator,
           \/ cmd'[o].pc # "wait"
           \/ TaskVersions /\ UNCHANGED cmd /\ running' \subseteq running
    PROVE  TaskVersions'
<1>1. \A t \in running' : t.by # NoOne => t.by = o
    BY DEF OneOperator, Typed, TypeOK, Tasks
<1> QED  BY <1>1 DEF TaskVersions, Typed, Awaited

\* Schemas only grow and names stop racing, beside a command that stays put.
LEMMA CarriesOn ==
    ASSUME Typed, Typed', NEW o \in Operators, CommandInv(o), UNCHANGED <<cmd, service, migrateDef>>,
           \A w \in Owners : schema'[w] >= schema[w], racing' \in {racing, {}}
    PROVE  CommandInv(o)'
<1>1. /\ \A w \in Owners : schema[w] \in Nat /\ schema'[w] \in Nat
      /\ cmd[o].version \in Nat
    BY DEF Typed, TypeOK
<1>2. Migrated(o)'
    BY <1>1 DEF CommandInv, Migrated
<1> QED  BY <1>2 DEF CommandInv, FirstIsFresh, Settled, AfterApply, Sighted, Reconciled, Deployed, At,
                    Present, ServicesConverged

LEMMA ServeOthers ==
    ASSUME Typed, Typed', ServeInv, OneOperator, NEW o \in Operators,
           \/ \E t \in running : TaskSucceeds(t) \/ TaskFails(t)
           \/ ForceUnlock(o) \/ TimePasses \/ NextVersion \/ EditSecrets
    PROVE  ServeInv'
<1>1. /\ cmd \in [Operators -> CmdRecords] /\ CommandInv(o)
      /\ schema \in [Owners -> Nat]
      /\ \A p \in Operators : p = o
    BY DEF ServeInv, OneOperator, Typed, TypeOK, CmdRecords
<1>2. UNCHANGED <<service, migrateDef>> /\ racing' \in {racing, {}} /\ running' \subseteq running
    BY DEF TaskSucceeds, TaskFails, ForceUnlock, TimePasses, NextVersion, EditSecrets, names, awsVars
<1>3. \A w \in Owners : schema'[w] >= schema[w]
    <2>1. ASSUME NEW t \in running, TaskSucceeds(t), NEW w \in Owners PROVE schema'[w] >= schema[w]
        <3>1. t.version \in Nat
            BY DEF Typed, TypeOK, Tasks, Versions
        <3> QED  BY <1>1, <2>1, <3>1 DEF TaskSucceeds
    <2>2. CASE UNCHANGED schema
        BY <1>1, <2>2
    <2> QED  BY <2>1, <2>2 DEF TaskFails, ForceUnlock, TimePasses, NextVersion, EditSecrets, awsVars
<1>4. CASE UNCHANGED cmd
    BY <1>1, <1>2, <1>3, <1>4, CarriesOn, TaskVersionsStep DEF ServeInv
<1>5. ASSUME NEW t \in running, TaskFails(t) PROVE ServeInv'
    <2>1. UNCHANGED cmd \/ cmd'[o] = Idle
        BY <1>1, <1>5 DEF TaskFails, Typed, TypeOK, Tasks
    <2>2. cmd'[o] = Idle => cmd'[o].pc # "wait"
        BY DEF Idle
    <2> QED  BY <1>1, <1>2, <1>4, <2>1, <2>2, IdleInv, TaskVersionsStep DEF ServeInv
<1>6. ASSUME NEW t \in running, TaskSucceeds(t), t.by # NoOne PROVE ServeInv'
    <2>1. t.by = o /\ t.owner \in Owners /\ t.version \in Nat
        BY <1>1, <1>6 DEF Typed, TypeOK, Tasks, Versions
    <2>2. cmd[o].pc = "wait" /\ t.owner \in cmd[o].owners
        BY <1>6, <2>1 DEF Typed, Awaited
    <2>3. /\ cmd'[o].pc = "migrate" /\ cmd'[o].owners = cmd[o].owners \ {t.owner}
          /\ cmd'[o].version = cmd[o].version /\ cmd'[o].kind = cmd[o].kind
          /\ cmd'[o].first = cmd[o].first
        BY <1>1, <1>6, <2>1 DEF TaskSucceeds, CmdRecords
    <2>4. cmd[o].kind = "release" => schema'[t.owner] >= cmd[o].version
        <3>1. cmd[o].kind = "release" => t.version = cmd[o].version
            BY <1>6, <2>1 DEF ServeInv, TaskVersions
        <3>2. schema'[t.owner] >= t.version
            BY <1>1, <1>6, <2>1 DEF TaskSucceeds
        <3> QED  BY <3>1, <3>2
    <2>5. Migrated(o)'
        <3>1. \A w \in Owners : schema[w] \in Nat /\ schema'[w] \in Nat
            BY DEF Typed, TypeOK
        <3>2. cmd[o].version \in Nat
            BY <1>1 DEF CmdRecords
        <3>3. ASSUME NEW w \in Owners \ cmd[o].owners, cmd[o].kind = "release"
              PROVE  schema'[w] >= cmd[o].version
            BY <1>1, <1>3, <3>1, <3>2, <3>3 DEF CommandInv, Migrated
        <3> QED  BY <1>1, <1>2, <2>2, <2>3, <2>4, <3>3 DEF CommandInv, Migrated
    <2>6. FirstIsFresh(o)' /\ Settled(o)' /\ Sighted(o)' /\ Reconciled(o)'
        BY <1>1, <1>2, <2>2, <2>3 DEF CommandInv, FirstIsFresh, Settled, AfterApply, Sighted,
                                      Reconciled, Deployed, At, ServicesConverged
    <2> QED  BY <1>1, <1>2, <2>3, <2>5, <2>6, TaskVersionsStep DEF ServeInv, CommandInv
<1> QED  BY <1>4, <1>5, <1>6 DEF TaskSucceeds, ForceUnlock, TimePasses, NextVersion, EditSecrets, awsVars

LEMMA ServeLaunch ==
    ASSUME Typed, Typed', ServeInv, OneOperator, NEW o \in Operators,
           \/ \E kind \in {"release", "migrate"} : Begin(o, kind)
           \/ \E v \in Versions : BeginRollback(o, v)
           \/ Kill(o)
    PROVE  ServeInv'
<1>1. cmd \in [Operators -> CmdRecords] /\ \A p \in Operators : p = o
    BY DEF OneOperator, Typed, TypeOK, CmdRecords
<1>2. UNCHANGED service
    BY DEF Begin, BeginRollback, Kill, awsVars
<1>3. cmd'[o].pc # "wait" /\ CommandInv(o)'
    <2>1. CASE Kill(o)
        <3>1. cmd'[o] = Idle
            BY <1>1, <2>1 DEF Kill, Finish
        <3> QED  BY <3>1, IdleInv DEF Idle
    <2>2. ASSUME NEW kind \in {"release", "migrate"}, Begin(o, kind)
          PROVE  cmd'[o].pc # "wait" /\ CommandInv(o)'
        <3>1. /\ cmd'[o].pc \in {"push", "migrate"} /\ cmd'[o].kind = kind
              /\ kind = "release" => cmd'[o].pc = "push"
              /\ cmd'[o].owners = Owners /\ ~cmd'[o].first
            BY <1>1, <2>2 DEF Begin, Idle
        <3> QED  BY <3>1 DEF CommandInv, Migrated, FirstIsFresh, Settled, AfterApply, Sighted,
                             Reconciled, Deployed, At
    <2>3. ASSUME NEW v \in Versions, BeginRollback(o, v)
          PROVE  cmd'[o].pc # "wait" /\ CommandInv(o)'
        <3>1. cmd'[o].pc = "push" /\ cmd'[o].kind = "rollback" /\ ~cmd'[o].first
            BY <1>1, <2>3 DEF BeginRollback, Idle
        <3> QED  BY <3>1 DEF CommandInv, Migrated, FirstIsFresh, Settled, AfterApply, Sighted,
                             Reconciled, Deployed, At
    <2> QED  BY <2>1, <2>2, <2>3
<1> QED  BY <1>1, <1>2, <1>3, TaskVersionsStep DEF ServeInv

\* What the apply, and the redeployment after it, make of the services.
LEMMA ServicesStep ==
    ASSUME Typed, NEW o \in Operators, CommandStep(o),
           \A s \in Services : service[s].clear \subseteq service[s].sees
    PROVE  \A s \in Services : service'[s].clear \subseteq service'[s].sees
<1>1. service \in [Services -> Deployments] /\ cmd[o].version \in 0..MaxVersion
    BY DEF Typed, TypeOK
<1>2. CASE UNCHANGED service
    BY <1>2
<1>3. ASSUME NEW c \in Services, NEW v \in 0..MaxVersion, NEW d \in NewDeployments(v),
             service' = [service EXCEPT ![c] = d]
      PROVE  \A s \in Services : service'[s].clear \subseteq service'[s].sees
    BY <1>1, <1>3, NewDeploymentFacts DEF Typed
<1>4. ASSUME NEW s \in Services, Undeploy(o, s)
      PROVE  \A c \in Services : service'[c].clear \subseteq service'[c].sees
    BY <1>1, <1>4, ForgetsFacts DEF Undeploy, Absent
<1>5. ASSUME NEW s \in Services, Deploy(o, s)
      PROVE  \A c \in Services : service'[c].clear \subseteq service'[c].sees
    BY <1>1, <1>3, <1>5 DEF Deploy
<1>6. ASSUME NEW c \in Services, ForceNewDeployment(o, c)
      PROVE  \A s \in Services : service'[s].clear \subseteq service'[s].sees
    <2>1. service[c].version \in 0..MaxVersion
        BY <1>1 DEF Deployments
    <2> QED  BY <1>1, <1>2, <1>3, <1>6, <2>1 DEF ForceNewDeployment
<1> QED  BY <1>2, <1>4, <1>5, <1>6
         DEF CommandStep, PushSSM, Detect, TakeLock, RegisterMigrateDef, RunTask, ApplyDone, ApplyFails,
             MigrationsDone, WaitTimesOut, Reconcile, Return, awsVars

LEMMA ServeCommand ==
    ASSUME Typed, Typed', ServeInv, OneOperator, NEW o \in Operators, CommandStep(o)
    PROVE  ServeInv'
<1>1. /\ cmd \in [Operators -> CmdRecords] /\ CommandInv(o) /\ \A p \in Operators : p = o
      /\ service \in [Services -> Deployments] /\ cmd[o].version \in Versions
      /\ cmd[o] \in CmdRecords
    BY StepMoves DEF ServeInv, OneOperator, Typed, TypeOK, CmdRecords, Versioned
<1>2. \A s \in Services : service'[s].clear \subseteq service'[s].sees
    BY ServicesStep DEF ServeInv
<1>3. ASSUME TaskVersions', CommandInv(o)' PROVE ServeInv'
    BY <1>1, <1>2, <1>3 DEF ServeInv
<1>4. ASSUME cmd'[o].pc # "wait", CommandInv(o)' PROVE ServeInv'
    BY <1>3, <1>4, TaskVersionsStep
<1>5. ASSUME Finish(o) PROVE ServeInv'
    <2>1. cmd'[o] = Idle
        BY <1>1, <1>5 DEF Finish
    <2> QED  BY <1>4, <2>1, IdleInv DEF Idle
<1>6. ASSUME NEW pc, Goto(o, pc)
      PROVE  /\ cmd'[o].pc = pc /\ SameRun(o) /\ cmd'[o].first = cmd[o].first
             /\ cmd'[o].owners = cmd[o].owners /\ cmd'[o].stale = cmd[o].stale
    BY <1>1, <1>6 DEF Goto, SameRun, CmdRecords
<1> DEFINE Parts == Migrated(o)' /\ FirstIsFresh(o)' /\ Settled(o)' /\ Sighted(o)' /\ Reconciled(o)'
<1>7. CASE PushSSM(o)
    <2>1. CASE Finish(o)
        BY <1>5, <2>1
    <2>2. CASE ~Finish(o)
        <3>1. /\ Goto(o, IF cmd[o].kind = "rollback" THEN "apply" ELSE "detect")
              /\ cmd[o].pc = "push" /\ UNCHANGED <<schema, service>>
            BY <1>7, <2>2 DEF PushSSM, At
        <3>2. /\ cmd'[o].pc \in {"apply", "detect"} /\ ~cmd[o].first
              /\ cmd[o].kind # "rollback" => cmd'[o].pc = "detect"
            BY <1>1, <1>6, <3>1 DEF CommandInv, FirstIsFresh
        <3>3. Parts
            BY <1>1, <1>6, <3>1, <3>2 DEF CommandInv, Migrated, FirstIsFresh, Settled, AfterApply,
                                          Sighted, Reconciled, Deployed, At, SameRun
        <3> QED  BY <1>4, <3>2, <3>3 DEF CommandInv
    <2> QED  BY <2>1, <2>2
<1>8. CASE Detect(o)
    <2> DEFINE first == \A s \in Services : ~Present(s)
    <2>1. /\ cmd'[o].pc = IF first THEN "apply" ELSE IF Owners = {} THEN "migrate" ELSE "target"
          /\ cmd'[o].first = first /\ SameRun(o) /\ cmd'[o].owners = cmd[o].owners
          /\ UNCHANGED <<schema, service>>
        <3> HIDE DEF first
        <3>1. cmd' = [cmd EXCEPT ![o].first = first,
                         ![o].pc = IF first THEN "apply"
                                   ELSE IF Owners = {} THEN "migrate" ELSE "target"]
            BY <1>8 DEF Detect, first
        <3>2. UNCHANGED <<schema, service>>
            BY <1>8 DEF Detect, awsVars
        <3>3. /\ cmd'[o].pc = IF first THEN "apply" ELSE IF Owners = {} THEN "migrate" ELSE "target"
              /\ cmd'[o].first = first
              /\ cmd'[o].version = cmd[o].version /\ cmd'[o].kind = cmd[o].kind
              /\ cmd'[o].owners = cmd[o].owners
            BY <1>1, <3>1 DEF CmdRecords
        <3> QED  BY <3>2, <3>3 DEF SameRun
    <2>2. cmd[o].owners \subseteq Owners
        BY <1>1 DEF CmdRecords
    <2>3. first => \A s \in Services : Present(s)' => service'[s].version = cmd'[o].version
        BY <2>1 DEF Present
    <2> HIDE DEF first
    <2>4. Parts
        BY <1>1, <2>1, <2>2, <2>3 DEF CommandInv, Migrated, FirstIsFresh, Settled, AfterApply, Sighted,
                                      Reconciled, Deployed, At, SameRun
    <2> QED  BY <1>4, <2>1, <2>4 DEF CommandInv
<1>9. CASE TakeLock(o)
    <2>1. CASE Finish(o)
        BY <1>5, <2>1
    <2>2. CASE ~Finish(o)
        <3>1. /\ Goto(o, IF cmd[o].pc = "target" THEN "targeting" ELSE "applying")
              /\ cmd[o].pc \in {"target", "apply"} /\ UNCHANGED <<schema, service>>
            BY <1>9, <2>2 DEF TakeLock, At
        <3>2. \/ cmd[o].pc = "target" /\ cmd'[o].pc = "targeting"
              \/ cmd[o].pc = "apply" /\ cmd'[o].pc = "applying"
            BY <1>6, <3>1
        <3>3. Parts
            BY <1>1, <1>6, <3>1, <3>2 DEF CommandInv, Migrated, FirstIsFresh, Settled, AfterApply,
                                          Sighted, Reconciled, Deployed, At, SameRun, Present
        <3> QED  BY <1>4, <3>2, <3>3 DEF CommandInv
    <2> QED  BY <2>1, <2>2
<1>10. ASSUME NEW w \in Owners, RegisterMigrateDef(o, w) PROVE ServeInv'
    <2>1. UNCHANGED <<cmd, schema, service>> /\ cmd[o].pc \in {"targeting", "applying"}
        BY <1>10 DEF RegisterMigrateDef, Applying
    <2>2. Parts
        BY <1>1, <2>1 DEF CommandInv, Migrated, FirstIsFresh, Settled, AfterApply, Sighted, Reconciled,
                          Deployed, At, Present
    <2> QED  BY <1>4, <2>1, <2>2 DEF CommandInv
<1>11. ASSUME NEW s \in Services, Deploy(o, s) PROVE ServeInv'
    <2>1. /\ UNCHANGED <<cmd, schema>> /\ cmd[o].pc = "applying"
          /\ \E d \in NewDeployments(cmd[o].version) : service' = [service EXCEPT ![s] = d]
        BY <1>11 DEF Deploy, At
    <2>2. cmd[o].version \in 0..MaxVersion
        BY <1>1 DEF CmdRecords
    <2>3. service'[s].version = cmd[o].version /\ \A c \in Services \ {s} : service'[c] = service[c]
        BY <1>1, <2>1, <2>2, NewDeploymentFacts DEF Typed
    <2>4. Parts
        BY <1>1, <2>1, <2>3 DEF CommandInv, Migrated, FirstIsFresh, Settled, AfterApply, Sighted,
                                Reconciled, Deployed, At, Present
    <2> QED  BY <1>4, <2>1, <2>4 DEF CommandInv
<1>12. ASSUME NEW s \in Services, Undeploy(o, s) PROVE ServeInv'
    <2>1. /\ UNCHANGED <<cmd, schema>> /\ cmd[o].pc = "applying"
          /\ service' = [c \in Services |-> IF c = s THEN Absent ELSE Forgets(service[c], s)]
        BY <1>12 DEF Undeploy, At
    <2>2. \A c \in Services : /\ Present(c)' => Present(c)
                              /\ Present(c)' => service'[c].version = service[c].version
        BY <1>1, <2>1, ForgetsFacts DEF Present
    <2>3. Parts
        BY <1>1, <2>1, <2>2 DEF CommandInv, Migrated, FirstIsFresh, Settled, AfterApply, Sighted,
                                Reconciled, Deployed, At
    <2> QED  BY <1>4, <2>1, <2>3 DEF CommandInv
<1>13. CASE ApplyDone(o)
    <2>1. /\ cmd[o].pc \in {"targeting", "applying"}
          /\ Goto(o, IF cmd[o].pc = "targeting" \/ cmd[o].first THEN "migrate" ELSE "reconcile")
          /\ \A w \in Owners : migrateDef[w] = cmd[o].version
          /\ cmd[o].pc = "applying" => ServicesConverged(cmd[o].version) /\ racing' = {}
          /\ UNCHANGED <<schema, service, migrateDef>>
        BY <1>13 DEF ApplyDone, DefsConverged, At, Applying
    <2>2. /\ cmd'[o].pc \in {"migrate", "reconcile"} /\ cmd[o].owners \subseteq Owners
          /\ cmd'[o].pc = "reconcile" <=> cmd[o].pc = "applying" /\ ~cmd[o].first
          /\ cmd[o].pc = "targeting" => ~cmd[o].first
        BY <1>1, <1>6, <2>1 DEF CmdRecords, CommandInv, FirstIsFresh
    <2>3. Parts
        BY <1>1, <1>6, <2>1, <2>2 DEF CommandInv, Migrated, FirstIsFresh, Settled, AfterApply, Sighted,
                                      Reconciled, Deployed, At, SameRun, ServicesConverged
    <2> QED  BY <1>4, <2>2, <2>3 DEF CommandInv
<1>14. CASE MigrationsDone(o)
    <2>1. /\ cmd[o].pc = "migrate" /\ cmd[o].owners = {} /\ UNCHANGED <<schema, service, racing>>
          /\ Goto(o, CASE cmd[o].kind = "migrate" -> "released"
                       [] cmd[o].first            -> "reconcile"
                       [] OTHER                   -> "apply")
        BY <1>14 DEF MigrationsDone, At, awsVars, names
    <2>2. \/ cmd'[o].pc = "released" /\ cmd[o].kind = "migrate"
          \/ cmd'[o].pc = "reconcile" /\ cmd[o].first
          \/ cmd'[o].pc = "apply" /\ ~cmd[o].first
        <3>1. CASE cmd[o].kind = "migrate"
            BY <1>6, <2>1, <3>1
        <3>2. CASE cmd[o].kind # "migrate" /\ cmd[o].first
            BY <1>6, <2>1, <3>2
        <3>3. CASE cmd[o].kind # "migrate" /\ ~cmd[o].first
            BY <1>6, <2>1, <3>3
        <3> QED  BY <3>1, <3>2, <3>3
    <2>3. SameRun(o) /\ cmd'[o].first = cmd[o].first /\ cmd'[o].owners = cmd[o].owners
        BY <1>6, <2>1
    <2>4. Parts
        BY <1>1, <2>1, <2>2, <2>3 DEF CommandInv, Migrated, FirstIsFresh, Settled, AfterApply, Sighted,
                                      Reconciled, Deployed, At, SameRun, ServicesConverged
    <2> QED  BY <1>4, <2>2, <2>4 DEF CommandInv
<1>15. ASSUME NEW w \in Owners, RunTask(o, w) PROVE ServeInv'
    <2>1. CASE Finish(o)
        BY <1>5, <2>1
    <2>2. CASE ~Finish(o)
        <3> DEFINE new == [owner |-> w, version |-> migrateDef[w], by |-> o]
        <3>1. /\ Goto(o, "wait") /\ cmd[o].pc = "migrate" /\ w \in cmd[o].owners
              /\ running' = running \cup {new}
              /\ UNCHANGED <<schema, service, migrateDef, racing>>
            BY <1>15, <2>2 DEF RunTask, At, names
        <3>2. new.by = o /\ new.version = migrateDef[w]
            OBVIOUS
        <3> HIDE DEF new
        <3>3. cmd[o].kind = "release" => migrateDef[w] = cmd[o].version
            BY <1>1, <3>1 DEF CommandInv, Migrated
        <3>4. TaskVersions'
            <4>1. ASSUME NEW t \in running', t.by # NoOne, cmd'[t.by].kind = "release"
                  PROVE  t.version = cmd'[t.by].version
                <5>1. t.by = o
                    BY <1>1, <4>1 DEF Typed, TypeOK, Tasks
                <5>2. CASE t = new
                    BY <1>6, <3>1, <3>2, <3>3, <4>1, <5>1, <5>2 DEF SameRun
                <5>3. CASE t \in running
                    BY <1>6, <3>1, <4>1, <5>1, <5>3 DEF ServeInv, TaskVersions, SameRun
                <5> QED  BY <3>1, <5>2, <5>3
            <4> QED  BY <4>1 DEF TaskVersions
        <3>5. Parts
            BY <1>1, <1>6, <3>1 DEF CommandInv, Migrated, FirstIsFresh, Settled, AfterApply, Sighted,
                                    Reconciled, Deployed, At, SameRun, ServicesConverged
        <3> QED  BY <1>3, <3>4, <3>5 DEF CommandInv
    <2> QED  BY <2>1, <2>2
<1>16. ASSUME cmd[o].pc \in {"reconcile", "force"}
       PROVE  \A s \in Shape[cmd[o].version] : s \in Services /\ Present(s)
    <2>1. ServicesConverged(cmd[o].version)
        BY <1>1, <1>16 DEF CommandInv, Settled, AfterApply
    <2>2. \A s \in Shape[cmd[o].version] : s \in Services
        BY <1>1, ShapeAssumption DEF Versions
    <2>3. cmd[o].version # 0
        BY <1>1 DEF Versions
    <2> QED  BY <2>1, <2>2, <2>3 DEF ServicesConverged, Present, Absent
<1>17. CASE Reconcile(o)
    <2> DEFINE stale == Stale(cmd[o].version)
    <2>1. /\ cmd[o].pc = "reconcile" /\ UNCHANGED <<schema, service, racing>>
          /\ cmd' = [cmd EXCEPT ![o].stale = stale,
                        ![o].pc = IF stale = {} THEN "released" ELSE "force"]
        BY <1>17 DEF Reconcile, At, awsVars, names
    <2>2. \A c, t \in Shape[cmd[o].version] :
              <<c, t>> \in Uses => c \in stale \/ t \in service[c].sees
        BY <1>16, <2>1 DEF Stale, ServeInv
    <2> HIDE DEF stale
    <2>3. /\ cmd'[o].stale = stale /\ cmd'[o].pc \in {"released", "force"}
          /\ cmd'[o].pc = "released" => stale = {}
          /\ SameRun(o) /\ cmd'[o].owners = cmd[o].owners
        BY <1>1, <2>1 DEF CmdRecords, SameRun
    <2>4. Parts
        BY <1>1, <2>1, <2>2, <2>3 DEF CommandInv, Migrated, FirstIsFresh, Settled, AfterApply, Sighted,
                                      Reconciled, Deployed, At, SameRun, ServicesConverged
    <2> QED  BY <1>4, <2>3, <2>4 DEF CommandInv
<1>18. ASSUME NEW c \in Services, ForceNewDeployment(o, c) PROVE ServeInv'
    <2>1. CASE Finish(o)
        BY <1>5, <2>1
    <2>2. CASE ~Finish(o)
        <3> DEFINE rest == cmd[o].stale \ {c}
        <3>1. /\ cmd[o].pc = "force" /\ c \in cmd[o].stale
              /\ \E d \in NewDeployments(service[c].version) : service' = [service EXCEPT ![c] = d]
              /\ cmd' = [cmd EXCEPT ![o].stale = rest, ![o].pc = IF rest = {} THEN "released" ELSE @]
              /\ UNCHANGED <<schema, racing>>
            BY <1>18, <2>2 DEF ForceNewDeployment, At, names
        <3>2. service[c].version \in 0..MaxVersion /\ racing = {} /\ ServicesConverged(cmd[o].version)
            BY <1>1, <3>1 DEF Deployments, CommandInv, Settled, AfterApply
        <3>3. /\ service'[c].version = service[c].version
              /\ service'[c].sees = {s \in Services : Present(s)}
              /\ \A s \in Services \ {c} : service'[s] = service[s]
            BY <1>1, <3>1, <3>2, NewDeploymentFacts DEF Typed
        <3>4. \A b, t \in Shape[cmd[o].version] :
                  <<b, t>> \in Uses => b \in rest \/ t \in service'[b].sees
            <4> SUFFICES ASSUME NEW b \in Shape[cmd[o].version], NEW t \in Shape[cmd[o].version],
                                <<b, t>> \in Uses, b \notin rest
                         PROVE  t \in service'[b].sees
                OBVIOUS
            <4>1. CASE b = c
                BY <1>16, <3>1, <3>3, <4>1
            <4>2. CASE b # c
                <5>1. b \notin cmd[o].stale /\ b \in Services
                    BY <1>16, <3>1, <4>2
                <5>2. t \in service[b].sees
                    BY <1>1, <3>1, <5>1 DEF CommandInv, Sighted, At
                <5> QED  BY <3>3, <4>2, <5>1, <5>2
            <4> QED  BY <4>1, <4>2
        <3> HIDE DEF rest
        <3>5. /\ cmd'[o].stale = rest /\ cmd'[o].pc \in {"released", "force"}
              /\ cmd'[o].pc = "released" => rest = {}
              /\ SameRun(o) /\ cmd'[o].owners = cmd[o].owners
            BY <1>1, <3>1 DEF CmdRecords, SameRun
        <3>6. ServicesConverged(cmd[o].version)'
            BY <1>1, <3>2, <3>3, <3>5 DEF ServicesConverged, SameRun
        <3>7. Parts
            BY <1>1, <3>1, <3>2, <3>4, <3>5, <3>6
               DEF CommandInv, Migrated, FirstIsFresh, Settled, AfterApply, Sighted, Reconciled,
                   Deployed, At, SameRun
        <3> QED  BY <1>4, <3>5, <3>7 DEF CommandInv
    <2> QED  BY <2>1, <2>2
<1> QED  BY <1>5, <1>7, <1>8, <1>9, <1>10, <1>11, <1>12, <1>13, <1>14, <1>15, <1>17, <1>18
         DEF CommandStep, ApplyFails, WaitTimesOut, Return


LEMMA ServeAlways == ASSUME OneOperator PROVE Spec => [](Typed /\ ServeInv)
<1>1. ASSUME Init PROVE ServeInv
    <2>1. \A o \in Operators : cmd[o] = Idle
        BY <1>1 DEF Init
    <2>2. \A s \in Services : service[s].clear \subseteq service[s].sees
        BY <1>1 DEF Init, Absent
    <2>3. \A o \in Operators : CommandInv(o)
        BY <2>1, IdleInv
    <2> QED  BY <1>1, <2>2, <2>3 DEF Init, ServeInv, TaskVersions
<1>2. ASSUME Typed, Typed', ServeInv, [Next]_vars PROVE ServeInv'
    <2>1. CASE UNCHANGED vars
        <3>1. UNCHANGED <<cmd, service, migrateDef, schema, racing, running>>
            BY <2>1 DEF vars, awsVars, names
        <3>2. ASSUME NEW o \in Operators PROVE CommandInv(o)'
            <4>1. \A w \in Owners : schema'[w] >= schema[w]
                BY <1>2, <3>1 DEF Typed, TypeOK
            <4> QED  BY <1>2, <3>1, <4>1, CarriesOn DEF ServeInv
        <3> QED  BY <1>2, <3>1, <3>2 DEF ServeInv, TaskVersions
    <2>2. CASE Operators = {}
        <3>1. UNCHANGED service \/ UNCHANGED vars
            BY <1>2, <2>2 DEF Next, TaskSucceeds, TaskFails, TimePasses, NextVersion, EditSecrets, awsVars
        <3>2. UNCHANGED service
            BY <3>1 DEF vars, awsVars
        <3>3. TaskVersions'
            BY <1>2, <2>2 DEF TaskVersions, Typed, TypeOK, Tasks
        <3> QED  BY <1>2, <2>2, <3>2, <3>3 DEF ServeInv
    <2>3. ASSUME NEW o \in Operators, Next PROVE ServeInv'
        <3>1. ASSUME \E t \in running : TaskSucceeds(t) \/ TaskFails(t) PROVE ServeInv'
            BY <1>2, <3>1, ServeOthers
        <3>2. ASSUME TimePasses \/ NextVersion \/ EditSecrets PROVE ServeInv'
            BY <1>2, <3>2, ServeOthers
        <3>3. ASSUME NEW p \in Operators, ForceUnlock(p) PROVE ServeInv'
            BY <1>2, <3>3, ServeOthers
        <3>4. ASSUME NEW p \in Operators, CommandStep(p) PROVE ServeInv'
            BY <1>2, <3>4, ServeCommand
        <3>5. ASSUME NEW p \in Operators,
                     \/ \E kind \in {"release", "migrate"} : Begin(p, kind)
                     \/ \E v \in Versions : BeginRollback(p, v)
                     \/ Kill(p)
              PROVE  ServeInv'
            BY <1>2, <3>5, ServeLaunch
        <3> QED  BY <2>3, <3>1, <3>2, <3>3, <3>4, <3>5 DEF Next
    <2> QED  BY <1>2, <2>1, <2>2, <2>3
<1>3. ASSUME Typed, Typed', ServeInv PROVE [Next]_vars => ServeInv'
    BY <1>2, <1>3
<1> QED  BY <1>1, <1>3, TypedAlways, PTL DEF Spec

\* With one operator to an env, whatever failed, was killed or edited before,
\* a release or rollback that returns 0 has left the services of its version,
\* each on it, a release the schemas at least that new, and every consumer on a
\* deployment that resolves the names it uses.
THEOREM SuccessServes == ASSUME OneOperator PROVE Spec => []SuccessIsServing
<1>1. ASSUME Typed, ServeInv PROVE SuccessIsServing
    <2> SUFFICES ASSUME NEW o \in Operators, Deployed(o)
                 PROVE  /\ ServicesConverged(cmd[o].version)
                        /\ cmd[o].kind = "release" =>
                              \A w \in Owners : schema[w] >= cmd[o].version
                        /\ Resolves(cmd[o].version)
        BY DEF SuccessIsServing
    <2>1. CommandInv(o)
        BY <1>1 DEF ServeInv
    <2>2. cmd[o].kind = "release" => \A w \in Owners : schema[w] >= cmd[o].version
        BY <2>1 DEF CommandInv, Migrated, Deployed, At
    <2>3. Resolves(cmd[o].version)
        BY <2>1 DEF CommandInv, Sighted, Reconciled, Resolves
    <2>4. ServicesConverged(cmd[o].version)
        BY <2>1 DEF CommandInv, Settled, AfterApply
    <2> QED  BY <2>2, <2>3, <2>4
<1> QED  BY <1>1, ServeAlways, PTL

\* With one operator to an env, no step of a release brings a service to its
\* version, in an env that has services, before every schema is at least there.
THEOREM SchemaFirst == ASSUME OneOperator PROVE Spec => SchemaBeforeCode
<1> DEFINE A == \A o \in Operators, s \in Services :
          (/\ At(o, "applying") /\ cmd[o].kind = "release"
           /\ Present(s) \/ ~cmd[o].first
           /\ cmd'[o].pc = "applying"
           /\ service'[s].version > service[s].version)
              => \A w \in Owners : schema[w] >= service'[s].version
<1>1. ASSUME Typed, ServeInv, [Next]_vars PROVE [A]_vars
    <2> SUFFICES ASSUME Next, NEW o \in Operators, NEW s \in Services, NEW w \in Owners,
                        At(o, "applying"), cmd[o].kind = "release", Present(s) \/ ~cmd[o].first,
                        cmd'[o].pc = "applying", service'[s].version > service[s].version
                 PROVE  schema[w] >= service'[s].version
        BY <1>1
    <2>1. /\ CommandInv(o) /\ service \in [Services -> Deployments] /\ cmd \in [Operators -> CmdRecords]
          /\ service[s].version \in 0..MaxVersion /\ \A p \in Operators : p = o
          /\ cmd[o].version \in 0..MaxVersion /\ cmd[o].version \in Versions
        BY <1>1 DEF ServeInv, Typed, TypeOK, CmdRecords, Deployments, OneOperator, Versioned, At
    <2>2. service'[s] # service[s]
        BY <2>1
    <2>3. CASE \E c \in Services : Deploy(o, c)
        <3> PICK c \in Services : Deploy(o, c)
            BY <2>3
        <3> PICK d \in NewDeployments(cmd[o].version) : service' = [service EXCEPT ![c] = d]
            BY DEF Deploy
        <3>0. d.version = cmd[o].version
            BY <1>1, <2>1, NewDeploymentFacts DEF Typed
        <3>1. /\ Deploy(o, s) /\ service'[s].version = cmd[o].version
            BY <2>1, <2>2, <3>0
        <3>2. service[s].version # cmd[o].version
            BY <3>1 DEF Deploy
        <3>3. ~cmd[o].first
            BY <2>1, <3>2 DEF CommandInv, FirstIsFresh, At
        <3>4. cmd[o].owners = {}
            BY <2>1, <3>3 DEF CommandInv, Migrated, At
        <3> QED  BY <2>1, <3>1, <3>4 DEF CommandInv, Migrated
    <2>4. CASE \E c \in Services : Undeploy(o, c)
        <3>1. service'[s] = Absent \/ service'[s].version = service[s].version
            BY <2>1, <2>4, ForgetsFacts DEF Undeploy
        <3>2. service'[s].version = 0 \/ service'[s].version = service[s].version
            BY <3>1 DEF Absent
        <3> QED  BY <2>1, <3>2
    <2>5. CASE UNCHANGED service
        BY <2>2, <2>5
    <2>6. \A p \in Operators : ~\E c \in Services : ForceNewDeployment(p, c)
        BY <2>1 DEF ForceNewDeployment, At
    <2> QED  BY <2>1, <2>3, <2>4, <2>5, <2>6
             DEF Next, CommandStep, Begin, BeginRollback, Kill, ForceUnlock, TimePasses, NextVersion,
                 EditSecrets, TaskSucceeds, TaskFails, PushSSM, Detect, TakeLock, RegisterMigrateDef,
                 RunTask, ApplyDone, ApplyFails, MigrationsDone, WaitTimesOut, Reconcile, Return, awsVars
<1>2. ASSUME OneOperator PROVE Spec => [][A]_vars
    BY <1>1, ServeAlways, PTL DEF Spec
<1> QED  BY <1>2 DEF SchemaBeforeCode

=============================================================================
