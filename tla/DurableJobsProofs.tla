------------------------- MODULE DurableJobsProofs -------------------------
(***************************************************************************)
(* Theorems about DurableJobs for any number of foregrounds, scopes, runs  *)
(* and faults.                                                             *)
(***************************************************************************)
EXTENDS DurableJobs, TLAPS

----------------------------------------------------------------------------
(* The inductive invariant.                                                *)

\* Between creating its record and starting its vessel a launcher has the
\* run to itself: no body has run and nothing else reports a launch failure.
Pending == {"launch", "start", "conflict", "failStatus", "failExit"}
Owning == Pending \cup {"markRunning"}

LaunchersApart ==
    \A c, d \in Clients :
        (cpc[c] \in Owning /\ cpc[d] \in Owning /\ crun[c] = crun[d]) => c = d

LauncherOwnsRun ==
    \A c \in Clients :
        /\ cpc[c] \in Owning =>
            /\ crun[c] \in Recorded
            /\ meta[crun[c]] = cscope[c]
        /\ cpc[c] \in Pending =>
            /\ vessel[crun[c]] # "running"
            /\ job[crun[c]] = "boot"
            /\ exit[crun[c]] # LaunchError
        /\ cpc[c] \in {"orphanExit", "orphanStatus", "reclaim"} =>
            crun[c] \in Recorded
        /\ cpc[c] = "launch" => vessel[crun[c]] = "none"
        /\ cpc[c] \in {"inspect", "create"} \cup ReapStates =>
            cscope[c] \in Scopes

\* A run without a record has no vessel and no exit.
UnrecordedIsFresh ==
    \A r \in Runs : r \notin Recorded =>
        vessel[r] = "none" /\ job[r] = "boot" /\ exit[r] = NoExit

\* What is up belongs to the run that brought it up, whose body got that far
\* and has not passed, unless a teardown has failed.
HolderIsEntitled ==
    \A x \in Resources, r \in Runs : held[x] = r =>
        /\ x \in Owns(meta[r])
        /\ job[r] \notin {"boot", "body"}
        /\ job[r] \in {"status", "exit", "done"} =>
              rc[r] = 1 \/ faults["teardown"] > 0

IInv ==
    /\ TypeOK
    /\ NameIsLock
    /\ ExitIsHonest
    /\ LaunchersApart
    /\ LauncherOwnsRun
    /\ UnrecordedIsFresh
    /\ HolderIsEntitled

----------------------------------------------------------------------------
(* Type correctness.                                                       *)

LEMMA TypeInit == Init => TypeOK
  BY
  DEF Init, TypeOK, ClientStates, ReapStates, LaunchStates, ReadStates,
      StatusStates, Terminal, VesselStates, JobStates, FaultKinds

\* Every step of a foreground keeps the types.
LEMMA TypeClientStep ==
  ASSUME TypeOK, NEW c \in Clients, ClientStep(c)
  PROVE  TypeOK'
  <1> USE DEF TypeOK, ClientStates, ReapStates, LaunchStates, ReadStates,
          StatusStates, Terminal, Codes, recordVars, vesselVars, Goto,
          GotoWith, Return, Fault
  <1>1. CASE Inspect(c)
    BY <1>1 DEF Inspect
  <1>2. CASE InspectFails(c)
    BY <1>2 DEF InspectFails, FaultKinds
  <1>3. CASE FindRecord(c)
    BY <1>3 DEF FindRecord
  <1>4. CASE OrphanExit(c)
    BY <1>4 DEF OrphanExit
  <1>5. CASE OrphanStatus(c)
    BY <1>5 DEF OrphanStatus
  <1>6. CASE Reclaim(c)
    BY <1>6 DEF Reclaim, Without, FaultKinds
  <1>7. CASE RemoveVessel(c)
    BY <1>7 DEF RemoveVessel, VesselStates
  <1>8. CASE CreateRecord(c)
    BY <1>8 DEF CreateRecord
  <1>9. CASE CreateVessel(c)
    BY <1>9 DEF CreateVessel, VesselStates
  <1>10. CASE StartVessel(c)
    BY <1>10 DEF StartVessel, VesselStates
  <1>11. CASE LoseRace(c)
    BY <1>11 DEF LoseRace
  <1>12. CASE FailStatus(c)
    BY <1>12 DEF FailStatus
  <1>13. CASE FailExit(c)
    BY <1>13 DEF FailExit
  <1>14. CASE MarkRunning(c)
    BY <1>14 DEF MarkRunning
  <1>15. CASE ReadExit(c)
    BY <1>15 DEF ReadExit
  <1>16. CASE ClassifyVessel(c)
    BY <1>16 DEF ClassifyVessel
  <1>17. CASE PrintOrphanRow(c)
    BY <1>17 DEF PrintOrphanRow
  <1>18. QED
    BY <1>1, <1>2, <1>3, <1>4, <1>5, <1>6, <1>7, <1>8, <1>9, <1>10, <1>11,
       <1>12, <1>13, <1>14, <1>15, <1>16, <1>17 DEF ClientStep

\* So does what the operator does with it.
LEMMA TypeClientCommand ==
  ASSUME TypeOK, NEW c \in Clients, ClientCommand(c)
  PROVE  TypeOK'
  <1> USE DEF TypeOK, ClientStates, ReapStates, LaunchStates, ReadStates,
          recordVars, vesselVars, Goto, GotoWith, Return, Fault
  <1>1. ASSUME NEW s \in Scopes, BeginLaunch(c, s) PROVE TypeOK'
    BY <1>1 DEF BeginLaunch
  <1>2. ASSUME NEW r \in Runs, BeginWait(c, r) \/ BeginClassify(c, r)
        PROVE TypeOK'
    BY <1>2 DEF BeginWait, BeginClassify
  <1>3. CASE StopWaiting(c)
    BY <1>3 DEF StopWaiting
  <1>4. CASE KillClient(c)
    BY <1>4 DEF KillClient, FaultKinds
  <1>5. QED
    BY <1>1, <1>2, <1>3, <1>4 DEF ClientCommand

\* And every step and every kill of a vessel.
LEMMA TypeVesselStep ==
  ASSUME TypeOK, NEW r \in Runs, VesselStep(r) \/ KillVessel(r)
  PROVE  TypeOK'
  <1> USE DEF TypeOK, clientVars, recordVars, InVessel, JobStates
  <1>1. CASE VesselBoots(r)
    BY <1>1 DEF VesselBoots, StatusStates
  <1>2. CASE BodyStarts(r)
    BY <1>2 DEF BodyStarts
  <1>3. CASE BodyDeclines(r)
    BY <1>3 DEF BodyDeclines
  <1>4. CASE BodyEnds(r)
    BY <1>4 DEF BodyEnds, Without, Fault, FaultKinds
  <1>5. CASE FinalStatus(r)
    BY <1>5 DEF FinalStatus, StatusStates, Terminal
  <1>6. CASE WriteExit(r)
    BY <1>6 DEF WriteExit, Codes
  <1>7. CASE VesselExits(r)
    BY <1>7 DEF VesselExits, VesselStates
  <1>8. CASE KillVessel(r)
    BY <1>8 DEF KillVessel, VesselStates, Fault, FaultKinds
  <1>9. QED
    BY <1>1, <1>2, <1>3, <1>4, <1>5, <1>6, <1>7, <1>8 DEF VesselStep

LEMMA TypeNext == TypeOK /\ [Next]_vars => TypeOK'
  <1> SUFFICES ASSUME TypeOK, [Next]_vars PROVE TypeOK'
    OBVIOUS
  <1>1. CASE UNCHANGED vars
    BY <1>1 DEF TypeOK, vars, clientVars, recordVars, vesselVars
  <1>2. CASE Next
    BY <1>2, TypeClientStep, TypeClientCommand, TypeVesselStep DEF Next
  <1>3. QED
    BY <1>1, <1>2

\* The state of every process, record and container stays in its range.
THEOREM TypeCorrect == Spec => []TypeOK
  BY TypeInit, TypeNext, PTL DEF Spec

----------------------------------------------------------------------------
(* The invariant is inductive.                                             *)

LEMMA InvInit == Init => IInv
  <1> SUFFICES ASSUME Init PROVE IInv
    OBVIOUS
  <1>1. TypeOK
    BY TypeInit
  <1>2. NameIsLock /\ UnrecordedIsFresh
    BY DEF Init, NameIsLock, UnrecordedIsFresh, Recorded
  <1>3. ExitIsHonest
    BY DEF Init, ExitIsHonest, NoExit, LaunchError, Runs, NoRun
  <1>4. LaunchersApart /\ LauncherOwnsRun
    BY DEF Init, LaunchersApart, LauncherOwnsRun, Owning, Pending, ReapStates
  <1>5. HolderIsEntitled
    BY DEF Init, HolderIsEntitled, Runs, NoRun
  <1>6. QED
    BY <1>1, <1>2, <1>3, <1>4, <1>5 DEF IInv

\* Docker's name arbiter: only a free name is taken, and only by a run whose
\* launcher is at `docker run`.
LEMMA NameStep ==
  ASSUME TypeOK, NameIsLock, LauncherOwnsRun, UnrecordedIsFresh, TypeOK', [Next]_vars
  PROVE  NameIsLock'
  <1> USE DEF NameIsLock, LauncherOwnsRun, UnrecordedIsFresh, TypeOK, Goto,
          GotoWith, Return, recordVars, vesselVars, clientVars, Pending,
          Owning, Recorded, InVessel
  <1>1. ASSUME NEW c \in Clients, ClientStep(c) PROVE NameIsLock'
    <2>1. CASE RemoveVessel(c)
      BY <2>1 DEF RemoveVessel, Named
    <2>2. CASE CreateRecord(c)
      BY <2>2 DEF CreateRecord
    <2>3. CASE CreateVessel(c)
      BY <2>3 DEF CreateVessel, Named
    <2>4. CASE StartVessel(c)
      BY <2>4 DEF StartVessel
    <2>5. CASE Inspect(c) \/ InspectFails(c) \/ FindRecord(c) \/
              OrphanExit(c) \/ OrphanStatus(c) \/ Reclaim(c) \/
              LoseRace(c) \/ FailStatus(c) \/ FailExit(c) \/
              MarkRunning(c) \/ ReadExit(c) \/ ClassifyVessel(c) \/
              PrintOrphanRow(c)
      BY <2>5 DEF Inspect, InspectFails, FindRecord, OrphanExit, OrphanStatus, Reclaim,
        LoseRace, FailStatus, FailExit, MarkRunning, ReadExit,
        ClassifyVessel, PrintOrphanRow
    <2>6. QED
      BY <1>1, <2>1, <2>2, <2>3, <2>4, <2>5 DEF ClientStep
  <1>2. ASSUME NEW c \in Clients, ClientCommand(c) PROVE NameIsLock'
    BY <1>2 DEF ClientCommand, BeginLaunch, BeginWait, BeginClassify, StopWaiting, KillClient
  <1>3. ASSUME NEW r \in Runs, VesselStep(r) \/ KillVessel(r)
        PROVE NameIsLock'
    <2>1. CASE VesselExits(r)
      BY <2>1 DEF VesselExits
    <2>2. CASE KillVessel(r)
      BY <2>2 DEF KillVessel
    <2>3. CASE VesselBoots(r) \/ BodyStarts(r) \/ BodyDeclines(r) \/
              BodyEnds(r) \/ FinalStatus(r) \/ WriteExit(r)
      BY <2>3 DEF VesselBoots, BodyStarts, BodyDeclines, BodyEnds, FinalStatus,
        WriteExit
    <2>4. QED
      BY <1>3, <2>1, <2>2, <2>3 DEF VesselStep
  <1>4. CASE UNCHANGED vars
    BY <1>4 DEF vars
  <1>5. QED
    BY <1>1, <1>2, <1>3, <1>4 DEF Next

\* Exit codes are written by a vessel at its very end, by the launcher of a
\* run that never started, or by a reaper.
LEMMA HonestStep ==
  ASSUME TypeOK, ExitIsHonest, LauncherOwnsRun, UnrecordedIsFresh,
         HolderIsEntitled, TypeOK', [Next]_vars
  PROVE  ExitIsHonest'
  <1> USE DEF ExitIsHonest, LauncherOwnsRun, UnrecordedIsFresh, HolderIsEntitled,
          TypeOK, Goto, GotoWith, Return, recordVars, vesselVars, clientVars,
          Pending, Owning, Recorded, InVessel, NoExit, LaunchError,
          ORPHAN_EXIT_CODE, Runs, NoRun
  <1>1. ASSUME NEW c \in Clients, ClientStep(c) PROVE ExitIsHonest'
    <2>1. CASE OrphanExit(c)
      BY <2>1 DEF OrphanExit
    <2>2. CASE Reclaim(c)
      BY <2>2 DEF Reclaim, Without, Fault, FaultKinds
    <2>3. CASE RemoveVessel(c)
      BY <2>3 DEF RemoveVessel
    <2>4. CASE CreateVessel(c)
      BY <2>4 DEF CreateVessel
    <2>5. CASE StartVessel(c)
      BY <2>5 DEF StartVessel
    <2>6. CASE FailExit(c)
      BY <2>6 DEF FailExit
    <2>7. CASE Inspect(c) \/ InspectFails(c) \/ FindRecord(c) \/
              OrphanStatus(c) \/ CreateRecord(c) \/ LoseRace(c) \/
              FailStatus(c) \/ MarkRunning(c) \/ ReadExit(c) \/
              ClassifyVessel(c) \/ PrintOrphanRow(c)
      BY <2>7 DEF Inspect, InspectFails, FindRecord, OrphanStatus, CreateRecord,
        LoseRace, FailStatus, MarkRunning, ReadExit, ClassifyVessel,
        PrintOrphanRow, Fault, FaultKinds
    <2>8. QED
      BY <1>1, <2>1, <2>2, <2>3, <2>4, <2>5, <2>6, <2>7 DEF ClientStep
  <1>2. ASSUME NEW c \in Clients, ClientCommand(c) PROVE ExitIsHonest'
    BY <1>2 DEF ClientCommand, BeginLaunch, BeginWait, BeginClassify, StopWaiting,
      KillClient, Fault, FaultKinds
  <1>3. ASSUME NEW r \in Runs, VesselStep(r) \/ KillVessel(r)
        PROVE ExitIsHonest'
    <2>1. CASE VesselBoots(r)
      BY <2>1 DEF VesselBoots
    <2>2. CASE BodyStarts(r)
      BY <2>2 DEF BodyStarts
    <2>3. CASE BodyDeclines(r)
      BY <2>3 DEF BodyDeclines
    <2>4. CASE BodyEnds(r)
      BY <2>4 DEF BodyEnds, Without, Fault, FaultKinds
    <2>5. CASE FinalStatus(r)
      BY <2>5 DEF FinalStatus
    <2>6. CASE WriteExit(r)
      BY <2>6 DEF WriteExit
    <2>7. CASE VesselExits(r)
      BY <2>7 DEF VesselExits
    <2>8. CASE KillVessel(r)
      BY <2>8 DEF KillVessel, Fault, FaultKinds
    <2>9. QED
      BY <1>3, <2>1, <2>2, <2>3, <2>4, <2>5, <2>6, <2>7, <2>8 DEF VesselStep
  <1>4. CASE UNCHANGED vars
    BY <1>4 DEF vars
  <1>5. QED
    BY <1>1, <1>2, <1>3, <1>4 DEF Next

\* A launcher takes a run id nobody has.
LEMMA ApartStep ==
  ASSUME TypeOK, LaunchersApart, LauncherOwnsRun, TypeOK', [Next]_vars
  PROVE  LaunchersApart'
  <1> USE DEF LaunchersApart, LauncherOwnsRun, TypeOK, Goto, GotoWith, Return,
          recordVars, vesselVars, clientVars, Pending, Owning, Recorded,
          ReapStates
  <1>1. ASSUME NEW c \in Clients, ClientStep(c) PROVE LaunchersApart'
    <2>1. CASE CreateRecord(c)
      BY <2>1 DEF CreateRecord
    <2>2. CASE Inspect(c) \/ InspectFails(c) \/ FindRecord(c) \/
              OrphanExit(c) \/ OrphanStatus(c) \/ Reclaim(c) \/
              RemoveVessel(c) \/ CreateVessel(c) \/ StartVessel(c) \/
              LoseRace(c) \/ FailStatus(c) \/ FailExit(c) \/
              MarkRunning(c) \/ ReadExit(c) \/ ClassifyVessel(c) \/
              PrintOrphanRow(c)
      BY <2>2 DEF Inspect, InspectFails, FindRecord, OrphanExit, OrphanStatus, Reclaim,
        RemoveVessel, CreateVessel, StartVessel, LoseRace, FailStatus,
        FailExit, MarkRunning, ReadExit, ClassifyVessel, PrintOrphanRow
    <2>3. QED
      BY <1>1, <2>1, <2>2 DEF ClientStep
  <1>2. ASSUME NEW c \in Clients, ClientCommand(c) PROVE LaunchersApart'
    BY <1>2 DEF ClientCommand, BeginLaunch, BeginWait, BeginClassify, StopWaiting, KillClient
  <1>3. ASSUME NEW r \in Runs, VesselStep(r) \/ KillVessel(r)
        PROVE LaunchersApart'
    <2>1. CASE VesselBoots(r) \/ BodyStarts(r) \/ BodyDeclines(r) \/
              BodyEnds(r) \/ FinalStatus(r) \/ WriteExit(r) \/
              VesselExits(r) \/ KillVessel(r)
      BY <2>1 DEF VesselBoots, BodyStarts, BodyDeclines, BodyEnds, FinalStatus,
        WriteExit, VesselExits, KillVessel
    <2>2. QED
      BY <1>3, <2>1 DEF VesselStep
  <1>4. CASE UNCHANGED vars
    BY <1>4 DEF vars
  <1>5. QED
    BY <1>1, <1>2, <1>3, <1>4 DEF Next

\* What a launcher knows of its run stays true until it has started it.
LEMMA OwnsStep ==
  ASSUME TypeOK, LaunchersApart, LauncherOwnsRun, UnrecordedIsFresh,
         ExitIsHonest, TypeOK', [Next]_vars
  PROVE  LauncherOwnsRun'
  <1> USE DEF LauncherOwnsRun, LaunchersApart, UnrecordedIsFresh, ExitIsHonest,
          TypeOK, Goto, GotoWith, Return, recordVars, vesselVars, clientVars,
          Pending, Owning, Recorded, ReapStates, InVessel, NoExit,
          LaunchError, ORPHAN_EXIT_CODE
  <1>1. ASSUME NEW c \in Clients, ClientStep(c) PROVE LauncherOwnsRun'
    <2>1. CASE FindRecord(c)
      BY <2>1 DEF FindRecord, IsNewest
    <2>2. CASE OrphanExit(c)
      BY <2>2 DEF OrphanExit
    <2>3. CASE RemoveVessel(c)
      BY <2>3 DEF RemoveVessel, Named
    <2>4. CASE CreateRecord(c)
      BY <2>4, ScopesAssumption DEF CreateRecord, NoScope
    <2>5. CASE CreateVessel(c)
      BY <2>5 DEF CreateVessel
    <2>6. CASE StartVessel(c)
      BY <2>6 DEF StartVessel
    <2>7. CASE FailExit(c)
      BY <2>7 DEF FailExit
    <2>8. CASE Inspect(c) \/ InspectFails(c) \/ OrphanStatus(c) \/
              Reclaim(c) \/ LoseRace(c) \/ FailStatus(c) \/ MarkRunning(c) \/
              ReadExit(c) \/ ClassifyVessel(c) \/ PrintOrphanRow(c)
      BY <2>8 DEF Inspect, InspectFails, OrphanStatus, Reclaim, LoseRace, FailStatus,
        MarkRunning, ReadExit, ClassifyVessel, PrintOrphanRow
    <2>9. QED
      BY <1>1, <2>1, <2>2, <2>3, <2>4, <2>5, <2>6, <2>7, <2>8 DEF ClientStep
  <1>2. ASSUME NEW c \in Clients, ClientCommand(c) PROVE LauncherOwnsRun'
    BY <1>2 DEF ClientCommand, BeginLaunch, BeginWait, BeginClassify, StopWaiting, KillClient
  <1>3. ASSUME NEW r \in Runs, VesselStep(r) \/ KillVessel(r)
        PROVE LauncherOwnsRun'
    <2>1. CASE VesselBoots(r)
      BY <2>1 DEF VesselBoots
    <2>2. CASE BodyStarts(r)
      BY <2>2 DEF BodyStarts
    <2>3. CASE BodyDeclines(r)
      BY <2>3 DEF BodyDeclines
    <2>4. CASE BodyEnds(r)
      BY <2>4 DEF BodyEnds
    <2>5. CASE FinalStatus(r)
      BY <2>5 DEF FinalStatus
    <2>6. CASE WriteExit(r)
      BY <2>6 DEF WriteExit
    <2>7. CASE VesselExits(r)
      BY <2>7 DEF VesselExits
    <2>8. CASE KillVessel(r)
      BY <2>8 DEF KillVessel
    <2>9. QED
      BY <1>3, <2>1, <2>2, <2>3, <2>4, <2>5, <2>6, <2>7, <2>8 DEF VesselStep
  <1>4. CASE UNCHANGED vars
    BY <1>4 DEF vars
  <1>5. QED
    BY <1>1, <1>2, <1>3, <1>4 DEF Next

\* Nothing touches a run before it is recorded.
LEMMA FreshStep ==
  ASSUME TypeOK, LauncherOwnsRun, UnrecordedIsFresh, TypeOK', [Next]_vars
  PROVE  UnrecordedIsFresh'
  <1> USE DEF UnrecordedIsFresh, LauncherOwnsRun, TypeOK, Goto, GotoWith, Return,
          recordVars, vesselVars, clientVars, Pending, Owning, Recorded,
          InVessel
  <1>1. ASSUME NEW c \in Clients, ClientStep(c) PROVE UnrecordedIsFresh'
    <2>1. CASE OrphanExit(c)
      BY <2>1 DEF OrphanExit
    <2>2. CASE RemoveVessel(c)
      BY <2>2 DEF RemoveVessel, Named
    <2>3. CASE CreateRecord(c)
      BY <2>3 DEF CreateRecord
    <2>4. CASE CreateVessel(c)
      BY <2>4 DEF CreateVessel
    <2>5. CASE StartVessel(c)
      BY <2>5 DEF StartVessel
    <2>6. CASE FailExit(c)
      BY <2>6 DEF FailExit
    <2>7. CASE Inspect(c) \/ InspectFails(c) \/ FindRecord(c) \/
              OrphanStatus(c) \/ Reclaim(c) \/ LoseRace(c) \/
              FailStatus(c) \/ MarkRunning(c) \/ ReadExit(c) \/
              ClassifyVessel(c) \/ PrintOrphanRow(c)
      BY <2>7 DEF Inspect, InspectFails, FindRecord, OrphanStatus, Reclaim, LoseRace,
        FailStatus, MarkRunning, ReadExit, ClassifyVessel, PrintOrphanRow
    <2>8. QED
      BY <1>1, <2>1, <2>2, <2>3, <2>4, <2>5, <2>6, <2>7 DEF ClientStep
  <1>2. ASSUME NEW c \in Clients, ClientCommand(c) PROVE UnrecordedIsFresh'
    BY <1>2 DEF ClientCommand, BeginLaunch, BeginWait, BeginClassify, StopWaiting, KillClient
  <1>3. ASSUME NEW r \in Runs, VesselStep(r) \/ KillVessel(r)
        PROVE UnrecordedIsFresh'
    <2>1. CASE VesselBoots(r)
      BY <2>1 DEF VesselBoots
    <2>2. CASE BodyStarts(r)
      BY <2>2 DEF BodyStarts
    <2>3. CASE BodyDeclines(r)
      BY <2>3 DEF BodyDeclines
    <2>4. CASE BodyEnds(r)
      BY <2>4 DEF BodyEnds
    <2>5. CASE FinalStatus(r)
      BY <2>5 DEF FinalStatus
    <2>6. CASE WriteExit(r)
      BY <2>6 DEF WriteExit
    <2>7. CASE VesselExits(r)
      BY <2>7 DEF VesselExits
    <2>8. CASE KillVessel(r)
      BY <2>8 DEF KillVessel
    <2>9. QED
      BY <1>3, <2>1, <2>2, <2>3, <2>4, <2>5, <2>6, <2>7, <2>8 DEF VesselStep
  <1>4. CASE UNCHANGED vars
    BY <1>4 DEF vars
  <1>5. QED
    BY <1>1, <1>2, <1>3, <1>4 DEF Next

\* Resources change hands only as bodies start and end, and when a reaper
\* frees them.
LEMMA HolderStep ==
  ASSUME TypeOK, HolderIsEntitled, UnrecordedIsFresh, TypeOK', [Next]_vars
  PROVE  HolderIsEntitled'
  <1> USE DEF HolderIsEntitled, UnrecordedIsFresh, TypeOK, Goto, GotoWith,
          Return, recordVars, vesselVars, clientVars, Recorded, InVessel,
          Runs, NoRun
  <1>1. ASSUME NEW c \in Clients, ClientStep(c) PROVE HolderIsEntitled'
    <2>1. CASE Reclaim(c)
      BY <2>1 DEF Reclaim, Without, Fault, FaultKinds
    <2>2. CASE CreateRecord(c)
      BY <2>2 DEF CreateRecord
    <2>3. CASE InspectFails(c)
      BY <2>3 DEF InspectFails, Fault, FaultKinds
    <2>4. CASE Inspect(c) \/ FindRecord(c) \/ OrphanExit(c) \/
              OrphanStatus(c) \/ RemoveVessel(c) \/ CreateVessel(c) \/
              StartVessel(c) \/ LoseRace(c) \/ FailStatus(c) \/
              FailExit(c) \/ MarkRunning(c) \/ ReadExit(c) \/
              ClassifyVessel(c) \/ PrintOrphanRow(c)
      BY <2>4 DEF Inspect, FindRecord, OrphanExit, OrphanStatus,
        RemoveVessel, CreateVessel, StartVessel, LoseRace, FailStatus,
        FailExit, MarkRunning, ReadExit, ClassifyVessel, PrintOrphanRow
    <2>5. QED
      BY <1>1, <2>1, <2>2, <2>3, <2>4 DEF ClientStep
  <1>2. ASSUME NEW c \in Clients, ClientCommand(c) PROVE HolderIsEntitled'
    BY <1>2 DEF ClientCommand, BeginLaunch, BeginWait, BeginClassify, StopWaiting,
      KillClient, Fault, FaultKinds
  <1>3. ASSUME NEW r \in Runs, VesselStep(r) \/ KillVessel(r)
        PROVE HolderIsEntitled'
    <2>1. CASE VesselBoots(r)
      BY <2>1 DEF VesselBoots
    <2>2. CASE BodyStarts(r)
      BY <2>2 DEF BodyStarts
    <2>3. CASE BodyDeclines(r)
      BY <2>3 DEF BodyDeclines
    <2>4. CASE BodyEnds(r)
      BY <2>4 DEF BodyEnds, Without, Fault, FaultKinds
    <2>5. CASE FinalStatus(r)
      BY <2>5 DEF FinalStatus
    <2>6. CASE WriteExit(r)
      BY <2>6 DEF WriteExit
    <2>7. CASE VesselExits(r)
      BY <2>7 DEF VesselExits
    <2>8. CASE KillVessel(r)
      BY <2>8 DEF KillVessel, Fault, FaultKinds
    <2>9. QED
      BY <1>3, <2>1, <2>2, <2>3, <2>4, <2>5, <2>6, <2>7, <2>8 DEF VesselStep
  <1>4. CASE UNCHANGED vars
    BY <1>4 DEF vars
  <1>5. QED
    BY <1>1, <1>2, <1>3, <1>4 DEF Next

LEMMA InvNext == IInv /\ [Next]_vars => IInv'
  BY TypeNext, NameStep, HonestStep, ApartStep, OwnsStep, FreshStep,
     HolderStep DEF IInv

LEMMA InvCorrect == Spec => []IInv
  BY InvInit, InvNext, PTL DEF Spec

----------------------------------------------------------------------------
(* The promises.                                                           *)

\* However launches, reaps and kills interleave, docker never knows two
\* containers of one scope: the vessel name is a lock.
THEOREM NameLock == Spec => []NameIsLock
  BY InvCorrect, PTL DEF IInv

\* An exit code that is not the reaper's is the truth about the run.
THEOREM HonestExit == Spec => []ExitIsHonest
  BY InvCorrect, PTL DEF IInv

----------------------------------------------------------------------------
(* One launcher.                                                           *)

\* One foreground launches at a time; any number of others read and wait.
OneLauncher == \A c, d \in Launchers : c = d

Launching == {"inspect", "create"} \cup ReapStates \cup LaunchStates
Reaping == ReapStates \ {"find"}

OnlyLaunchersLaunch ==
    \A c \in Clients : cpc[c] \in Launching => c \in Launchers

\* A preflight has seen that no vessel of its scope runs, and nobody else
\* starts one.
ReapsTheDead ==
    \A c \in Clients : cpc[c] \in ReapStates =>
        \A r \in Recorded : meta[r] = cscope[c] => vessel[r] # "running"
ReapsItsScope ==
    \A c \in Clients : cpc[c] \in Reaping =>
        crun[c] \in Recorded /\ meta[crun[c]] = cscope[c]

\* The run that a launch is about to start or to fail has no exit code, nor
\* has the one that a reaper is about to settle; and what a reaper has
\* settled never runs.
NotYetSettled ==
    \A c \in Clients : cpc[c] \in Pending \cup {"orphanExit"} =>
        exit[crun[c]] = NoExit
OrphansAreDead ==
    \A r \in Runs : exit[r] = ORPHAN_EXIT_CODE => vessel[r] # "running"

ReapInv ==
    /\ IInv
    /\ OnlyLaunchersLaunch
    /\ ReapsTheDead
    /\ ReapsItsScope
    /\ NotYetSettled
    /\ OrphansAreDead

LEMMA ReapInit == Init => ReapInv
  <1> SUFFICES ASSUME Init PROVE ReapInv
    OBVIOUS
  <1>1. \A c \in Clients : cpc[c] = "idle"
    BY DEF Init
  <1>2. OnlyLaunchersLaunch /\ ReapsTheDead /\ ReapsItsScope /\ NotYetSettled
    BY <1>1 DEF OnlyLaunchersLaunch, ReapsTheDead, ReapsItsScope, NotYetSettled, Launching,
                Reaping, ReapStates, LaunchStates, Pending
  <1>3. OrphansAreDead
    BY DEF Init, OrphansAreDead
  <1>4. QED
    BY <1>2, <1>3, InvInit DEF ReapInv

\* Only a launch leads to the steps of one.
LEMMA OnlyLaunchersStep ==
  ASSUME IInv, OnlyLaunchersLaunch, [Next]_vars
  PROVE  OnlyLaunchersLaunch'
  <1> USE DEF OnlyLaunchersLaunch, IInv, TypeOK, Goto, GotoWith, Return, recordVars,
              vesselVars, clientVars, Launching, ReapStates, LaunchStates, ReadStates
  <1>1. ASSUME NEW c \in Clients, ClientStep(c) PROVE OnlyLaunchersLaunch'
    <2>1. CASE CreateRecord(c)
      BY <2>1 DEF CreateRecord
    <2>2. CASE
        \/ Inspect(c) \/ InspectFails(c) \/ FindRecord(c) \/ OrphanExit(c) \/
           OrphanStatus(c) \/ Reclaim(c) \/ RemoveVessel(c) \/ CreateVessel(c) \/
           StartVessel(c) \/ LoseRace(c) \/ FailStatus(c) \/ FailExit(c) \/
           MarkRunning(c) \/ ReadExit(c) \/ ClassifyVessel(c) \/ PrintOrphanRow(c)
      BY <2>2 DEF Inspect, InspectFails, FindRecord, OrphanExit, OrphanStatus,
                  Reclaim, RemoveVessel, CreateVessel, StartVessel, LoseRace,
                  FailStatus, FailExit, MarkRunning, ReadExit, ClassifyVessel,
                  PrintOrphanRow
    <2>3. QED
      BY <1>1, <2>1, <2>2 DEF ClientStep
  <1>2. ASSUME NEW c \in Clients, ClientCommand(c) PROVE OnlyLaunchersLaunch'
    BY <1>2 DEF ClientCommand, BeginLaunch, BeginWait, BeginClassify, StopWaiting, KillClient
  <1>3. ASSUME NEW r \in Runs, VesselStep(r) \/ KillVessel(r) PROVE OnlyLaunchersLaunch'
    <2>1. CASE
        \/ VesselBoots(r) \/ BodyStarts(r) \/ BodyDeclines(r) \/ BodyEnds(r) \/
           FinalStatus(r) \/ WriteExit(r) \/ VesselExits(r) \/ KillVessel(r)
      BY <2>1 DEF VesselBoots, BodyStarts, BodyDeclines, BodyEnds, FinalStatus,
                  WriteExit, VesselExits, KillVessel
    <2>2. QED
      BY <1>3, <2>1 DEF VesselStep
  <1>4. CASE UNCHANGED vars
    BY <1>4 DEF vars
  <1>5. QED
    BY <1>1, <1>2, <1>3, <1>4 DEF Next

\* Nobody but the one launcher starts a vessel, and it does not while it reaps.
LEMMA ReapsTheDeadStep ==
  ASSUME OneLauncher, IInv, OnlyLaunchersLaunch, ReapsTheDead, [Next]_vars
  PROVE  ReapsTheDead'
  <1> USE DEF OneLauncher, IInv, OnlyLaunchersLaunch, LauncherOwnsRun,
              UnrecordedIsFresh, ReapsTheDead, Recorded, Pending, Owning, TypeOK,
              Goto, GotoWith, Return, recordVars, vesselVars, clientVars, Launching,
              ReapStates, LaunchStates, ReadStates
  <1>1. ASSUME NEW c \in Clients, ClientStep(c) PROVE ReapsTheDead'
    <2>1. CASE Inspect(c)
      BY <2>1 DEF Inspect, NameRunning, Named
    <2>2. CASE FindRecord(c)
      BY <2>2 DEF FindRecord
    <2>3. CASE RemoveVessel(c)
      BY <2>3 DEF RemoveVessel
    <2>4. CASE CreateRecord(c)
      BY <2>4 DEF CreateRecord
    <2>5. CASE CreateVessel(c)
      BY <2>5 DEF CreateVessel
    <2>6. CASE StartVessel(c)
      BY <2>6 DEF StartVessel
    <2>7. CASE
        \/ InspectFails(c) \/ OrphanExit(c) \/ OrphanStatus(c) \/ Reclaim(c) \/
           LoseRace(c) \/ FailStatus(c) \/ FailExit(c) \/ MarkRunning(c) \/
           ReadExit(c) \/ ClassifyVessel(c) \/ PrintOrphanRow(c)
      BY <2>7 DEF InspectFails, OrphanExit, OrphanStatus, Reclaim, LoseRace,
                  FailStatus, FailExit, MarkRunning, ReadExit, ClassifyVessel,
                  PrintOrphanRow
    <2>8. QED
      BY <1>1, <2>1, <2>2, <2>3, <2>4, <2>5, <2>6, <2>7 DEF ClientStep
  <1>2. ASSUME NEW c \in Clients, ClientCommand(c) PROVE ReapsTheDead'
    BY <1>2 DEF ClientCommand, BeginLaunch, BeginWait, BeginClassify, StopWaiting, KillClient
  <1>3. ASSUME NEW r \in Runs, VesselStep(r) \/ KillVessel(r) PROVE ReapsTheDead'
    <2>1. CASE VesselExits(r)
      BY <2>1 DEF VesselExits
    <2>2. CASE KillVessel(r)
      BY <2>2 DEF KillVessel
    <2>3. CASE
        \/ VesselBoots(r) \/ BodyStarts(r) \/ BodyDeclines(r) \/ BodyEnds(r) \/
           FinalStatus(r) \/ WriteExit(r)
      BY <2>3 DEF VesselBoots, BodyStarts, BodyDeclines, BodyEnds, FinalStatus,
                  WriteExit
    <2>4. QED
      BY <1>3, <2>1, <2>2, <2>3 DEF VesselStep
  <1>4. CASE UNCHANGED vars
    BY <1>4 DEF vars
  <1>5. QED
    BY <1>1, <1>2, <1>3, <1>4 DEF Next

\* The record that a preflight finds is of its scope.
LEMMA ReapsItsScopeStep ==
  ASSUME IInv, ReapsItsScope, [Next]_vars
  PROVE  ReapsItsScope'
  <1> USE DEF IInv, ReapsItsScope, Recorded, Reaping, TypeOK, Goto, GotoWith, Return,
              recordVars, vesselVars, clientVars, Launching, ReapStates,
              LaunchStates, ReadStates
  <1>1. ASSUME NEW c \in Clients, ClientStep(c) PROVE ReapsItsScope'
    <2>1. CASE FindRecord(c)
      BY <2>1 DEF FindRecord, IsNewest
    <2>2. CASE CreateRecord(c)
      BY <2>2 DEF CreateRecord
    <2>3. CASE
        \/ Inspect(c) \/ InspectFails(c) \/ OrphanExit(c) \/ OrphanStatus(c) \/
           Reclaim(c) \/ RemoveVessel(c) \/ CreateVessel(c) \/ StartVessel(c) \/
           LoseRace(c) \/ FailStatus(c) \/ FailExit(c) \/ MarkRunning(c) \/
           ReadExit(c) \/ ClassifyVessel(c) \/ PrintOrphanRow(c)
      BY <2>3 DEF Inspect, InspectFails, OrphanExit, OrphanStatus, Reclaim,
                  RemoveVessel, CreateVessel, StartVessel, LoseRace, FailStatus,
                  FailExit, MarkRunning, ReadExit, ClassifyVessel, PrintOrphanRow
    <2>4. QED
      BY <1>1, <2>1, <2>2, <2>3 DEF ClientStep
  <1>2. ASSUME NEW c \in Clients, ClientCommand(c) PROVE ReapsItsScope'
    BY <1>2 DEF ClientCommand, BeginLaunch, BeginWait, BeginClassify, StopWaiting, KillClient
  <1>3. ASSUME NEW r \in Runs, VesselStep(r) \/ KillVessel(r) PROVE ReapsItsScope'
    <2>1. CASE
        \/ VesselBoots(r) \/ BodyStarts(r) \/ BodyDeclines(r) \/ BodyEnds(r) \/
           FinalStatus(r) \/ WriteExit(r) \/ VesselExits(r) \/ KillVessel(r)
      BY <2>1 DEF VesselBoots, BodyStarts, BodyDeclines, BodyEnds, FinalStatus,
                  WriteExit, VesselExits, KillVessel
    <2>2. QED
      BY <1>3, <2>1 DEF VesselStep
  <1>4. CASE UNCHANGED vars
    BY <1>4 DEF vars
  <1>5. QED
    BY <1>1, <1>2, <1>3, <1>4 DEF Next

\* Nobody else settles the run of a launch or of a reaper.
LEMMA NotYetSettledStep ==
  ASSUME OneLauncher, ReapInv, [Next]_vars
  PROVE  NotYetSettled'
  <1> USE DEF OneLauncher, ReapInv, IInv, OnlyLaunchersLaunch, LauncherOwnsRun,
              LaunchersApart, UnrecordedIsFresh, ReapsTheDead, ReapsItsScope,
              NotYetSettled, Recorded, Pending, Owning, Reaping, InVessel, NoExit,
              ORPHAN_EXIT_CODE, LaunchError, TypeOK, Goto, GotoWith, Return,
              recordVars, vesselVars, clientVars, Launching, ReapStates,
              LaunchStates, ReadStates
  <1>1. ASSUME NEW c \in Clients, ClientStep(c) PROVE NotYetSettled'
    <2>1. CASE FindRecord(c)
      BY <2>1 DEF FindRecord, IsNewest
    <2>2. CASE OrphanExit(c)
      BY <2>2 DEF OrphanExit
    <2>3. CASE CreateRecord(c)
      BY <2>3 DEF CreateRecord
    <2>4. CASE FailExit(c)
      BY <2>4 DEF FailExit
    <2>5. CASE
        \/ Inspect(c) \/ InspectFails(c) \/ OrphanStatus(c) \/ Reclaim(c) \/
           RemoveVessel(c) \/ CreateVessel(c) \/ StartVessel(c) \/ LoseRace(c) \/
           FailStatus(c) \/ MarkRunning(c) \/ ReadExit(c) \/ ClassifyVessel(c) \/
           PrintOrphanRow(c)
      BY <2>5 DEF Inspect, InspectFails, OrphanStatus, Reclaim, RemoveVessel,
                  CreateVessel, StartVessel, LoseRace, FailStatus, MarkRunning,
                  ReadExit, ClassifyVessel, PrintOrphanRow
    <2>6. QED
      BY <1>1, <2>1, <2>2, <2>3, <2>4, <2>5 DEF ClientStep
  <1>2. ASSUME NEW c \in Clients, ClientCommand(c) PROVE NotYetSettled'
    BY <1>2 DEF ClientCommand, BeginLaunch, BeginWait, BeginClassify, StopWaiting, KillClient
  <1>3. ASSUME NEW r \in Runs, VesselStep(r) \/ KillVessel(r) PROVE NotYetSettled'
    <2>1. CASE WriteExit(r)
      BY <2>1 DEF WriteExit
    <2>2. CASE
        \/ VesselBoots(r) \/ BodyStarts(r) \/ BodyDeclines(r) \/ BodyEnds(r) \/
           FinalStatus(r) \/ VesselExits(r) \/ KillVessel(r)
      BY <2>2 DEF VesselBoots, BodyStarts, BodyDeclines, BodyEnds, FinalStatus,
                  VesselExits, KillVessel
    <2>3. QED
      BY <1>3, <2>1, <2>2 DEF VesselStep
  <1>4. CASE UNCHANGED vars
    BY <1>4 DEF vars
  <1>5. QED
    BY <1>1, <1>2, <1>3, <1>4 DEF Next

\* A reaper settles what does not run, and nobody starts what is settled.
LEMMA OrphansAreDeadStep ==
  ASSUME OneLauncher, ReapInv, [Next]_vars
  PROVE  OrphansAreDead'
  <1> USE DEF ReapInv, IInv, LauncherOwnsRun, ReapsTheDead, ReapsItsScope,
              NotYetSettled, OrphansAreDead, Recorded, Pending, Owning, Reaping,
              InVessel, NoExit, ORPHAN_EXIT_CODE, LaunchError, TypeOK, Goto,
              GotoWith, Return, recordVars, vesselVars, clientVars, ReapStates
  <1>1. ASSUME NEW c \in Clients, ClientStep(c) PROVE OrphansAreDead'
    <2>1. CASE OrphanExit(c)
      BY <2>1 DEF OrphanExit
    <2>2. CASE FailExit(c)
      BY <2>2 DEF FailExit
    <2>3. CASE RemoveVessel(c)
      BY <2>3 DEF RemoveVessel
    <2>4. CASE CreateVessel(c)
      BY <2>4 DEF CreateVessel
    <2>5. CASE StartVessel(c)
      BY <2>5 DEF StartVessel
    <2>6. CASE
        \/ Inspect(c) \/ InspectFails(c) \/ FindRecord(c) \/ OrphanStatus(c) \/
           Reclaim(c) \/ CreateRecord(c) \/ LoseRace(c) \/ FailStatus(c) \/
           MarkRunning(c) \/ ReadExit(c) \/ ClassifyVessel(c) \/ PrintOrphanRow(c)
      BY <2>6 DEF Inspect, InspectFails, FindRecord, OrphanStatus, Reclaim,
                  CreateRecord, LoseRace, FailStatus, MarkRunning, ReadExit,
                  ClassifyVessel, PrintOrphanRow
    <2>7. QED
      BY <1>1, <2>1, <2>2, <2>3, <2>4, <2>5, <2>6 DEF ClientStep
  <1>2. ASSUME NEW c \in Clients, ClientCommand(c) PROVE OrphansAreDead'
    BY <1>2 DEF ClientCommand, BeginLaunch, BeginWait, BeginClassify, StopWaiting, KillClient
  <1>3. ASSUME NEW r \in Runs, VesselStep(r) \/ KillVessel(r) PROVE OrphansAreDead'
    <2>1. CASE WriteExit(r)
      BY <2>1 DEF WriteExit
    <2>2. CASE VesselExits(r)
      BY <2>2 DEF VesselExits
    <2>3. CASE KillVessel(r)
      BY <2>3 DEF KillVessel
    <2>4. CASE
        \/ VesselBoots(r) \/ BodyStarts(r) \/ BodyDeclines(r) \/ BodyEnds(r) \/
           FinalStatus(r)
      BY <2>4 DEF VesselBoots, BodyStarts, BodyDeclines, BodyEnds, FinalStatus
    <2>5. QED
      BY <1>3, <2>1, <2>2, <2>3, <2>4 DEF VesselStep
  <1>4. CASE UNCHANGED vars
    BY <1>4 DEF vars
  <1>5. QED
    BY <1>1, <1>2, <1>3, <1>4 DEF Next

LEMMA ReapAlways == ASSUME OneLauncher PROVE Spec => []ReapInv
  <1>1. ReapInv /\ [Next]_vars => ReapInv'
    BY InvNext, OnlyLaunchersStep, ReapsTheDeadStep, ReapsItsScopeStep, NotYetSettledStep,
       OrphansAreDeadStep DEF ReapInv
  <1>2. QED
    BY <1>1, ReapInit, PTL DEF Spec

----------------------------------------------------------------------------
(* The handle.                                                             *)

\* The four phases, and what they say of the vessel.
PhaseFacts(r) ==
    /\ (meta[r] = NoScope /\ vessel[r] = "none") => Phase(r) = "none"
    /\ (meta[r] # NoScope /\ vessel[r] = "running" /\ job[r] \in {"boot", "body", "busy"})
          => Phase(r) = "working"
    /\ (meta[r] # NoScope /\ vessel[r] # "running" /\ job[r] = "boot") => Phase(r) = "open"
    /\ (meta[r] # NoScope /\ job[r] \notin {"boot", "body", "busy"}) => Phase(r) = "stopped"
    /\ (meta[r] # NoScope /\ vessel[r] # "running" /\ job[r] # "boot") => Phase(r) = "stopped"

LEMMA PhaseIs ==
  ASSUME NEW r \in Runs
  PROVE  PhaseFacts(r) /\ PhaseFacts(r)'
  <1>1. PhaseFacts(r)
    <2> USE DEF PhaseFacts
    <2>1. CASE meta[r] = NoScope
      BY <2>1, "none" # "running" DEF Phase
    <2>2. CASE meta[r] # NoScope /\ vessel[r] = "running" /\ job[r] \in {"boot", "body", "busy"}
      BY <2>2 DEF Phase
    <2>3. CASE meta[r] # NoScope /\ vessel[r] # "running" /\ job[r] = "boot"
      BY <2>3 DEF Phase
    <2>4. CASE /\ meta[r] # NoScope
               /\ ~(vessel[r] = "running" /\ job[r] \in {"boot", "body", "busy"})
               /\ ~(vessel[r] # "running" /\ job[r] = "boot")
      BY <2>4 DEF Phase
    <2>5. QED
      BY <2>1, <2>2, <2>3, <2>4
  <1>2. PhaseFacts(r)'
    <2> USE DEF PhaseFacts
    <2>1. CASE meta'[r] = NoScope
      BY <2>1, "none" # "running" DEF Phase
    <2>2. CASE meta'[r] # NoScope /\ vessel'[r] = "running" /\ job'[r] \in {"boot", "body", "busy"}
      BY <2>2 DEF Phase
    <2>3. CASE meta'[r] # NoScope /\ vessel'[r] # "running" /\ job'[r] = "boot"
      BY <2>3 DEF Phase
    <2>4. CASE /\ meta'[r] # NoScope
               /\ ~(vessel'[r] = "running" /\ job'[r] \in {"boot", "body", "busy"})
               /\ ~(vessel'[r] # "running" /\ job'[r] = "boot")
      BY <2>4 DEF Phase
    <2>5. QED
      BY <2>1, <2>2, <2>3, <2>4
  <1>3. QED
    BY <1>1, <1>2

\* A run that a step leaves alone stays in its phase.
LEMMA SamePhase ==
  ASSUME NEW q \in Runs, meta'[q] = meta[q], vessel'[q] = vessel[q], job'[q] = job[q]
  PROVE  Phase(q)' = Phase(q)
  BY DEF Phase

\* What a step of the handle looks like from below.
LEMMA HandleStutters ==
  ASSUME UNCHANGED <<meta, exit>>, \A q \in Runs : Phase(q)' = Phase(q)
  PROVE  UNCHANGED Handle!handleVars
  BY DEF Handle!handleVars

LEMMA HandleOpens ==
  ASSUME NEW r \in Runs, Phase(r) = "none", Phase(r)' = "open", UNCHANGED exit,
         \E s \in Scopes : meta' = [meta EXCEPT ![r] = s],
         \A q \in Runs \ {r} : Phase(q)' = Phase(q)
  PROVE  Handle!Next
  <1>1. Handle!Open(r)
    BY DEF Handle!Open
  <1>2. QED
    BY <1>1 DEF Handle!Next

LEMMA HandleStarts ==
  ASSUME NEW r \in Runs, Phase(r) = "open", Phase(r)' = "working", exit[r] = NoExit,
         \A q \in Runs : meta[q] = meta[r] => Phase(q) # "working",
         UNCHANGED <<meta, exit>>, \A q \in Runs \ {r} : Phase(q)' = Phase(q)
  PROVE  Handle!Next
  <1>1. Handle!Start(r)
    BY DEF Handle!Start
  <1>2. QED
    BY <1>1 DEF Handle!Next

LEMMA HandleStops ==
  ASSUME NEW r \in Runs, Phase(r) = "working", Phase(r)' = "stopped",
         UNCHANGED <<meta, exit>>, \A q \in Runs \ {r} : Phase(q)' = Phase(q)
  PROVE  Handle!Next
  <1>1. Handle!Stop(r)
    BY DEF Handle!Stop
  <1>2. QED
    BY <1>1 DEF Handle!Next

LEMMA HandleSettles ==
  ASSUME NEW r \in Runs, NEW code \in Codes, Phase(r) \in {"open", "stopped"},
         exit[r] = NoExit, code \in {0, 1} => Phase(r) = "stopped",
         exit' = [exit EXCEPT ![r] = code], UNCHANGED meta,
         \A q \in Runs : Phase(q)' = Phase(q)
  PROVE  Handle!Next
  <1>1. Handle!Settle(r)
    BY DEF Handle!Settle
  <1>2. QED
    BY <1>1 DEF Handle!Next

HandleStep == Handle!Next \/ UNCHANGED Handle!handleVars

\* The steps of a launcher, a reaper and a reader.
LEMMA ClientStepsHandle ==
  ASSUME OneLauncher, ReapInv, ReapInv', NEW c \in Clients, ClientStep(c) \/ ClientCommand(c)
  PROVE  HandleStep
  <1>1. /\ TypeOK /\ IInv /\ crun[c] \in Runs \cup {NoRun}
        /\ cpc[c] \in Pending \cup {"orphanExit"} => crun[c] \in Recorded
    BY DEF ReapInv, IInv, TypeOK, LauncherOwnsRun, Owning
  <1>2. ASSUME UNCHANGED <<meta, exit, vessel, job>> PROVE HandleStep
    BY <1>2, SamePhase, HandleStutters DEF HandleStep
  <1>3. ASSUME UNCHANGED <<meta, vessel, job>>, NEW code \in Codes,
               crun[c] \in Recorded, cpc[c] \in {"failExit", "orphanExit"},
               exit' = [exit EXCEPT ![crun[c]] = code], code \notin {0, 1},
               vessel[crun[c]] # "running"
        PROVE  HandleStep
    <2>1. crun[c] \in Runs /\ meta[crun[c]] # NoScope /\ exit[crun[c]] = NoExit
      BY <1>3 DEF Recorded, ReapInv, NotYetSettled, Pending
    <2>2. Phase(crun[c]) \in {"open", "stopped"}
      BY <1>3, <2>1, PhaseIs DEF PhaseFacts
    <2>3. \A q \in Runs : Phase(q)' = Phase(q)
      BY <1>3, SamePhase
    <2>4. QED
      BY <1>3, <2>1, <2>2, <2>3, HandleSettles DEF HandleStep
  <1>4. CASE OrphanExit(c)
    <2>1. crun[c] \in Recorded /\ meta[crun[c]] = cscope[c] /\ cpc[c] = "orphanExit"
      BY <1>4 DEF OrphanExit, ReapInv, ReapsItsScope, Reaping, ReapStates
    <2>2. vessel[crun[c]] # "running"
      BY <2>1 DEF ReapInv, ReapsTheDead, ReapStates
    <2>3. QED
      BY <1>3, <1>4, <2>1, <2>2
      DEF OrphanExit, vesselVars, Codes, ORPHAN_EXIT_CODE
  <1>5. CASE FailExit(c)
    <2>1. cpc[c] = "failExit" /\ crun[c] \in Recorded /\ vessel[crun[c]] # "running"
      BY <1>1, <1>5 DEF FailExit, IInv, LauncherOwnsRun, Pending, Owning
    <2>2. QED
      BY <1>3, <1>5, <2>1 DEF FailExit, vesselVars, Codes, LaunchError
  <1>6. CASE RemoveVessel(c)
    <2>1. UNCHANGED <<meta, exit, job>>
      BY <1>6 DEF RemoveVessel, recordVars
    <2>2. ASSUME NEW q \in Runs PROVE Phase(q)' = Phase(q)
      <3>1. CASE q \in Named(cscope[c]) /\ vessel[q] # "running"
        <4>1. meta[q] # NoScope /\ vessel[q] # "running" /\ vessel'[q] # "running"
          BY <1>6, <3>1 DEF RemoveVessel, Named, Recorded
        <4>2. QED
          BY <2>1, <4>1, PhaseIs DEF PhaseFacts
      <3>2. CASE ~(q \in Named(cscope[c]) /\ vessel[q] # "running")
        BY <1>6, <2>1, <3>2, SamePhase DEF RemoveVessel
      <3>3. QED
        BY <3>1, <3>2
    <2>3. QED
      BY <2>1, <2>2, HandleStutters DEF HandleStep
  <1>7. CASE CreateRecord(c)
    <2>1. cscope[c] \in Scopes /\ cscope[c] # NoScope
      BY <1>1, <1>7, ScopesAssumption DEF CreateRecord, IInv, LauncherOwnsRun, NoScope
    <2>2. PICK r \in Runs : r \notin Recorded /\ meta' = [meta EXCEPT ![r] = cscope[c]]
      BY <1>7 DEF CreateRecord
    <2>3. UNCHANGED <<exit, vessel, job>>
      BY <1>7 DEF CreateRecord, vesselVars
    <2>4. /\ meta[r] = NoScope /\ vessel[r] = "none" /\ job[r] = "boot"
          /\ meta'[r] # NoScope /\ vessel'[r] # "running" /\ job'[r] = "boot"
      BY <1>1, <2>1, <2>2, <2>3 DEF IInv, UnrecordedIsFresh, Recorded, TypeOK
    <2>5. Phase(r) = "none" /\ Phase(r)' = "open"
      BY <2>4, PhaseIs DEF PhaseFacts
    <2>6. \A q \in Runs \ {r} : Phase(q)' = Phase(q)
      BY <1>1, <2>2, <2>3, SamePhase DEF TypeOK
    <2>7. QED
      BY <2>1, <2>2, <2>3, <2>5, <2>6, HandleOpens DEF HandleStep
  <1>8. CASE CreateVessel(c)
    <2>0. PICK r \in Runs : r = crun[c]
      BY <1>1, <1>8 DEF CreateVessel, IInv, LauncherOwnsRun, Pending, Owning, Recorded
    <2>1. meta[r] # NoScope /\ job[r] = "boot" /\ vessel[r] # "running"
      BY <1>1, <1>8, <2>0 DEF CreateVessel, IInv, LauncherOwnsRun, Pending, Owning, Recorded
    <2>2. UNCHANGED <<meta, exit, job>>
      BY <1>8 DEF CreateVessel, recordVars
    <2>3. vessel' = vessel \/ vessel' = [vessel EXCEPT ![r] = "created"]
      BY <1>8, <2>0 DEF CreateVessel
    <2>4. vessel'[r] # "running" /\ \A q \in Runs \ {r} : vessel'[q] = vessel[q]
      BY <1>1, <2>1, <2>3 DEF TypeOK
    <2>5. meta'[r] # NoScope /\ job'[r] = "boot"
      BY <2>1, <2>2
    <2>6. Phase(r) = "open" /\ Phase(r)' = "open"
      BY <2>1, <2>4, <2>5, PhaseIs DEF PhaseFacts
    <2>7. ASSUME NEW q \in Runs PROVE Phase(q)' = Phase(q)
      <3>1. CASE q = r
        BY <2>6, <3>1
      <3>2. CASE q # r
        <4>1. meta'[q] = meta[q] /\ vessel'[q] = vessel[q] /\ job'[q] = job[q]
          BY <2>2, <2>4, <3>2
        <4>2. QED
          BY <4>1, SamePhase
      <3>3. QED
        BY <3>1, <3>2
    <2>8. QED
      BY <2>2, <2>7, HandleStutters DEF HandleStep
  <1>9. CASE StartVessel(c)
    <2>1. UNCHANGED <<meta, exit, job>> /\ cpc[c] = "start"
      BY <1>9 DEF StartVessel, recordVars
    <2>2. CASE vessel' = vessel
      BY <1>2, <2>1, <2>2
    <2>3. CASE vessel[crun[c]] = "created" /\ vessel' = [vessel EXCEPT ![crun[c]] = "running"]
      <3>0. PICK r \in Runs : r = crun[c]
        BY <1>1, <2>1 DEF IInv, LauncherOwnsRun, Pending, Owning, Recorded
      <3>1. /\ r \in Recorded /\ meta[r] # NoScope /\ job[r] = "boot"
            /\ exit[r] = NoExit
        BY <1>1, <2>1, <3>0
        DEF IInv, LauncherOwnsRun, Pending, Owning, Recorded, ReapInv, NotYetSettled
      <3>2. vessel'[r] = "running" /\ \A q \in Runs \ {r} : vessel'[q] = vessel[q]
        BY <1>1, <2>3, <3>0, <3>1 DEF TypeOK
      <3>3. vessel[r] = "created"
        BY <2>3, <3>0
      <3>4. meta'[r] # NoScope /\ job'[r] = "boot" /\ UNCHANGED meta /\ UNCHANGED exit
        BY <2>1, <3>1
      <3>5. Phase(r) = "open" /\ Phase(r)' = "working"
        BY <3>1, <3>2, <3>3, <3>4, PhaseIs DEF PhaseFacts
      <3>6. ASSUME NEW q \in Runs, meta[q] = meta[r] PROVE Phase(q) # "working"
        <4>1. CASE q = r
          BY <3>5, <4>1
        <4>2. CASE q # r
          <5>1. vessel[q] # "running"
            BY <1>1, <3>1, <3>6, <3>3, <4>2 DEF IInv, NameIsLock, Recorded
          <5>2. QED
            BY <3>1, <3>6, <5>1, PhaseIs DEF PhaseFacts
        <4>3. QED
          BY <4>1, <4>2
      <3>7. \A q \in Runs \ {r} : Phase(q)' = Phase(q)
        BY <2>1, <3>2, SamePhase
      <3>8. QED
        BY <3>1, <3>5, <3>6, <3>7, <3>4, HandleStarts DEF HandleStep
    <2>4. QED
      BY <1>9, <2>2, <2>3 DEF StartVessel
  <1>11. CASE ClientCommand(c)
    BY <1>2, <1>11
    DEF ClientCommand, BeginLaunch, BeginWait, BeginClassify, StopWaiting, KillClient,
        recordVars, vesselVars
  <1>12. CASE
      \/ Inspect(c) \/ InspectFails(c) \/ FindRecord(c) \/ OrphanStatus(c) \/ Reclaim(c)
      \/ LoseRace(c) \/ FailStatus(c) \/ MarkRunning(c) \/ ReadExit(c) \/ ClassifyVessel(c)
      \/ PrintOrphanRow(c)
    BY <1>2, <1>12
    DEF Inspect, InspectFails, FindRecord, OrphanStatus, Reclaim, LoseRace, FailStatus,
        MarkRunning, ReadExit, ClassifyVessel, PrintOrphanRow, recordVars, vesselVars
  <1>13. QED
    BY <1>4, <1>5, <1>6, <1>7, <1>8, <1>9, <1>11, <1>12 DEF ClientStep

\* The steps of a vessel.
LEMMA VesselStepsHandle ==
  ASSUME ReapInv, ReapInv', NEW r \in Runs, VesselStep(r) \/ KillVessel(r)
  PROVE  HandleStep
  <1>1. /\ TypeOK /\ IInv /\ vessel[r] = "running" /\ UNCHANGED meta
        /\ r \in Recorded /\ meta[r] # NoScope /\ meta'[r] # NoScope
    BY DEF ReapInv, IInv, VesselStep, VesselBoots, BodyStarts, BodyDeclines, BodyEnds,
           FinalStatus, WriteExit, VesselExits, KillVessel, InVessel, recordVars,
           UnrecordedIsFresh, Recorded
  <1>2. \A q \in Runs \ {r} : /\ vessel'[q] = vessel[q] /\ job'[q] = job[q]
    BY <1>1
    DEF VesselStep, VesselBoots, BodyStarts, BodyDeclines, BodyEnds, FinalStatus, WriteExit,
        VesselExits, KillVessel, TypeOK
  <1>3. \A q \in Runs \ {r} : Phase(q)' = Phase(q)
    BY <1>1, <1>2, SamePhase
  <1>4. ASSUME UNCHANGED exit, Phase(r)' = Phase(r) PROVE HandleStep
    BY <1>1, <1>3, <1>4, HandleStutters DEF HandleStep
  <1>5. CASE VesselBoots(r) \/ BodyStarts(r)
    <2>1. /\ job[r] \in {"boot", "body"} /\ job'[r] \in {"body", "busy"}
          /\ vessel'[r] = "running" /\ UNCHANGED exit
      BY <1>1, <1>5 DEF VesselBoots, BodyStarts, InVessel, TypeOK, recordVars
    <2>2. Phase(r) = "working" /\ Phase(r)' = "working"
      BY <1>1, <2>1, PhaseIs DEF PhaseFacts
    <2>3. QED
      BY <1>4, <2>1, <2>2
  <1>6. CASE BodyDeclines(r) \/ BodyEnds(r)
    <2>1. job[r] \in {"body", "busy"} /\ job'[r] = "status" /\ UNCHANGED exit
      BY <1>1, <1>6 DEF BodyDeclines, BodyEnds, InVessel, TypeOK, recordVars
    <2>2. Phase(r) = "working" /\ Phase(r)' = "stopped"
      BY <1>1, <2>1, PhaseIs DEF PhaseFacts
    <2>3. QED
      BY <1>1, <1>3, <2>1, <2>2, HandleStops DEF HandleStep
  <1>7. CASE FinalStatus(r) \/ VesselExits(r)
    <2>1. job[r] \in {"status", "done"} /\ job'[r] \in {"exit", "done"} /\ UNCHANGED exit
      BY <1>1, <1>7 DEF FinalStatus, VesselExits, InVessel, TypeOK, recordVars
    <2>2. Phase(r) = "stopped" /\ Phase(r)' = "stopped"
      BY <1>1, <2>1, PhaseIs DEF PhaseFacts
    <2>3. QED
      BY <1>4, <2>1, <2>2
  <1>8. CASE WriteExit(r)
    <2>1. /\ job[r] = "exit" /\ job'[r] = "done" /\ rc[r] \in {0, 1}
          /\ exit' = [exit EXCEPT ![r] = rc[r]]
      BY <1>1, <1>8 DEF WriteExit, InVessel, TypeOK
    <2>2. Phase(r) = "stopped" /\ Phase(r)' = "stopped"
      BY <1>1, <2>1, PhaseIs DEF PhaseFacts
    <2>3. exit[r] = NoExit
      <3>1. exit[r] \in Codes \cup {NoExit}
        BY <1>1 DEF TypeOK
      <3>2. exit[r] \notin Codes
        BY <1>1, <2>1 DEF ReapInv, IInv, ExitIsHonest, OrphansAreDead, Codes
      <3>3. QED
        BY <3>1, <3>2
    <2>4. rc[r] \in Codes
      BY <2>1 DEF Codes
    <2>5. \A q \in Runs : Phase(q)' = Phase(q)
      BY <1>3, <2>2
    <2>6. QED
      BY <1>1, <2>1, <2>2, <2>3, <2>4, <2>5, HandleSettles DEF HandleStep
  <1>9. CASE KillVessel(r)
    <2>1. /\ vessel'[r] = "exited" /\ UNCHANGED exit
          /\ job'[r] = IF job[r] = "done" THEN "done" ELSE "killed"
      BY <1>1, <1>9 DEF KillVessel, TypeOK, recordVars
    <2>2. Phase(r)' = "stopped"
      BY <1>1, <2>1, PhaseIs DEF PhaseFacts
    <2>3. CASE job[r] \in {"boot", "body", "busy"}
      <3>1. Phase(r) = "working"
        BY <1>1, <2>3, PhaseIs DEF PhaseFacts
      <3>2. QED
        BY <1>1, <1>3, <2>1, <2>2, <3>1, HandleStops DEF HandleStep
    <2>4. CASE job[r] \notin {"boot", "body", "busy"}
      <3>1. Phase(r) = "stopped"
        BY <1>1, <2>4, PhaseIs DEF PhaseFacts
      <3>2. QED
        BY <1>4, <2>1, <2>2, <3>1
    <2>5. QED
      BY <2>3, <2>4
  <1>10. QED
    BY <1>5, <1>6, <1>7, <1>8, <1>9 DEF VesselStep

\* What a durable job promises its callers, with one launcher beside any number
\* of readers, kills and failing daemon calls: a body works alone in its scope,
\* and its run gets one exit code, once, after the body has stopped.
THEOREM JobsImplementHandle ==
  ASSUME OneLauncher
  PROVE  Spec => ImplementsHandle
  <1>1. ASSUME Init PROVE Handle!Init
    <2>1. \A r \in Runs : meta[r] = NoScope /\ vessel[r] = "none"
      BY <1>1 DEF Init
    <2>2. \A r \in Runs : Phase(r) = "none"
      BY <2>1, PhaseIs DEF PhaseFacts
    <2>3. QED
      BY <1>1, <2>2 DEF Init, Handle!Init
  <1>2. ASSUME ReapInv, ReapInv', [Next]_vars PROVE HandleStep
    <2>1. CASE UNCHANGED vars
      <3>1. UNCHANGED <<meta, exit, vessel, job>>
        BY <2>1 DEF vars, recordVars, vesselVars
      <3>2. QED
        BY <3>1, SamePhase, HandleStutters DEF HandleStep
    <2>2. CASE Next
      BY <1>2, <2>2, ClientStepsHandle, VesselStepsHandle DEF Next
    <2>3. QED
      BY <1>2, <2>1, <2>2
  <1>3. ASSUME ReapInv, ReapInv' PROVE [Next]_vars => HandleStep
    BY <1>2, <1>3
  <1>4. QED
    BY <1>1, <1>3, ReapAlways, PTL DEF Spec, ImplementsHandle, Handle!Spec, HandleStep

----------------------------------------------------------------------------
(* The runs a preflight leaves behind.                                     *)

\* The daemon answers every `docker inspect`.
DaemonAnswers == MaxDaemonErrors = 0

\* A container that holds its scope's name belongs to the newest record of
\* the scope, and from the preflight's look to the launch nobody else takes
\* or frees the name: so the run a reaper settles is the one whose container
\* it removes.
RecordsInOrder == \A q, r \in Runs : r \in Recorded /\ q < r => q \in Recorded
NameIsFree == \A c \in Clients : cpc[c] \in {"create", "launch"} => Named(cscope[c]) = {}
NameOfNewest == \A r \in Recorded : r \in Named(meta[r]) => IsNewest(r, meta[r])
HasNewest ==
    \A c \in Clients : cpc[c] \in Reaping \cup {"launch"} => IsNewest(crun[c], cscope[c])
NameToReap == \A c \in Clients : cpc[c] \in ReapStates => Named(cscope[c]) # {}

\* What it settles has its exit code before the container goes, and only the
\* reaper at work leaves anything of it up.
FaultFree == faults["client"] = 0 /\ faults["teardown"] = 0
RemovedIsSettled == \A r \in Runs : vessel[r] = "removed" => exit[r] # NoExit
ReaperHasSettled ==
    \A c \in Clients : cpc[c] \in {"orphanStatus", "reclaim", "remove"} =>
        exit[crun[c]] # NoExit
OrphansHoldNothing ==
    \A r \in Runs : FaultFree /\ exit[r] = ORPHAN_EXIT_CODE =>
        \/ \A x \in Resources \ GateStacks : held[x] # r
        \/ \E c \in Clients : crun[c] = r /\ cpc[c] \in {"orphanStatus", "reclaim"}

FreeInv ==
    /\ ReapInv
    /\ RecordsInOrder
    /\ NameIsFree
    /\ NameOfNewest
    /\ HasNewest
    /\ NameToReap
    /\ RemovedIsSettled
    /\ ReaperHasSettled
    /\ OrphansHoldNothing

LEMMA FreeInit == Init => FreeInv
  <1> SUFFICES ASSUME Init PROVE FreeInv
    OBVIOUS
  <1>1. (\A c \in Clients : cpc[c] = "idle") /\ Recorded = {}
    BY DEF Init, Recorded
  <1>2. RecordsInOrder /\ NameIsFree /\ NameOfNewest /\ HasNewest /\ NameToReap /\ ReaperHasSettled
    BY <1>1 DEF RecordsInOrder, NameIsFree, NameOfNewest, HasNewest, NameToReap, ReaperHasSettled,
                Reaping, ReapStates
  <1>3. RemovedIsSettled /\ OrphansHoldNothing
    BY DEF Init, RemovedIsSettled, OrphansHoldNothing, NoExit, ORPHAN_EXIT_CODE
  <1>4. QED
    BY <1>2, <1>3, ReapInit DEF FreeInv

\* Records are numbered as they are written.
LEMMA InOrderStep ==
  ASSUME IInv, RecordsInOrder, [Next]_vars
  PROVE  RecordsInOrder'
  <1> USE DEF IInv, RecordsInOrder, Recorded, LauncherOwnsRun, TypeOK, Goto,
              GotoWith, Return, recordVars, vesselVars, clientVars, ReapStates,
              NoScope
  <1>1. ASSUME NEW c \in Clients, ClientStep(c) PROVE RecordsInOrder'
    <2>1. CASE CreateRecord(c)
      BY <2>1 DEF CreateRecord, Runs
    <2>2. CASE
        \/ Inspect(c) \/ InspectFails(c) \/ FindRecord(c) \/ OrphanExit(c) \/
           OrphanStatus(c) \/ Reclaim(c) \/ RemoveVessel(c) \/ CreateVessel(c) \/
           StartVessel(c) \/ LoseRace(c) \/ FailStatus(c) \/ FailExit(c) \/
           MarkRunning(c) \/ ReadExit(c) \/ ClassifyVessel(c) \/ PrintOrphanRow(c)
      BY <2>2 DEF Inspect, InspectFails, FindRecord, OrphanExit, OrphanStatus,
                  Reclaim, RemoveVessel, CreateVessel, StartVessel, LoseRace,
                  FailStatus, FailExit, MarkRunning, ReadExit, ClassifyVessel,
                  PrintOrphanRow
    <2>3. QED
      BY <1>1, <2>1, <2>2 DEF ClientStep
  <1>2. ASSUME NEW c \in Clients, ClientCommand(c) PROVE RecordsInOrder'
    BY <1>2 DEF ClientCommand, BeginLaunch, BeginWait, BeginClassify, StopWaiting, KillClient
  <1>3. ASSUME NEW r \in Runs, VesselStep(r) \/ KillVessel(r) PROVE RecordsInOrder'
    <2>1. CASE
        \/ VesselBoots(r) \/ BodyStarts(r) \/ BodyDeclines(r) \/ BodyEnds(r) \/
           FinalStatus(r) \/ WriteExit(r) \/ VesselExits(r) \/ KillVessel(r)
      BY <2>1 DEF VesselBoots, BodyStarts, BodyDeclines, BodyEnds, FinalStatus,
                  WriteExit, VesselExits, KillVessel
    <2>2. QED
      BY <1>3, <2>1 DEF VesselStep
  <1>4. CASE UNCHANGED vars
    BY <1>4 DEF vars
  <1>5. QED
    BY <1>1, <1>2, <1>3, <1>4 DEF Next

\* Between its preflight and its container a launch has the name to itself.
LEMMA NameIsFreeStep ==
  ASSUME OneLauncher, DaemonAnswers, ReapInv, NameIsFree, [Next]_vars
  PROVE  NameIsFree'
  <1> USE DEF OneLauncher, ReapInv, IInv, OnlyLaunchersLaunch, LauncherOwnsRun,
              UnrecordedIsFresh, Recorded, Named, Pending, Owning, InVessel,
              ReapsTheDead, NameIsFree, DaemonAnswers, TypeOK, Goto, GotoWith,
              Return, recordVars, vesselVars, clientVars, Launching, ReapStates,
              LaunchStates, ReadStates
  <1>1. ASSUME NEW c \in Clients, ClientStep(c) PROVE NameIsFree'
    <2>1. CASE Inspect(c)
      BY <2>1 DEF Inspect
    <2>2. CASE InspectFails(c)
      BY <2>2 DEF InspectFails, Fault, FaultKinds
    <2>3. CASE RemoveVessel(c)
      BY <2>3 DEF RemoveVessel
    <2>4. CASE CreateRecord(c)
      BY <2>4 DEF CreateRecord
    <2>5. CASE CreateVessel(c)
      BY <2>5 DEF CreateVessel
    <2>6. CASE StartVessel(c)
      BY <2>6 DEF StartVessel
    <2>7. CASE
        \/ FindRecord(c) \/ OrphanExit(c) \/ OrphanStatus(c) \/ Reclaim(c) \/
           LoseRace(c) \/ FailStatus(c) \/ FailExit(c) \/ MarkRunning(c) \/
           ReadExit(c) \/ ClassifyVessel(c) \/ PrintOrphanRow(c)
      BY <2>7 DEF FindRecord, OrphanExit, OrphanStatus, Reclaim, LoseRace,
                  FailStatus, FailExit, MarkRunning, ReadExit, ClassifyVessel,
                  PrintOrphanRow
    <2>8. QED
      BY <1>1, <2>1, <2>2, <2>3, <2>4, <2>5, <2>6, <2>7 DEF ClientStep
  <1>2. ASSUME NEW c \in Clients, ClientCommand(c) PROVE NameIsFree'
    BY <1>2 DEF ClientCommand, BeginLaunch, BeginWait, BeginClassify, StopWaiting, KillClient
  <1>3. ASSUME NEW r \in Runs, VesselStep(r) \/ KillVessel(r) PROVE NameIsFree'
    <2>1. CASE VesselExits(r)
      BY <2>1 DEF VesselExits
    <2>2. CASE KillVessel(r)
      BY <2>2 DEF KillVessel
    <2>3. CASE
        \/ VesselBoots(r) \/ BodyStarts(r) \/ BodyDeclines(r) \/ BodyEnds(r) \/
           FinalStatus(r) \/ WriteExit(r)
      BY <2>3 DEF VesselBoots, BodyStarts, BodyDeclines, BodyEnds, FinalStatus,
                  WriteExit
    <2>4. QED
      BY <1>3, <2>1, <2>2, <2>3 DEF VesselStep
  <1>4. CASE UNCHANGED vars
    BY <1>4 DEF vars
  <1>5. QED
    BY <1>1, <1>2, <1>3, <1>4 DEF Next

\* A record is written while the name is free, and takes it as the newest.
LEMMA NameOfNewestStep ==
  ASSUME OneLauncher, ReapInv, NameIsFree, NameOfNewest, HasNewest, [Next]_vars
  PROVE  NameOfNewest'
  <1> USE DEF OneLauncher, ReapInv, IInv, OnlyLaunchersLaunch, LauncherOwnsRun,
              UnrecordedIsFresh, Recorded, Named, Pending, Owning, InVessel,
              NameIsFree, NameOfNewest, HasNewest, IsNewest, TypeOK, Goto, GotoWith,
              Return, recordVars, vesselVars, clientVars, Launching, ReapStates,
              LaunchStates, ReadStates
  <1>1. ASSUME NEW c \in Clients, ClientStep(c) PROVE NameOfNewest'
    <2>1. CASE RemoveVessel(c)
      BY <2>1 DEF RemoveVessel
    <2>2. CASE CreateRecord(c)
      BY <2>2 DEF CreateRecord
    <2>3. CASE CreateVessel(c)
      BY <2>3 DEF CreateVessel
    <2>4. CASE StartVessel(c)
      BY <2>4 DEF StartVessel
    <2>5. CASE
        \/ Inspect(c) \/ InspectFails(c) \/ FindRecord(c) \/ OrphanExit(c) \/
           OrphanStatus(c) \/ Reclaim(c) \/ LoseRace(c) \/ FailStatus(c) \/
           FailExit(c) \/ MarkRunning(c) \/ ReadExit(c) \/ ClassifyVessel(c) \/
           PrintOrphanRow(c)
      BY <2>5 DEF Inspect, InspectFails, FindRecord, OrphanExit, OrphanStatus,
                  Reclaim, LoseRace, FailStatus, FailExit, MarkRunning, ReadExit,
                  ClassifyVessel, PrintOrphanRow
    <2>6. QED
      BY <1>1, <2>1, <2>2, <2>3, <2>4, <2>5 DEF ClientStep
  <1>2. ASSUME NEW c \in Clients, ClientCommand(c) PROVE NameOfNewest'
    BY <1>2 DEF ClientCommand, BeginLaunch, BeginWait, BeginClassify, StopWaiting, KillClient
  <1>3. ASSUME NEW r \in Runs, VesselStep(r) \/ KillVessel(r) PROVE NameOfNewest'
    <2>1. CASE VesselExits(r)
      BY <2>1 DEF VesselExits
    <2>2. CASE KillVessel(r)
      BY <2>2 DEF KillVessel
    <2>3. CASE
        \/ VesselBoots(r) \/ BodyStarts(r) \/ BodyDeclines(r) \/ BodyEnds(r) \/
           FinalStatus(r) \/ WriteExit(r)
      BY <2>3 DEF VesselBoots, BodyStarts, BodyDeclines, BodyEnds, FinalStatus,
                  WriteExit
    <2>4. QED
      BY <1>3, <2>1, <2>2, <2>3 DEF VesselStep
  <1>4. CASE UNCHANGED vars
    BY <1>4 DEF vars
  <1>5. QED
    BY <1>1, <1>2, <1>3, <1>4 DEF Next

\* While one reaps or launches, no newer record is written.
LEMMA HasNewestStep ==
  ASSUME OneLauncher, ReapInv, RecordsInOrder, HasNewest, [Next]_vars
  PROVE  HasNewest'
  <1> USE DEF OneLauncher, ReapInv, IInv, OnlyLaunchersLaunch, LauncherOwnsRun,
              Recorded, Reaping, RecordsInOrder, HasNewest, IsNewest, TypeOK, Goto,
              GotoWith, Return, recordVars, vesselVars, clientVars, Launching,
              ReapStates, LaunchStates, ReadStates
  <1>1. ASSUME NEW c \in Clients, ClientStep(c) PROVE HasNewest'
    <2>1. CASE FindRecord(c)
      BY <2>1 DEF FindRecord
    <2>2. CASE CreateRecord(c)
      <3>1. PICK r \in Runs :
               /\ r \notin Recorded /\ \A q \in Runs : q < r => q \in Recorded
               /\ meta' = [meta EXCEPT ![r] = cscope[c]]
               /\ crun' = [crun EXCEPT ![c] = r]
        BY <2>2 DEF CreateRecord
      <3>2. cscope'[c] = cscope[c] /\ cscope[c] \in Scopes /\ cpc[c] = "create"
        BY <2>2 DEF CreateRecord
      <3>3. IsNewest(r, cscope[c])'
        BY <3>1, <3>2, ScopesAssumption DEF NoScope, Runs
      <3>4. \A d \in Clients : cpc'[d] \in Reaping \cup {"launch"} => d = c
        BY <2>2, <3>2 DEF CreateRecord
      <3>5. QED
        BY <3>1, <3>2, <3>3, <3>4
    <2>3. CASE
        \/ Inspect(c) \/ InspectFails(c) \/ OrphanExit(c) \/ OrphanStatus(c) \/
           Reclaim(c) \/ RemoveVessel(c) \/ CreateVessel(c) \/ StartVessel(c) \/
           LoseRace(c) \/ FailStatus(c) \/ FailExit(c) \/ MarkRunning(c) \/
           ReadExit(c) \/ ClassifyVessel(c) \/ PrintOrphanRow(c)
      BY <2>3 DEF Inspect, InspectFails, OrphanExit, OrphanStatus, Reclaim,
                  RemoveVessel, CreateVessel, StartVessel, LoseRace, FailStatus,
                  FailExit, MarkRunning, ReadExit, ClassifyVessel, PrintOrphanRow
    <2>4. QED
      BY <1>1, <2>1, <2>2, <2>3 DEF ClientStep
  <1>2. ASSUME NEW c \in Clients, ClientCommand(c) PROVE HasNewest'
    BY <1>2 DEF ClientCommand, BeginLaunch, BeginWait, BeginClassify, StopWaiting, KillClient
  <1>3. ASSUME NEW r \in Runs, VesselStep(r) \/ KillVessel(r) PROVE HasNewest'
    <2>1. CASE
        \/ VesselBoots(r) \/ BodyStarts(r) \/ BodyDeclines(r) \/ BodyEnds(r) \/
           FinalStatus(r) \/ WriteExit(r) \/ VesselExits(r) \/ KillVessel(r)
      BY <2>1 DEF VesselBoots, BodyStarts, BodyDeclines, BodyEnds, FinalStatus,
                  WriteExit, VesselExits, KillVessel
    <2>2. QED
      BY <1>3, <2>1 DEF VesselStep
  <1>4. CASE UNCHANGED vars
    BY <1>4 DEF vars
  <1>5. QED
    BY <1>1, <1>2, <1>3, <1>4 DEF Next

\* The name a preflight has found taken stays taken until it removes the container.
LEMMA NameToReapStep ==
  ASSUME OneLauncher, ReapInv, NameToReap, [Next]_vars
  PROVE  NameToReap'
  <1> USE DEF OneLauncher, ReapInv, IInv, OnlyLaunchersLaunch, LauncherOwnsRun,
              UnrecordedIsFresh, Recorded, Named, Pending, Owning, InVessel,
              NameToReap, TypeOK, Goto, GotoWith, Return, recordVars, vesselVars,
              clientVars, Launching, ReapStates, LaunchStates, ReadStates
  <1>1. ASSUME NEW c \in Clients, ClientStep(c) PROVE NameToReap'
    <2>1. CASE Inspect(c)
      BY <2>1 DEF Inspect
    <2>2. CASE FindRecord(c)
      BY <2>2 DEF FindRecord
    <2>3. CASE RemoveVessel(c)
      BY <2>3 DEF RemoveVessel
    <2>4. CASE CreateRecord(c)
      BY <2>4 DEF CreateRecord
    <2>5. CASE CreateVessel(c)
      BY <2>5 DEF CreateVessel
    <2>6. CASE StartVessel(c)
      BY <2>6 DEF StartVessel
    <2>7. CASE
        \/ InspectFails(c) \/ OrphanExit(c) \/ OrphanStatus(c) \/ Reclaim(c) \/
           LoseRace(c) \/ FailStatus(c) \/ FailExit(c) \/ MarkRunning(c) \/
           ReadExit(c) \/ ClassifyVessel(c) \/ PrintOrphanRow(c)
      BY <2>7 DEF InspectFails, OrphanExit, OrphanStatus, Reclaim, LoseRace,
                  FailStatus, FailExit, MarkRunning, ReadExit, ClassifyVessel,
                  PrintOrphanRow
    <2>8. QED
      BY <1>1, <2>1, <2>2, <2>3, <2>4, <2>5, <2>6, <2>7 DEF ClientStep
  <1>2. ASSUME NEW c \in Clients, ClientCommand(c) PROVE NameToReap'
    BY <1>2 DEF ClientCommand, BeginLaunch, BeginWait, BeginClassify, StopWaiting, KillClient
  <1>3. ASSUME NEW r \in Runs, VesselStep(r) \/ KillVessel(r) PROVE NameToReap'
    <2>1. CASE VesselExits(r)
      BY <2>1 DEF VesselExits
    <2>2. CASE KillVessel(r)
      BY <2>2 DEF KillVessel
    <2>3. CASE
        \/ VesselBoots(r) \/ BodyStarts(r) \/ BodyDeclines(r) \/ BodyEnds(r) \/
           FinalStatus(r) \/ WriteExit(r)
      BY <2>3 DEF VesselBoots, BodyStarts, BodyDeclines, BodyEnds, FinalStatus,
                  WriteExit
    <2>4. QED
      BY <1>3, <2>1, <2>2, <2>3 DEF VesselStep
  <1>4. CASE UNCHANGED vars
    BY <1>4 DEF vars
  <1>5. QED
    BY <1>1, <1>2, <1>3, <1>4 DEF Next

\* A reaper passes its first step only with an exit code.
LEMMA ReaperHasSettledStep ==
  ASSUME OneLauncher, ReapInv, ReaperHasSettled, [Next]_vars
  PROVE  ReaperHasSettled'
  <1> USE DEF OneLauncher, ReapInv, IInv, OnlyLaunchersLaunch, LauncherOwnsRun,
              ReaperHasSettled, InVessel, NoExit, ORPHAN_EXIT_CODE, LaunchError,
              Recorded, Pending, Owning, TypeOK, Goto, GotoWith, Return, recordVars,
              vesselVars, clientVars, Launching, ReapStates, LaunchStates, ReadStates
  <1>1. ASSUME NEW c \in Clients, ClientStep(c) PROVE ReaperHasSettled'
    <2>1. CASE FindRecord(c)
      BY <2>1 DEF FindRecord, IsNewest
    <2>2. CASE OrphanExit(c)
      BY <2>2 DEF OrphanExit
    <2>3. CASE CreateRecord(c)
      BY <2>3 DEF CreateRecord
    <2>4. CASE FailExit(c)
      BY <2>4 DEF FailExit
    <2>5. CASE
        \/ Inspect(c) \/ InspectFails(c) \/ OrphanStatus(c) \/ Reclaim(c) \/
           RemoveVessel(c) \/ CreateVessel(c) \/ StartVessel(c) \/ LoseRace(c) \/
           FailStatus(c) \/ MarkRunning(c) \/ ReadExit(c) \/ ClassifyVessel(c) \/
           PrintOrphanRow(c)
      BY <2>5 DEF Inspect, InspectFails, OrphanStatus, Reclaim, RemoveVessel,
                  CreateVessel, StartVessel, LoseRace, FailStatus, MarkRunning,
                  ReadExit, ClassifyVessel, PrintOrphanRow
    <2>6. QED
      BY <1>1, <2>1, <2>2, <2>3, <2>4, <2>5 DEF ClientStep
  <1>2. ASSUME NEW c \in Clients, ClientCommand(c) PROVE ReaperHasSettled'
    BY <1>2 DEF ClientCommand, BeginLaunch, BeginWait, BeginClassify, StopWaiting, KillClient
  <1>3. ASSUME NEW r \in Runs, VesselStep(r) \/ KillVessel(r) PROVE ReaperHasSettled'
    <2>1. CASE WriteExit(r)
      BY <2>1 DEF WriteExit
    <2>2. CASE
        \/ VesselBoots(r) \/ BodyStarts(r) \/ BodyDeclines(r) \/ BodyEnds(r) \/
           FinalStatus(r) \/ VesselExits(r) \/ KillVessel(r)
      BY <2>2 DEF VesselBoots, BodyStarts, BodyDeclines, BodyEnds, FinalStatus,
                  VesselExits, KillVessel
    <2>3. QED
      BY <1>3, <2>1, <2>2 DEF VesselStep
  <1>4. CASE UNCHANGED vars
    BY <1>4 DEF vars
  <1>5. QED
    BY <1>1, <1>2, <1>3, <1>4 DEF Next

\* The container that is removed is the one of the run that was settled.
LEMMA RemovedIsSettledStep ==
  ASSUME OneLauncher, ReapInv, NameOfNewest, HasNewest, ReaperHasSettled, RemovedIsSettled, [Next]_vars
  PROVE  RemovedIsSettled'
  <1> USE DEF ReapInv, IInv, LauncherOwnsRun, RemovedIsSettled, InVessel, NoExit,
              ORPHAN_EXIT_CODE, LaunchError, Recorded, Pending, Owning, TypeOK, Goto,
              GotoWith, Return, recordVars, vesselVars, clientVars, ReapStates
  <1>1. ASSUME NEW c \in Clients, ClientStep(c) PROVE RemovedIsSettled'
    <2>1. CASE OrphanExit(c)
      BY <2>1 DEF OrphanExit
    <2>2. CASE FailExit(c)
      BY <2>2 DEF FailExit
    <2>3. CASE RemoveVessel(c)
      <3>1. cpc[c] = "remove" /\ exit' = exit /\ IsNewest(crun[c], cscope[c]) /\ exit[crun[c]] # NoExit
        BY <2>3 DEF RemoveVessel, HasNewest, ReaperHasSettled, Reaping
      <3>2. ASSUME NEW r \in Named(cscope[c]) PROVE exit[r] # NoExit
        <4>1. IsNewest(r, cscope[c]) /\ r \in Recorded /\ meta[r] = cscope[c]
          BY <3>2 DEF NameOfNewest, Named
        <4>2. r = crun[c]
          BY <3>1, <4>1 DEF IsNewest, Runs
        <4>3. QED
          BY <3>1, <4>2
      <3>3. QED
        BY <2>3, <3>1, <3>2 DEF RemoveVessel
    <2>4. CASE CreateVessel(c)
      BY <2>4 DEF CreateVessel
    <2>5. CASE StartVessel(c)
      BY <2>5 DEF StartVessel
    <2>6. CASE
        \/ Inspect(c) \/ InspectFails(c) \/ FindRecord(c) \/ OrphanStatus(c) \/
           Reclaim(c) \/ CreateRecord(c) \/ LoseRace(c) \/ FailStatus(c) \/
           MarkRunning(c) \/ ReadExit(c) \/ ClassifyVessel(c) \/ PrintOrphanRow(c)
      BY <2>6 DEF Inspect, InspectFails, FindRecord, OrphanStatus, Reclaim,
                  CreateRecord, LoseRace, FailStatus, MarkRunning, ReadExit,
                  ClassifyVessel, PrintOrphanRow
    <2>7. QED
      BY <1>1, <2>1, <2>2, <2>3, <2>4, <2>5, <2>6 DEF ClientStep
  <1>2. ASSUME NEW c \in Clients, ClientCommand(c) PROVE RemovedIsSettled'
    BY <1>2 DEF ClientCommand, BeginLaunch, BeginWait, BeginClassify, StopWaiting, KillClient
  <1>3. ASSUME NEW r \in Runs, VesselStep(r) \/ KillVessel(r) PROVE RemovedIsSettled'
    <2>1. CASE WriteExit(r)
      BY <2>1 DEF WriteExit
    <2>2. CASE VesselExits(r)
      BY <2>2 DEF VesselExits
    <2>3. CASE KillVessel(r)
      BY <2>3 DEF KillVessel
    <2>4. CASE
        \/ VesselBoots(r) \/ BodyStarts(r) \/ BodyDeclines(r) \/ BodyEnds(r) \/
           FinalStatus(r)
      BY <2>4 DEF VesselBoots, BodyStarts, BodyDeclines, BodyEnds, FinalStatus
    <2>5. QED
      BY <1>3, <2>1, <2>2, <2>3, <2>4 DEF VesselStep
  <1>4. CASE UNCHANGED vars
    BY <1>4 DEF vars
  <1>5. QED
    BY <1>1, <1>2, <1>3, <1>4 DEF Next

\* Faults are counted, never forgotten.
LEMMA FaultsMount ==
  ASSUME TypeOK, [Next]_vars, FaultFree'
  PROVE  FaultFree
  <1> DEFINE Counted == \/ UNCHANGED faults
                        \/ \E k \in FaultKinds : faults' = [faults EXCEPT ![k] = @ + 1]
  <1> USE DEF FaultKinds, Fault, recordVars, vesselVars, clientVars
  <1>1. ASSUME NEW c \in Clients, ClientStep(c) PROVE Counted
    <2>1. CASE Reclaim(c)
      BY <2>1 DEF Reclaim
    <2>2. CASE InspectFails(c)
      BY <2>2 DEF InspectFails
    <2>3. CASE ~Reclaim(c) /\ ~InspectFails(c)
      BY <1>1, <2>3
      DEF ClientStep, Inspect, FindRecord, OrphanExit, OrphanStatus, RemoveVessel,
          CreateRecord, CreateVessel, StartVessel, LoseRace, FailStatus, FailExit,
          MarkRunning, ReadExit, ClassifyVessel, PrintOrphanRow
    <2>4. QED
      BY <2>1, <2>2, <2>3
  <1>2. ASSUME NEW c \in Clients, ClientCommand(c) PROVE Counted
    BY <1>2
    DEF ClientCommand, BeginLaunch, BeginWait, BeginClassify, StopWaiting, KillClient
  <1>3. ASSUME NEW r \in Runs, VesselStep(r) \/ KillVessel(r) PROVE Counted
    <2>1. CASE BodyEnds(r)
      BY <2>1 DEF BodyEnds
    <2>2. CASE ~BodyEnds(r)
      BY <1>3, <2>2
      DEF VesselStep, VesselBoots, BodyStarts, BodyDeclines, FinalStatus, WriteExit,
          VesselExits, KillVessel
    <2>3. QED
      BY <2>1, <2>2
  <1>4. Counted
    BY <1>1, <1>2, <1>3 DEF Next, vars
  <1>5. QED
    BY <1>4 DEF FaultFree, TypeOK

\* The teardown takes down what an orphan holds, but for a gate's stack.
LEMMA HoldNothingStep ==
  ASSUME OneLauncher, ReapInv, ReapInv', OrphansHoldNothing, [Next]_vars
  PROVE  OrphansHoldNothing'
  <1> DEFINE Busy == {"orphanStatus", "reclaim"}
             Bare(q) == \A x \in Resources \ GateStacks : held[x] # q
             Attended(q) == \E c \in Clients : crun[c] = q /\ cpc[c] \in Busy
  <1>1. TypeOK /\ IInv /\ OrphansAreDead /\ OrphansAreDead'
    BY DEF ReapInv, IInv
  <1>2. SUFFICES ASSUME NEW q \in Runs, FaultFree', exit'[q] = ORPHAN_EXIT_CODE
                 PROVE  Bare(q)' \/ Attended(q)'
    BY DEF OrphansHoldNothing
  <1>3. FaultFree /\ (exit[q] = ORPHAN_EXIT_CODE => Bare(q) \/ Attended(q))
    BY <1>1, <1>2, FaultsMount DEF OrphansHoldNothing
  <1>4. vessel'[q] # "running"
    BY <1>1, <1>2 DEF OrphansAreDead
  <1> HIDE DEF Bare, Attended
  <1>5. ASSUME exit[q] = ORPHAN_EXIT_CODE, UNCHANGED <<cpc, crun>>,
               \A x \in Resources : held'[x] = q => held[x] = q
        PROVE  Bare(q)' \/ Attended(q)'
    BY <1>3, <1>5 DEF Bare, Attended
  <1>6. ASSUME NEW c \in Clients, UNCHANGED <<held, exit>>, cpc[c] \notin Busy,
               \A d \in Clients \ {c} : cpc'[d] = cpc[d] /\ crun'[d] = crun[d]
        PROVE  Bare(q)' \/ Attended(q)'
    BY <1>2, <1>3, <1>6 DEF Bare, Attended
  <1>7. ASSUME NEW c \in Clients, ClientStep(c) PROVE Bare(q)' \/ Attended(q)'
    <2> USE DEF Goto, GotoWith, Return, recordVars, vesselVars
    <2>1. CASE OrphanExit(c)
      <3>1. CASE q = crun[c]
        BY <1>1, <2>1, <3>1 DEF OrphanExit, Attended, TypeOK
      <3>2. CASE q # crun[c]
        <4>1. exit[q] = ORPHAN_EXIT_CODE /\ UNCHANGED held /\ cpc[c] \notin Busy
          BY <1>1, <1>2, <2>1, <3>2 DEF OrphanExit, TypeOK
        <4>2. \A d \in Clients \ {c} : cpc'[d] = cpc[d] /\ crun'[d] = crun[d]
          BY <1>1, <2>1 DEF OrphanExit, TypeOK
        <4>3. QED
          BY <1>2, <1>3, <4>1, <4>2 DEF Bare, Attended
      <3>3. QED
        BY <3>1, <3>2
    <2>2. CASE OrphanStatus(c)
      <3>1. /\ UNCHANGED <<held, exit, crun>>
            /\ \A d \in Clients : cpc[d] \in Busy => cpc'[d] \in Busy
        BY <1>1, <2>2 DEF OrphanStatus, TypeOK
      <3>2. QED
        BY <1>2, <1>3, <3>1 DEF Bare, Attended
    <2>3. CASE Reclaim(c)
      <3>1. PICK left \in SUBSET Owns(meta[crun[c]]) :
                /\ cpc[c] = "reclaim" /\ held' = Without(Owns(meta[crun[c]]) \ left)
                /\ left \subseteq GateStacks /\ UNCHANGED <<exit, crun>>
        <4>1. PICK left \in SUBSET Owns(meta[crun[c]]) :
                  /\ cpc[c] = "reclaim" /\ held' = Without(Owns(meta[crun[c]]) \ left)
                  /\ IF left \subseteq GateStacks
                     THEN UNCHANGED faults ELSE Fault("teardown", MaxTeardownFailures)
                  /\ UNCHANGED <<exit, crun>>
          BY <2>3 DEF Reclaim
        <4>2. ~Fault("teardown", MaxTeardownFailures)
          BY <1>1, <1>2, <1>3 DEF Fault, FaultFree, TypeOK, FaultKinds
        <4>3. QED
          BY <4>1, <4>2
      <3>2. CASE q = crun[c]
        <4>1. \A x \in Resources : held[x] = q => x \in Owns(meta[q])
          BY <1>1 DEF IInv, HolderIsEntitled
        <4>2. q # NoRun
          BY DEF Runs, NoRun
        <4>3. \A x \in Resources \ GateStacks : held'[x] # q
          BY <3>1, <3>2, <4>1, <4>2 DEF Without
        <4>4. QED
          BY <4>3 DEF Bare
      <3>3. CASE q # crun[c]
        <4>1. \A x \in Resources : held'[x] = q => held[x] = q
          BY <3>1 DEF Without, NoRun, Runs
        <4>2. \A d \in Clients \ {c} : cpc'[d] = cpc[d] /\ crun'[d] = crun[d]
          BY <1>1, <2>3 DEF Reclaim, TypeOK
        <4>3. QED
          BY <1>2, <1>3, <3>1, <3>3, <4>1, <4>2 DEF Bare, Attended
      <3>4. QED
        BY <3>2, <3>3
    <2>4. CASE FailExit(c)
      <3>1. /\ cpc[c] \notin Busy /\ UNCHANGED held
            /\ exit' = [exit EXCEPT ![crun[c]] = LaunchError]
        BY <2>4 DEF FailExit
      <3>2. exit[q] = ORPHAN_EXIT_CODE
        BY <1>1, <1>2, <3>1 DEF TypeOK, LaunchError, ORPHAN_EXIT_CODE
      <3>3. \A d \in Clients \ {c} : cpc'[d] = cpc[d] /\ crun'[d] = crun[d]
        BY <1>1, <2>4 DEF FailExit, TypeOK
      <3>4. QED
        BY <1>2, <1>3, <3>1, <3>2, <3>3 DEF Bare, Attended
    <2>5. CASE InspectFails(c)
      <3>1. /\ UNCHANGED <<held, exit, crun>> /\ cpc[c] \notin Busy
            /\ \A d \in Clients \ {c} : cpc'[d] = cpc[d]
        BY <1>1, <1>2, <2>5 DEF InspectFails, TypeOK
      <3>2. QED
        BY <1>2, <1>3, <3>1 DEF Bare, Attended
    <2>6. CASE
        \/ Inspect(c) \/ FindRecord(c) \/ RemoveVessel(c) \/ CreateRecord(c) \/ CreateVessel(c)
        \/ StartVessel(c) \/ LoseRace(c) \/ FailStatus(c) \/ MarkRunning(c) \/ ReadExit(c)
        \/ ClassifyVessel(c) \/ PrintOrphanRow(c)
      <3>1. /\ UNCHANGED <<held, exit>> /\ cpc[c] \notin Busy
            /\ \A d \in Clients \ {c} : cpc'[d] = cpc[d] /\ crun'[d] = crun[d]
        BY <1>1, <2>6
        DEF Inspect, FindRecord, RemoveVessel, CreateRecord, CreateVessel, StartVessel, LoseRace,
            FailStatus, MarkRunning, ReadExit, ClassifyVessel, PrintOrphanRow, TypeOK
      <3>2. QED
        BY <1>6, <3>1
    <2>7. QED
      BY <1>7, <2>1, <2>2, <2>3, <2>4, <2>5, <2>6 DEF ClientStep
  <1>8. ASSUME NEW c \in Clients, ClientCommand(c) PROVE Bare(q)' \/ Attended(q)'
    <2> USE DEF Goto, GotoWith, Return, recordVars, vesselVars
    <2>1. CASE KillClient(c)
      BY <1>1, <1>2, <1>3, <2>1 DEF KillClient, Fault, FaultFree, TypeOK, FaultKinds
    <2>2. CASE ~KillClient(c)
      <3>1. /\ UNCHANGED <<held, exit>> /\ cpc[c] \notin Busy
            /\ \A d \in Clients \ {c} : cpc'[d] = cpc[d] /\ crun'[d] = crun[d]
        BY <1>1, <1>8, <2>2
        DEF ClientCommand, BeginLaunch, BeginWait, BeginClassify, StopWaiting, TypeOK
      <3>2. QED
        BY <1>6, <3>1
    <2>3. QED
      BY <2>1, <2>2
  <1>9. ASSUME NEW r \in Runs, VesselStep(r) \/ KillVessel(r) PROVE Bare(q)' \/ Attended(q)'
    <2>1. UNCHANGED <<cpc, crun, cscope>> /\ vessel[r] = "running"
      BY <1>1, <1>2, <1>9
      DEF VesselStep, VesselBoots, BodyStarts, BodyDeclines, BodyEnds, FinalStatus, WriteExit,
          VesselExits, KillVessel, InVessel, clientVars
    <2>2. exit[q] = ORPHAN_EXIT_CODE
      <3>1. CASE WriteExit(r)
        <4>1. exit' = [exit EXCEPT ![r] = rc[r]] /\ rc[r] \in {0, 1}
          BY <1>1, <3>1 DEF WriteExit, TypeOK
        <4>2. QED
          BY <1>1, <1>2, <4>1 DEF TypeOK, ORPHAN_EXIT_CODE
      <3>2. CASE ~WriteExit(r)
        <4>1. UNCHANGED exit
          BY <1>9, <3>2
          DEF VesselStep, VesselBoots, BodyStarts, BodyDeclines, BodyEnds, FinalStatus,
              VesselExits, KillVessel, recordVars
        <4>2. QED
          BY <1>2, <4>1
      <3>3. QED
        BY <3>1, <3>2
    <2>3. q # r
      BY <1>1, <2>1, <2>2 DEF OrphansAreDead
    <2>4. \A x \in Resources : held'[x] = q => held[x] = q
      BY <1>1, <1>9, <2>3
      DEF VesselStep, VesselBoots, BodyStarts, BodyDeclines, BodyEnds, FinalStatus, WriteExit,
          VesselExits, KillVessel, Without, NoRun, Runs, TypeOK
    <2>5. QED
      BY <1>5, <2>1, <2>2, <2>4
  <1>10. CASE UNCHANGED vars
    BY <1>2, <1>5, <1>10 DEF vars, clientVars, recordVars
  <1>11. QED
    BY <1>7, <1>8, <1>9, <1>10 DEF Next

LEMMA FreeAlways == ASSUME OneLauncher, DaemonAnswers PROVE Spec => []FreeInv
  <1>1. FreeInv /\ ReapInv' /\ [Next]_vars => FreeInv'
    BY InOrderStep, NameIsFreeStep, NameOfNewestStep, HasNewestStep, NameToReapStep,
       ReaperHasSettledStep, RemovedIsSettledStep, HoldNothingStep DEF FreeInv, ReapInv
  <1>2. QED
    BY <1>1, FreeInit, ReapAlways, PTL DEF Spec

\* With one launcher and a daemon that answers, a run whose vessel is removed
\* is accounted for: it has an exit code, and what a killed one held has been
\* reclaimed, but for a gate's stack, unless its reaper was killed too or a
\* removal failed.
THEOREM FreedIsAccountedFor ==
  ASSUME OneLauncher, DaemonAnswers
  PROVE  Spec => []FreedRunIsAccountedFor
  <1>1. ASSUME FreeInv PROVE FreedRunIsAccountedFor
    <2> SUFFICES ASSUME NEW r \in Runs, vessel[r] = "removed"
                 PROVE  /\ exit[r] # NoExit
                        /\ (FaultFree /\ exit[r] = ORPHAN_EXIT_CODE)
                              => \A x \in Resources \ GateStacks : held[x] # r
      BY DEF FreedRunIsAccountedFor, FaultFree
    <2>1. exit[r] # NoExit
      BY <1>1 DEF FreeInv, RemovedIsSettled
    <2>2. ASSUME NEW c \in Clients, cpc[c] \in {"orphanStatus", "reclaim"} PROVE crun[c] # r
      <3>1. cpc[c] \in ReapStates /\ IsNewest(crun[c], cscope[c]) /\ Named(cscope[c]) # {}
        BY <1>1, <2>2 DEF FreeInv, HasNewest, NameToReap, Reaping, ReapStates
      <3>2. PICK q \in Named(cscope[c]) : TRUE
        BY <3>1
      <3>3. q \in Recorded /\ meta[q] = cscope[c] /\ IsNewest(q, cscope[c])
        BY <1>1, <3>2 DEF FreeInv, NameOfNewest, Named
      <3>4. q = crun[c]
        BY <3>1, <3>3 DEF IsNewest, Recorded, Runs
      <3>5. QED
        BY <3>2, <3>4 DEF Named
    <2>3. QED
      BY <1>1, <2>1, <2>2 DEF FreeInv, OrphansHoldNothing
  <1>2. QED
    BY <1>1, FreeAlways, PTL

=============================================================================
