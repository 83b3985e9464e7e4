--------------------------- MODULE TestFleetProofs ---------------------------
(***************************************************************************)
(* Theorems about TestFleet for bands of any width and any number of       *)
(* launches, kills and failed teardowns.                                   *)
(***************************************************************************)
EXTENDS TestFleet, TLAPS

----------------------------------------------------------------------------
(* The bands.                                                              *)

LEMMA SlotInSlots ==
  ASSUME NEW s \in Scopes, NEW i \in Shards
  PROVE  Slot(s, i) \in Slots
  BY BandAssumption
  DEF Slot, Slots, Shards, Base, Scopes, CHECK_BASE, MERGE_BASE

\* No two shards, of one run or of the runs of two commands, drive one slot,
\* whatever MAX_TEST_SLOTS is retuned to ("disjoint BY CONSTRUCTION").
THEOREM BandsApart ==
  ASSUME NEW s \in Scopes, NEW t \in Scopes, NEW i \in Shards, NEW j \in Shards,
         Slot(s, i) = Slot(t, j)
  PROVE  s = t /\ i = j
  BY BandAssumption
  DEF Slot, Shards, Base, Scopes, CHECK_BASE, MERGE_BASE

\* What test.sh is told is the shard's index in its run, never its slot.
LEMMA ShareIsIndex ==
  ASSUME NEW s \in Scopes, NEW i \in Shards, run[s].width \in Nat,
         i \in Width(s)
  PROVE  Share(s, i) = <<i, run[s].width>>
  <1>1. Base(s) \in Nat /\ i \in Nat
    BY BandAssumption DEF Base, Scopes, CHECK_BASE, MERGE_BASE, Shards
  <1>2. Base(s) + i - 1 - Base(s) + 1 = i
    BY <1>1
  <1>3. ~Sharded(s) => i = 1
    BY <1>1 DEF Sharded, Width
  <1>4. QED
    BY <1>1, <1>2, <1>3 DEF Share, Slot

----------------------------------------------------------------------------
(* Type correctness.                                                       *)

LEMMA TypeInit == Init => TypeOK
  BY BandAssumption DEF Init, TypeOK, IdleShard, ShardStates, Slots

ShardType == [Scopes -> [Shards -> [pc : ShardStates, ok : BOOLEAN]]]
StackType(u, q, d) == u \subseteq Slots /\ q \subseteq Slots /\ d \in [Slots -> Nat]
CountType == [{"launch", "kill", "down"} -> Nat]

LEMMA GotoType ==
  ASSUME TypeOK, NEW s \in Scopes, NEW i \in Shards, NEW pc \in ShardStates,
         Goto(s, i, pc)
  PROVE  shard' \in ShardType
  <1>1. [shard[s] EXCEPT ![i].pc = pc]
            \in [Shards -> [pc : ShardStates, ok : BOOLEAN]]
    <2>1. shard[s] \in [Shards -> [pc : ShardStates, ok : BOOLEAN]]
      BY DEF TypeOK
    <2>2. [shard[s][i] EXCEPT !.pc = pc] \in [pc : ShardStates, ok : BOOLEAN]
      BY <2>1
    <2>3. QED
      BY <2>1, <2>2
  <1>2. shard' = [shard EXCEPT ![s] = [shard[s] EXCEPT ![i].pc = pc]]
    BY DEF Goto
  <1>3. QED
    BY <1>1, <1>2 DEF TypeOK, ShardType

LEMMA GotoWithType ==
  ASSUME TypeOK, NEW s \in Scopes, NEW i \in Shards, NEW pc \in ShardStates,
         NEW ok \in BOOLEAN, GotoWith(s, i, pc, ok)
  PROVE  shard' \in ShardType
  <1>1. [shard[s] EXCEPT ![i] = [pc |-> pc, ok |-> ok]]
            \in [Shards -> [pc : ShardStates, ok : BOOLEAN]]
    BY DEF TypeOK
  <1>2. QED
    BY <1>1 DEF GotoWith, TypeOK, ShardType

LEMMA DownType ==
  ASSUME TypeOK, NEW k \in Slots, Down(k)
  PROVE  StackType(up', kept', data') /\ count' \in CountType
  BY DEF TypeOK, Down, Counted, StackType, CountType

LEMMA ComposeUpType ==
  ASSUME TypeOK, NEW s \in Scopes, NEW k \in Slots, ComposeUp(s, k)
  PROVE  up' \subseteq Slots /\ data' \in [Slots -> Nat]
  BY DEF TypeOK, ComposeUp

LEMMA AllIdleType ==
  ASSUME TypeOK, NEW s \in Scopes,
         NEW f \in [Shards -> [pc : ShardStates, ok : BOOLEAN]],
         shard' = [shard EXCEPT ![s] = f]
  PROVE  shard' \in ShardType
  BY DEF TypeOK, ShardType

LEMMA IdleType ==
  [i \in Shards |-> IdleShard] \in [Shards -> [pc : ShardStates, ok : BOOLEAN]]
  BY DEF IdleShard, ShardStates

\* A share is a pair of numbers, so nothing but a share is recorded.
LEMMA ShareType ==
  ASSUME TypeOK, NEW s \in Scopes, NEW i \in Shards
  PROVE  Share(s, i) \in Nat \X Nat
  <1>1. i \in Nat /\ run[s].width \in Nat
    BY BandAssumption DEF Shards, TypeOK
  <1>2. Base(s) \in Nat
    BY BandAssumption DEF Base, Scopes, CHECK_BASE, MERGE_BASE
  <1>3. Slot(s, i) - Base(s) + 1 = i
    BY <1>1, <1>2 DEF Slot
  <1>4. QED
    BY <1>1, <1>3 DEF Share

\* The step of one shard keeps the types.
LEMMA TypeShardStep ==
  ASSUME TypeOK, NEW s \in Scopes, NEW i \in Shards, ShardStep(s, i)
  PROVE  TypeOK'
  <1> SUFFICES /\ shard' \in ShardType
               /\ StackType(up', kept', data')
               /\ count' \in CountType
               /\ shares' \in [Scopes -> SUBSET (Nat \X Nat)]
               /\ UNCHANGED <<run, leak>>
    BY DEF TypeOK, ShardType, StackType, CountType
  <1>1. PICK k \in Slots : k = Slot(s, i)
    BY SlotInSlots
  <1>2. shard[s][i].ok \in BOOLEAN
    BY DEF TypeOK
  <1>3. /\ count \in CountType /\ StackType(up, kept, data)
        /\ shares \in [Scopes -> SUBSET (Nat \X Nat)]
    BY DEF TypeOK, CountType, StackType
  <1>4. CASE Build(s, i)
    <2>1. shard' \in ShardType
      BY <1>4, GotoWithType DEF Build, ShardStates
    <2>2. QED
      BY <1>1, <1>3, <1>4, <2>1, ComposeUpType DEF Build, StackType
  <1>5. CASE BuildDown(s, i)
    <2>1. (IF shard[s][i].ok THEN "clean" ELSE "done") \in ShardStates
      BY DEF ShardStates
    <2>2. QED
      BY <1>1, <1>3, <1>5, <2>1, GotoType, DownType DEF BuildDown
  <1>6. CASE Clean(s, i)
    <2>1. shard' \in ShardType
      BY <1>6, GotoType DEF Clean, ShardStates
    <2>2. QED
      BY <1>1, <1>3, <1>6, <2>1, DownType DEF Clean
  <1>7. CASE Up(s, i)
    <2>1. shard' \in ShardType
      <3>1. {"suite", "done", "teardown"} \subseteq ShardStates
        BY DEF ShardStates
      <3>2. CASE Goto(s, i, "suite")
        BY <3>1, <3>2, GotoType
      <3>3. CASE Fail(s, i)
        BY <3>1, <3>3, GotoWithType DEF Fail
      <3>4. QED
        BY <1>7, <3>2, <3>3 DEF Up
    <2>2. up' \subseteq Slots /\ data' \in [Slots -> Nat]
      <3>1. ComposeUp(s, k) \/ UNCHANGED <<up, data>>
        BY <1>1, <1>7 DEF Up
      <3>2. QED
        BY <1>3, <3>1, ComposeUpType DEF StackType
    <2>3. kept' \subseteq Slots
      BY <1>1, <1>3, <1>7 DEF Up, KeepUp, StackType
    <2>4. UNCHANGED <<run, leak, shares, count>>
      BY <1>7 DEF Up
    <2>5. QED
      BY <1>3, <2>1, <2>2, <2>3, <2>4 DEF StackType
  <1>8. CASE Suite(s, i)
    <2>1. shard' \in ShardType
      <3>1. {"done", "teardown"} \subseteq ShardStates
        BY DEF ShardStates
      <3>2. CASE GotoWith(s, i, "teardown", TRUE)
        BY <3>1, <3>2, GotoWithType
      <3>3. CASE Fail(s, i)
        BY <3>1, <3>3, GotoWithType DEF Fail
      <3>4. QED
        BY <1>8, <3>2, <3>3 DEF Suite
    <2>2. kept' \subseteq Slots
      BY <1>1, <1>3, <1>8 DEF Suite, KeepUp, StackType
    <2>3. shares' \in [Scopes -> SUBSET (Nat \X Nat)]
      <3>1. shares[s] \cup {Share(s, i)} \in SUBSET (Nat \X Nat)
        BY <1>3, ShareType
      <3>2. \/ shares' = [shares EXCEPT ![s] = shares[s] \cup {Share(s, i)}]
            \/ shares' = shares
        BY <1>8 DEF Suite
      <3>3. QED
        BY <1>3, <3>1, <3>2
    <2>4. UNCHANGED <<run, leak, up, data, count>>
      BY <1>8 DEF Suite
    <2>5. QED
      BY <1>3, <2>1, <2>2, <2>3, <2>4 DEF StackType
  <1>9. CASE Teardown(s, i)
    <2>1. shard' \in ShardType
      BY <1>9, GotoType DEF Teardown, ShardStates
    <2>2. QED
      BY <1>1, <1>3, <1>9, <2>1, DownType DEF Teardown
  <1>10. QED
    BY <1>4, <1>5, <1>6, <1>7, <1>8, <1>9 DEF ShardStep

LEMMA TypeNext == TypeOK /\ [Next]_vars => TypeOK'
  <1> SUFFICES ASSUME TypeOK, [Next]_vars PROVE TypeOK'
    OBVIOUS
  <1> DEFINE RunRange == [pc : {"idle", "reap", "work"}, id : Nat,
                          width : 0..MAX_TEST_SLOTS, todo : SUBSET Shards,
                          verdict : {"none", "green", "red"}]
  <1>a. /\ run \in [Scopes -> RunRange]
        /\ shard \in ShardType /\ StackType(up, kept, data)
        /\ count \in CountType /\ shares \in [Scopes -> SUBSET (Nat \X Nat)]
        /\ leak \in [Scopes -> 0..MAX_TEST_SLOTS]
    BY DEF TypeOK, ShardType, StackType, CountType
  <1>b. 0 \in 0..MAX_TEST_SLOTS
    BY BandAssumption
  <1>c. ASSUME NEW f, NEW m, Counted(f, m), f \in DOMAIN count
        PROVE  count' \in CountType
    BY <1>a, <1>c DEF Counted, CountType
  <1>1. ASSUME NEW i \in Shards, ReapTest(i) PROVE TypeOK'
    <2>1. Slot("test", i) \in Slots
      BY SlotInSlots DEF Scopes
    <2>2. StackType(up', kept', data') /\ count' \in CountType
      BY <1>1, <2>1, DownType DEF ReapTest
    <2>3. run' \in [Scopes -> RunRange]
      BY ZenonT(40), <1>a, <1>1 DEF ReapTest
    <2>4. UNCHANGED <<shard, shares, leak>>
      BY <1>1 DEF ReapTest
    <2>5. QED
      BY <1>a, <2>2, <2>3, <2>4
      DEF TypeOK, ShardType, StackType, CountType
  <1>2. ASSUME NEW s \in Gates, NEW i \in Shards, ReapGate(s, i) PROVE TypeOK'
    <2>1. 1 \in Slots
      BY BandAssumption DEF Slots
    <2>2. up' \subseteq Slots /\ kept' \subseteq Slots
      BY <1>2 DEF ReapGate, TypeOK
    <2>3. data' \in [Slots -> Nat]
      BY <1>2, <2>1 DEF ReapGate, TypeOK
    <2>4. run' \in [Scopes -> RunRange]
      BY <1>a, <1>2 DEF ReapGate, Gates, Scopes
    <2>5. UNCHANGED <<shard, shares, leak, count>>
      BY <1>2 DEF ReapGate
    <2>6. QED
      BY <1>a, <2>2, <2>3, <2>4, <2>5
      DEF TypeOK, ShardType, StackType, CountType
  <1>3. ASSUME NEW s \in Scopes, NEW n \in Shards, Launch(s, n) PROVE TypeOK'
    <2>1. 1..leak[s] \subseteq Shards
      BY BandAssumption DEF TypeOK, Shards
    <2>2. n \in 0..MAX_TEST_SLOTS
      BY BandAssumption DEF Shards
    <2>3. count["launch"] + 1 \in Nat /\ count' \in CountType
      BY <1>a, <1>c, <1>3 DEF Launch, CountType
    <2>4. run' \in [Scopes -> RunRange]
      BY <1>a, <1>3, <2>1, <2>2, <2>3 DEF Launch
    <2>5. shares' \in [Scopes -> SUBSET (Nat \X Nat)]
      BY <1>a, <1>3 DEF Launch
    <2>6. leak' \in [Scopes -> 0..MAX_TEST_SLOTS]
      BY <1>a, <1>b, <1>3 DEF Launch
    <2>7. UNCHANGED <<shard, up, data, kept>>
      BY <1>3 DEF Launch
    <2>8. QED
      BY <1>a, <2>3, <2>4, <2>5, <2>6, <2>7
      DEF TypeOK, ShardType, StackType, CountType
  <1>4. ASSUME NEW s \in Scopes, StartShards(s) PROVE TypeOK'
    <2>1. PICK first \in ShardStates :
              shard' = [shard EXCEPT ![s] = [i \in Shards |->
                  IF i <= run[s].width THEN [pc |-> first, ok |-> TRUE]
                                       ELSE IdleShard]]
      <3>1. (CASE Sharded(s)  -> "clean"
               [] s \in Gates -> "build"
               [] OTHER       -> "up") \in ShardStates
        BY DEF ShardStates
      <3>2. QED
        BY <1>4, <3>1 DEF StartShards
    <2>2. shard' \in ShardType
      BY <2>1, AllIdleType DEF IdleShard, ShardStates
    <2>3. run' \in [Scopes -> RunRange]
      BY <1>a, <1>4 DEF StartShards
    <2>4. UNCHANGED <<shares, leak, up, data, kept, count>>
      BY <1>4 DEF StartShards
    <2>5. QED
      BY <1>a, <2>2, <2>3, <2>4
      DEF TypeOK, ShardType, StackType, CountType
  <1>5. ASSUME NEW s \in Scopes, Report(s) PROVE TypeOK'
    <2>1. shard' \in ShardType
      BY <1>5, AllIdleType, IdleType DEF Report
    <2>2. run' \in [Scopes -> RunRange]
      <3>1. PICK v \in {"green", "red"} :
                run' = [run EXCEPT ![s].pc = "idle", ![s].verdict = v]
        BY <1>5 DEF Report
      <3>2. QED
        BY ZenonT(40), <1>a, <3>1
    <2>3. UNCHANGED <<shares, leak, up, data, kept, count>>
      BY <1>5 DEF Report
    <2>4. QED
      BY <1>a, <2>1, <2>2, <2>3
      DEF TypeOK, ShardType, StackType, CountType
  <1>6. ASSUME NEW s \in Scopes, Kill(s) PROVE TypeOK'
    <2>1. shard' \in ShardType
      BY <1>6, AllIdleType, IdleType DEF Kill
    <2>2. run' \in [Scopes -> RunRange]
      BY ZenonT(40), <1>a, <1>6 DEF Kill
    <2>3. leak' \in [Scopes -> 0..MAX_TEST_SLOTS]
      BY <1>a, <1>b, <1>6 DEF Kill
    <2>4. count' \in CountType
      BY <1>a, <1>c, <1>6 DEF Kill, CountType
    <2>5. UNCHANGED <<shares, up, data, kept>>
      BY <1>6 DEF Kill
    <2>6. QED
      BY <1>a, <2>1, <2>2, <2>3, <2>4, <2>5
      DEF TypeOK, ShardType, StackType, CountType
  <1>7. CASE UNCHANGED vars
    BY <1>7 DEF TypeOK, vars
  <1>8. QED
    BY <1>1, <1>2, <1>3, <1>4, <1>5, <1>6, <1>7, TypeShardStep DEF Next

\* Runs, shards and stacks stay in their ranges: no run leaves its band.
THEOREM TypeCorrect == Spec => []TypeOK
  BY TypeInit, TypeNext, PTL DEF Spec

----------------------------------------------------------------------------
(* The stacks.                                                             *)

\* A thread exists only within the width of a run at work, and a suite runs
\* only in a stack that is up.
ShardsBelong ==
    \A s \in Scopes, i \in Shards : shard[s][i].pc # "none" =>
        run[s].pc = "work" /\ i \in Width(s)
TestedIsUp ==
    \A s \in Scopes, i \in Shards : Testing(s, i) => Slot(s, i) \in up

StackInv == TypeOK /\ ShardsBelong /\ TestedIsUp

\* What one step may do to the stack of a shard whose suite runs on.
Undisturbed(s, i) ==
    (Testing(s, i) /\ shard'[s][i].pc = "suite") =>
        /\ Slot(s, i) \in up'
        /\ data'[Slot(s, i)] = data[Slot(s, i)]

LEMMA StackInit == Init => StackInv
  BY TypeInit DEF Init, StackInv, ShardsBelong, TestedIsUp, Testing, IdleShard

\* A thread moves itself alone.
LEMMA MovesItself ==
  ASSUME TypeOK, NEW s \in Scopes, NEW i \in Shards, ShardStep(s, i),
         NEW t \in Scopes, NEW j \in Shards, s # t \/ i # j
  PROVE  shard'[t][j] = shard[t][j]
  <1>1. \/ \E pc \in ShardStates : Goto(s, i, pc)
        \/ \E pc \in ShardStates, ok \in BOOLEAN : GotoWith(s, i, pc, ok)
    BY DEF ShardStep, Build, BuildDown, Clean, Up, Suite, Teardown, Fail,
           ShardStates
  <1>2. PICK r : shard' = [shard EXCEPT ![s] = [shard[s] EXCEPT ![i] = r]]
    <2>1. ASSUME NEW pc, Goto(s, i, pc)
          PROVE  shard' = [shard EXCEPT ![s] =
                     [shard[s] EXCEPT ![i] = [shard[s][i] EXCEPT !.pc = pc]]]
      BY <2>1 DEF Goto
    <2>2. ASSUME NEW pc, NEW ok, GotoWith(s, i, pc, ok)
          PROVE  shard' = [shard EXCEPT ![s] =
                     [shard[s] EXCEPT ![i] = [pc |-> pc, ok |-> ok]]]
      BY <2>2 DEF GotoWith
    <2>3. QED
      BY <1>1, <2>1, <2>2
  <1>3. shard \in [Scopes -> [Shards -> [pc : ShardStates, ok : BOOLEAN]]]
    BY DEF TypeOK
  <1>4. QED
    BY <1>2, <1>3

\* And touches its own stack alone.
LEMMA TouchesItsStack ==
  ASSUME TypeOK, NEW s \in Scopes, NEW i \in Shards, ShardStep(s, i),
         NEW k \in Slots, k # Slot(s, i)
  PROVE  (k \in up' <=> k \in up) /\ data'[k] = data[k]
  <1>1. \/ Down(Slot(s, i)) \/ ComposeUp(s, Slot(s, i))
        \/ UNCHANGED <<up, data>>
    BY DEF ShardStep, Build, BuildDown, Clean, Up, Suite, Teardown
  <1>2. QED
    BY <1>1 DEF Down, ComposeUp, TypeOK

\* Only a successful `compose up` leads to the suite, and only the suite's
\* end away from it.
LEMMA ReachesSuite ==
  ASSUME TypeOK, NEW s \in Scopes, NEW i \in Shards, ShardStep(s, i)
  PROVE  /\ shard'[s][i].pc # "none"
         /\ shard'[s][i].pc = "suite" => Slot(s, i) \in up'
         /\ shard'[s][i].pc = "suite" => ~Testing(s, i)
         /\ shard[s][i].pc # "none"
  <1> USE DEF TypeOK, At, Goto, GotoWith, Testing
  <1>1. CASE Build(s, i)
    BY <1>1 DEF Build
  <1>2. CASE BuildDown(s, i)
    BY <1>2 DEF BuildDown
  <1>3. CASE Clean(s, i)
    BY <1>3 DEF Clean
  <1>4. CASE Up(s, i)
    BY <1>4 DEF Up, ComposeUp, Fail
  <1>5. CASE Suite(s, i)
    BY <1>5 DEF Suite, Fail
  <1>6. CASE Teardown(s, i)
    BY <1>6 DEF Teardown
  <1>7. QED
    BY <1>1, <1>2, <1>3, <1>4, <1>5, <1>6 DEF ShardStep

LEMMA StackShardStep ==
  ASSUME StackInv, NEW s \in Scopes, NEW i \in Shards, ShardStep(s, i)
  PROVE  /\ ShardsBelong' /\ TestedIsUp'
         /\ \A t \in Scopes, j \in Shards : Undisturbed(t, j)
  <1>1. TypeOK /\ UNCHANGED run
    BY DEF StackInv, ShardStep, Build, BuildDown, Clean, Up, Suite, Teardown
  <1>2. SUFFICES ASSUME NEW t \in Scopes, NEW j \in Shards
        PROVE  /\ shard'[t][j].pc # "none" =>
                      run'[t].pc = "work" /\ j \in Width(t)'
               /\ shard'[t][j].pc = "suite" => Slot(t, j) \in up'
               /\ Undisturbed(t, j)
    BY DEF ShardsBelong, TestedIsUp, Testing, Slot, Base
  <1>3. CASE s = t /\ i = j
    BY <1>1, <1>3, ReachesSuite
    DEF StackInv, ShardsBelong, Undisturbed, Width
  <1>4. CASE s # t \/ i # j
    <2>1. shard'[t][j] = shard[t][j]
      BY <1>1, <1>4, MovesItself
    <2>2. Slot(t, j) # Slot(s, i) /\ Slot(t, j) \in Slots
      BY <1>4, BandsApart, SlotInSlots
    <2>3. /\ Slot(t, j) \in up' <=> Slot(t, j) \in up
          /\ data'[Slot(t, j)] = data[Slot(t, j)]
      BY <1>1, <2>2, TouchesItsStack
    <2>4. QED
      BY <1>1, <2>1, <2>3
      DEF StackInv, ShardsBelong, TestedIsUp, Testing, Undisturbed, Width
  <1>5. QED
    BY <1>3, <1>4

\* A preflight takes down only stacks of its own scope, whose threads are gone,
\* or the volume of slot 1 while its containers are down.
LEMMA StackReap ==
  ASSUME StackInv, NEW s \in Scopes, NEW i \in Shards,
         \/ s = "test" /\ ReapTest(i)
         \/ s \in Gates /\ ReapGate(s, i)
  PROVE  /\ ShardsBelong' /\ TestedIsUp'
         /\ \A t \in Scopes, j \in Shards : Undisturbed(t, j)
  <1>1. /\ TypeOK /\ run[s].pc = "reap" /\ shard' = shard
        /\ \E r \in SUBSET Shards : run' = [run EXCEPT ![s].todo = r]
    <2>1. run[s].todo \ {i} \in SUBSET Shards
      BY DEF StackInv, TypeOK
    <2>2. QED
      BY <2>1 DEF StackInv, ReapTest, ReapGate
  <1>2. SUFFICES ASSUME NEW t \in Scopes, NEW j \in Shards
        PROVE  /\ shard[t][j].pc # "none" =>
                      run'[t].pc = "work" /\ j \in Width(t)'
               /\ Testing(t, j) => /\ Slot(t, j) \in up'
                                   /\ data'[Slot(t, j)] = data[Slot(t, j)]
    BY <1>1 DEF ShardsBelong, TestedIsUp, Testing, Slot, Base, Undisturbed
  <1>3. shard[t][j].pc # "none" => run'[t].pc = "work" /\ j \in Width(t)'
    BY <1>1 DEF StackInv, ShardsBelong, TypeOK, Width
  <1>4. ASSUME Testing(t, j)
        PROVE  Slot(t, j) \in up' /\ data'[Slot(t, j)] = data[Slot(t, j)]
    <2>1. s # t /\ Slot(t, j) \in up
      BY <1>1, <1>4 DEF StackInv, ShardsBelong, TestedIsUp, Testing
    <2>2. Slot(t, j) # Slot(s, i) /\ Slot(t, j) \in Slots
      BY <2>1, BandsApart, SlotInSlots
    <2>3. CASE s = "test" /\ ReapTest(i)
      BY <1>1, <2>1, <2>2, <2>3 DEF ReapTest, Down, TypeOK
    <2>4. CASE s \in Gates /\ ReapGate(s, i)
      <3>1. Slot(t, j) \in up'
        BY <2>1, <2>2, <2>4 DEF ReapGate
      <3>2. 1 \in up \/ Slot(t, j) # 1
        BY <2>1
      <3>3. QED
        BY <1>1, <2>2, <2>4, <3>1, <3>2 DEF ReapGate, TypeOK
    <2>5. QED
      BY <2>3, <2>4
  <1>5. QED
    BY <1>3, <1>4

\* The steps of a run as a whole touch no stack.
LEMMA StackRunStep ==
  ASSUME StackInv, NEW s \in Scopes,
         \/ \E n \in Shards : Launch(s, n)
         \/ StartShards(s) \/ Report(s) \/ Kill(s)
  PROVE  /\ ShardsBelong' /\ TestedIsUp'
         /\ \A t \in Scopes, j \in Shards : Undisturbed(t, j)
  <1>1. TypeOK /\ UNCHANGED <<up, data>>
    BY DEF StackInv, Launch, StartShards, Report, Kill
  <1>2. SUFFICES ASSUME NEW t \in Scopes, NEW j \in Shards
        PROVE  /\ shard'[t][j].pc # "none" =>
                      run'[t].pc = "work" /\ j \in Width(t)'
               /\ shard'[t][j].pc = "suite" => shard[t][j].pc = "suite"
    <2>1. ASSUME NEW t \in Scopes, NEW j \in Shards,
                 shard'[t][j].pc = "suite", Testing(t, j)
          PROVE  Slot(t, j) \in up'
      BY <1>1, <2>1 DEF StackInv, TestedIsUp
    <2>2. QED
      BY <1>1, <1>2, <2>1 DEF ShardsBelong, TestedIsUp, Testing, Undisturbed,
                              Slot, Base
  <1>3. CASE \E n \in Shards : Launch(s, n)
    <2>1. /\ shard' = shard /\ run[s].pc = "idle"
          /\ \A r \in Scopes : r # s => run'[r] = run[r]
      BY <1>1, <1>3 DEF Launch, TypeOK
    <2>2. QED
      BY <2>1 DEF StackInv, ShardsBelong, Width
  <1>4. CASE StartShards(s)
    <2>1. PICK first \in {"clean", "build", "up"} :
              shard' = [shard EXCEPT ![s] = [n \in Shards |->
                  IF n <= run[s].width THEN [pc |-> first, ok |-> TRUE]
                                       ELSE IdleShard]]
      <3>1. (CASE Sharded(s)  -> "clean"
               [] s \in Gates -> "build"
               [] OTHER       -> "up") \in {"clean", "build", "up"}
        OBVIOUS
      <3>2. QED
        BY <1>4, <3>1 DEF StartShards
    <2>2. CASE t = s
      <3>1. run'[t].pc = "work" /\ run'[t].width = run[s].width
        BY <1>1, <1>4, <2>2 DEF StartShards, TypeOK
      <3>2. shard'[t][j] = IF j <= run[s].width
                           THEN [pc |-> first, ok |-> TRUE] ELSE IdleShard
        BY <1>1, <2>1, <2>2 DEF TypeOK
      <3>3. j <= run[s].width => j \in 1..run[s].width
        BY <1>1 DEF TypeOK, Shards
      <3>4. QED
        BY <3>1, <3>2, <3>3 DEF IdleShard, Width
    <2>3. CASE t # s
      BY <1>1, <1>4, <2>1, <2>3
      DEF StartShards, StackInv, ShardsBelong, TypeOK, Width
    <2>4. QED
      BY <2>2, <2>3
  <1>5. CASE Report(s) \/ Kill(s)
    <2>1. /\ shard' = [shard EXCEPT ![s] = [n \in Shards |-> IdleShard]]
          /\ \A r \in Scopes : r # s => run'[r] = run[r]
      BY <1>1, <1>5 DEF Report, Kill, TypeOK
    <2>2. QED
      BY <1>1, <2>1 DEF StackInv, ShardsBelong, TypeOK, Width, IdleShard
  <1>6. QED
    BY <1>3, <1>4, <1>5

LEMMA StackNext ==
  ASSUME StackInv, [Next]_vars
  PROVE  /\ StackInv'
         /\ \A t \in Scopes, j \in Shards : Undisturbed(t, j)
  <1>1. TypeOK'
    BY TypeNext DEF StackInv
  <1>2. CASE Next
    <2>1. ASSUME NEW i \in Shards, ReapTest(i)
          PROVE  /\ ShardsBelong' /\ TestedIsUp'
                 /\ \A t \in Scopes, j \in Shards : Undisturbed(t, j)
      BY <2>1, StackReap DEF Scopes
    <2>2. ASSUME NEW s \in Gates, NEW i \in Shards, ReapGate(s, i)
          PROVE  /\ ShardsBelong' /\ TestedIsUp'
                 /\ \A t \in Scopes, j \in Shards : Undisturbed(t, j)
      BY <2>2, StackReap DEF Scopes, Gates
    <2>3. QED
      BY <1>1, <1>2, <2>1, <2>2, StackShardStep, StackRunStep
      DEF Next, StackInv
  <1>3. CASE UNCHANGED vars
    BY <1>1, <1>3
    DEF vars, StackInv, ShardsBelong, TestedIsUp, Testing, Undisturbed, Width,
        Slot, Base
  <1>4. QED
    BY <1>2, <1>3

\* While a suite runs in a stack nobody takes the stack or its database away,
\* for any width of the bands and whatever was killed or left up before.
THEOREM StackSafe == Spec => StackUndisturbed
  <1> DEFINE Safe == \A s \in Scopes, i \in Shards :
          (Testing(s, i) /\ shard'[s][i].pc = "suite") =>
              /\ Slot(s, i) \in up /\ Slot(s, i) \in up'
              /\ data'[Slot(s, i)] = data[Slot(s, i)]
  <1>1. StackInv /\ [Next]_vars => StackInv' /\ Safe
    BY StackNext DEF StackInv, TestedIsUp, Undisturbed
  <1>2. QED
    BY <1>1, StackInit, PTL DEF Spec, StackUndisturbed

----------------------------------------------------------------------------
(* The verdict.                                                            *)

\* The shards of a run whose suite has passed.
Passed(s) == {i \in Width(s) :
    shard[s][i].ok /\ shard[s][i].pc \in {"teardown", "done"}}

\* While a run is at work its shares are those of the shards that passed, and
\* it has no verdict yet.
SharesCounted ==
    \A s \in Scopes :
        /\ run[s].pc # "idle" => run[s].verdict = "none"
        /\ run[s].pc = "reap" => shares[s] = {}
        /\ run[s].pc = "work" =>
               shares[s] = {<<i, run[s].width>> : i \in Passed(s)}

SuiteInv == StackInv /\ SharesCounted /\ GreenCoversSuite

LEMMA SuiteInit == Init => SuiteInv
  BY StackInit DEF Init, SuiteInv, SharesCounted, GreenCoversSuite

LEMMA KeepsOk ==
  ASSUME TypeOK, NEW s \in Scopes, NEW i \in Shards, NEW pc, Goto(s, i, pc)
  PROVE  shard'[s][i].pc = pc /\ shard'[s][i].ok = shard[s][i].ok
  <1>1. shard[s] \in [Shards -> [pc : ShardStates, ok : BOOLEAN]]
    BY DEF TypeOK
  <1>2. shard'[s][i] = [shard[s][i] EXCEPT !.pc = pc]
    BY <1>1 DEF Goto, TypeOK
  <1>3. QED
    BY <1>1, <1>2

\* A shard's run of the suite is the only step to record a share, and it
\* records its own; no other step makes a shard pass.
LEMMA PassedStep ==
  ASSUME StackInv, NEW s \in Scopes, NEW i \in Shards, ShardStep(s, i)
  PROVE  \/ shares' = shares /\ \A t \in Scopes : Passed(t)' = Passed(t)
         \/ /\ shares' = [shares EXCEPT ![s] = @ \cup {<<i, run[s].width>>}]
            /\ Passed(s)' = Passed(s) \cup {i}
            /\ \A t \in Scopes : t # s => Passed(t)' = Passed(t)
  <1>1. TypeOK /\ UNCHANGED run
    BY DEF StackInv, ShardStep, Build, BuildDown, Clean, Up, Suite, Teardown
  <1>2. i \in Width(s)
    BY ReachesSuite DEF StackInv, ShardsBelong
  <1>3. \A t \in Scopes : Width(t) \subseteq Shards
    BY <1>1, BandAssumption DEF TypeOK, Width, Shards
  <1> DEFINE P(x) == x.ok /\ x.pc \in {"teardown", "done"}
  <1>4. \A t \in Scopes : Passed(t) = {j \in Width(t) : P(shard[t][j])}
    BY DEF Passed
  <1>5. \A t \in Scopes : Passed(t)' = {j \in Width(t) : P(shard'[t][j])}
    BY <1>1 DEF Passed, Width
  <1>6. \A t \in Scopes : \A j \in Width(t) :
            t # s \/ j # i => shard'[t][j] = shard[t][j]
    BY <1>1, <1>3, MovesItself
  <1>7. ASSUME NEW t \in Scopes, t # s PROVE Passed(t)' = Passed(t)
    <2>1. \A j \in Width(t) : P(shard'[t][j]) <=> P(shard[t][j])
      BY <1>6, <1>7
    <2>2. {j \in Width(t) : P(shard'[t][j])} = {j \in Width(t) : P(shard[t][j])}
      BY <2>1
    <2>3. QED
      BY <1>4, <1>5, <2>2
  <1>8. CASE P(shard'[s][i]) <=> P(shard[s][i])
    <2>1. Passed(s)' = Passed(s)
      <3>1. \A j \in Width(s) : P(shard'[s][j]) <=> P(shard[s][j])
        BY <1>6, <1>8
      <3>2. {j \in Width(s) : P(shard'[s][j])}
                = {j \in Width(s) : P(shard[s][j])}
        BY <3>1
      <3>3. QED
        BY <1>4, <1>5, <3>2
    <2>2. shares' = shares
      <3>1. ASSUME Suite(s, i), GotoWith(s, i, "teardown", TRUE) PROVE FALSE
        BY <1>1, <1>8, <3>1 DEF Suite, At, GotoWith, TypeOK
      <3>2. QED
        BY <3>1 DEF ShardStep, Build, BuildDown, Clean, Up, Suite, Teardown
    <2>3. QED
      BY <1>7, <2>1, <2>2
  <1>9. CASE ~(P(shard'[s][i]) <=> P(shard[s][i]))
    <2>1. Suite(s, i) /\ GotoWith(s, i, "teardown", TRUE)
      <3>1. ~BuildDown(s, i)
        BY <1>1, <1>9, KeepsOk DEF BuildDown, At
      <3>2. ~Teardown(s, i)
        BY <1>1, <1>9, KeepsOk DEF Teardown, At
      <3> USE <1>1, <1>9 DEF TypeOK, At, Goto, GotoWith, Fail
      <3>3. ~Build(s, i)
        BY DEF Build
      <3>4. ~Clean(s, i)
        BY DEF Clean
      <3>5. ~Up(s, i)
        BY DEF Up
      <3>6. Suite(s, i)
        BY <3>1, <3>2, <3>3, <3>4, <3>5 DEF ShardStep
      <3>7. QED
        BY <3>6 DEF Suite
    <2>2. P(shard'[s][i]) /\ ~P(shard[s][i])
      BY <1>1, <2>1 DEF Suite, At, GotoWith, TypeOK
    <2>3. Passed(s)' = Passed(s) \cup {i}
      BY <1>2, <1>4, <1>5, <1>6, <2>2
    <2>4. shares' = [shares EXCEPT ![s] = @ \cup {Share(s, i)}]
      <3>1. ~Fail(s, i)
        BY <1>1, <2>1 DEF GotoWith, Fail, TypeOK
      <3>2. QED
        BY <2>1, <3>1 DEF Suite
    <2>5. Share(s, i) = <<i, run[s].width>>
      BY <1>1, <1>2, ShareIsIndex DEF TypeOK
    <2>6. QED
      BY <1>7, <2>3, <2>4, <2>5
  <1>10. QED
    BY <1>8, <1>9

LEMMA SuiteShardStep ==
  ASSUME SuiteInv, NEW s \in Scopes, NEW i \in Shards, ShardStep(s, i)
  PROVE  SharesCounted' /\ GreenCoversSuite'
  <1>1. StackInv /\ UNCHANGED run
    BY DEF SuiteInv, ShardStep, Build, BuildDown, Clean, Up, Suite, Teardown
  <1>0. DOMAIN shares = Scopes
    BY <1>1 DEF StackInv, TypeOK
  <1>2. run[s].pc = "work"
    BY <1>1, ReachesSuite DEF StackInv, ShardsBelong
  <1>3. ASSUME NEW t \in Scopes, t # s
        PROVE  shares'[t] = shares[t] /\ Passed(t)' = Passed(t)
    BY <1>0, <1>1, <1>3, PassedStep
  <1>4. shares'[s] = {<<j, run[s].width>> : j \in Passed(s)'}
    <2>1. shares[s] = {<<j, run[s].width>> : j \in Passed(s)}
      BY <1>2 DEF SuiteInv, SharesCounted
    <2>2. \/ shares'[s] = shares[s] /\ Passed(s)' = Passed(s)
          \/ /\ shares'[s] = shares[s] \cup {<<i, run[s].width>>}
             /\ Passed(s)' = Passed(s) \cup {i}
      BY <1>0, <1>1, PassedStep
    <2>3. QED
      BY <2>1, <2>2
  <1>5. SharesCounted'
    BY <1>1, <1>2, <1>3, <1>4 DEF SuiteInv, SharesCounted
  <1>6. GreenCoversSuite'
    BY <1>1, <1>2, <1>3 DEF SuiteInv, SharesCounted, GreenCoversSuite, Width
  <1>7. QED
    BY <1>5, <1>6

LEMMA SuiteNext == SuiteInv /\ [Next]_vars => SuiteInv'
  <1> SUFFICES ASSUME SuiteInv, [Next]_vars PROVE SuiteInv'
    OBVIOUS
  <1>1. StackInv' /\ StackInv /\ TypeOK
    BY StackNext DEF SuiteInv, StackInv
  <1> SUFFICES SharesCounted' /\ GreenCoversSuite'
    BY <1>1 DEF SuiteInv
  <1> DEFINE Unmoved(t) == /\ run'[t].pc = run[t].pc
                           /\ run'[t].verdict = run[t].verdict
                           /\ run'[t].width = run[t].width
                           /\ shares'[t] = shares[t]
                           /\ Passed(t)' = Passed(t)
             Good(t) == /\ run'[t].pc # "idle" => run'[t].verdict = "none"
                        /\ run'[t].pc = "reap" => shares'[t] = {}
                        /\ run'[t].pc = "work" =>
                               shares'[t] = {<<i, run'[t].width>> :
                                                 i \in Passed(t)'}
                        /\ run'[t].verdict = "green" =>
                               shares'[t] = {<<i, run'[t].width>> :
                                                 i \in Width(t)'}
  <1>2. ASSUME \A t \in Scopes : Good(t) PROVE SharesCounted' /\ GreenCoversSuite'
    BY <1>2 DEF SharesCounted, GreenCoversSuite
  <1>3. ASSUME NEW t \in Scopes, Unmoved(t) PROVE Good(t)
    BY <1>3 DEF SuiteInv, SharesCounted, GreenCoversSuite, Width
  <1>4. ASSUME NEW t \in Scopes, run'[t] = run[t], shard'[t] = shard[t],
               shares'[t] = shares[t]
        PROVE  Unmoved(t)
    BY <1>4 DEF Passed, Width
  <1>5. ASSUME NEW s \in Scopes, NEW r \in SUBSET Shards,
               run' = [run EXCEPT ![s].todo = r], UNCHANGED <<shard, shares>>
        PROVE  \A t \in Scopes : Good(t)
    <2>1. ASSUME NEW t \in Scopes PROVE Unmoved(t)
      <3>1. /\ run'[t].pc = run[t].pc /\ run'[t].verdict = run[t].verdict
            /\ run'[t].width = run[t].width
        BY <1>1, <1>5 DEF TypeOK
      <3>2. Passed(t)' = Passed(t)
        BY <1>5, <3>1 DEF Passed, Width
      <3>3. QED
        BY <1>5, <3>1, <3>2
    <2>2. QED
      BY <1>3, <2>1
  <1>6. ASSUME NEW i \in Shards, ReapTest(i) PROVE \A t \in Scopes : Good(t)
    <2>1. run["test"].todo \ {i} \in SUBSET Shards /\ "test" \in Scopes
      BY <1>1 DEF TypeOK, Scopes
    <2>2. QED
      BY <1>5, <1>6, <2>1 DEF ReapTest
  <1>7. ASSUME NEW s \in Gates, NEW i \in Shards, ReapGate(s, i)
        PROVE  \A t \in Scopes : Good(t)
    <2>1. s \in Scopes
      BY DEF Gates, Scopes
    <2>2. run[s].todo \ {i} \in SUBSET Shards
      BY <1>1, <2>1 DEF TypeOK
    <2>3. QED
      BY <1>5, <1>7, <2>1, <2>2 DEF ReapGate
  <1>8. ASSUME NEW s \in Scopes, NEW n \in Shards, Launch(s, n)
        PROVE  \A t \in Scopes : Good(t)
    <2>1. Good(s)
      BY <1>1, <1>8 DEF Launch, TypeOK
    <2>2. ASSUME NEW t \in Scopes, t # s PROVE Good(t)
      BY <1>1, <1>3, <1>4, <1>8, <2>2 DEF Launch, TypeOK
    <2>3. QED
      BY <2>1, <2>2
  <1>9. ASSUME NEW s \in Scopes, StartShards(s)
        PROVE  \A t \in Scopes : Good(t)
    <2>1. PICK first \in {"clean", "build", "up"} :
              shard' = [shard EXCEPT ![s] = [n \in Shards |->
                  IF n <= run[s].width THEN [pc |-> first, ok |-> TRUE]
                                       ELSE IdleShard]]
      <3>1. (CASE Sharded(s)  -> "clean"
               [] s \in Gates -> "build"
               [] OTHER       -> "up") \in {"clean", "build", "up"}
        OBVIOUS
      <3>2. QED
        BY <1>9, <3>1 DEF StartShards
    <2>2. /\ run'[s].pc = "work" /\ run'[s].verdict = "none"
          /\ shares'[s] = {}
      BY <1>1, <1>9 DEF StartShards, TypeOK, SuiteInv, SharesCounted
    <2>3. Passed(s)' = {}
      <3>1. Width(s)' \subseteq Shards
        BY SMTT(20), <1>1, BandAssumption DEF StackInv, TypeOK, Width, Shards
      <3>2. \A i \in Shards : shard'[s][i].pc \notin {"teardown", "done"}
        BY <1>1, <2>1 DEF TypeOK, IdleShard
      <3>3. QED
        BY <3>1, <3>2 DEF Passed
    <2>4. Good(s)
      BY <2>2, <2>3
    <2>5. ASSUME NEW t \in Scopes, t # s PROVE Good(t)
      BY <1>1, <1>3, <1>4, <1>9, <2>1, <2>5 DEF StartShards, TypeOK
    <2>6. QED
      BY <2>4, <2>5
  <1>10. ASSUME NEW s \in Scopes, Report(s) PROVE \A t \in Scopes : Good(t)
    <2>1. PICK v \in {"green", "red"} :
              /\ run' = [run EXCEPT ![s].pc = "idle", ![s].verdict = v]
              /\ v = "green" => \A i \in Width(s) : shard[s][i].ok
      BY <1>10 DEF Report
    <2>2. /\ run'[s].pc = "idle" /\ run'[s].verdict = v
          /\ run'[s].width = run[s].width /\ Width(s)' = Width(s)
      BY <1>1, <2>1 DEF TypeOK, Width
    <2>3. v = "green" => Passed(s) = Width(s)
      BY <1>10, <2>1 DEF Report, Ended, Passed
    <2>4. shares'[s] = {<<i, run[s].width>> : i \in Passed(s)}
      BY <1>10 DEF Report, SuiteInv, SharesCounted
    <2>5. Good(s)
      BY <2>2, <2>3, <2>4
    <2>6. ASSUME NEW t \in Scopes, t # s PROVE Good(t)
      BY ZenonT(40), <1>1, <1>3, <1>4, <1>10, <2>1, <2>6 DEF Report, TypeOK
    <2>7. QED
      BY <2>5, <2>6
  <1>11. ASSUME NEW s \in Scopes, Kill(s) PROVE \A t \in Scopes : Good(t)
    <2>1. run'[s].pc = "idle" /\ run'[s].verdict = "none"
      BY <1>1, <1>11 DEF Kill, TypeOK, SuiteInv, SharesCounted
    <2>2. Good(s)
      BY <2>1
    <2>3. ASSUME NEW t \in Scopes, t # s PROVE Good(t)
      BY <1>1, <1>3, <1>4, <1>11, <2>3 DEF Kill, TypeOK
    <2>4. QED
      BY <2>2, <2>3
  <1>12. CASE UNCHANGED vars
    BY <1>12
    DEF vars, SuiteInv, SharesCounted, GreenCoversSuite, Passed, Width
  <1>13. QED
    <2>1. CASE Next
      BY <1>2, <1>6, <1>7, <1>8, <1>9, <1>10, <1>11, <2>1, SuiteShardStep
      DEF Next
    <2>2. QED
      BY <1>12, <2>1

\* A green verdict is never given for a part of the suite.
THEOREM GreenIsComplete == Spec => []GreenCoversSuite
  <1>1. SuiteInv => GreenCoversSuite
    BY DEF SuiteInv
  <1>2. QED
    BY <1>1, SuiteInit, SuiteNext, PTL DEF Spec

----------------------------------------------------------------------------
(* What a run finds in its stacks.                                         *)

\* No `compose down` failed, and no preflight was killed: it reaps only after
\* a kill, so killing it takes a second one.
Tidy == count["down"] = 0 /\ count["kill"] <= 1
Dirty(k) == data[k] # 0 \/ k \in up

\* Only a preflight has stacks to reap, only an idle scope has stacks yet to
\* reap, and there are none of either before a kill.
Books(s) ==
    /\ run[s].pc # "reap" => run[s].todo = {}
    /\ run[s].pc # "idle" => leak[s] = 0
    /\ (leak[s] # 0 \/ run[s].todo # {}) => count["kill"] >= 1

\* A stack is empty when a run that begins with a clean slate brings it up;
\* the suite runs on a database of its own run, or on that of a kept stack;
\* what is left in a test's slot that no thread is about to clean is kept for
\* debugging or known to a preflight.
FreshUp(s, i) ==
    shard[s][i].pc = "up" /\ (s \in Gates \/ Sharded(s)) => data[Slot(s, i)] = 0
OwnSlate(s, i) ==
    Testing(s, i) => \/ data[Slot(s, i)] = run[s].id
                     \/ s = "test" /\ ~Sharded(s) /\ Slot(s, i) \in kept
DirtIsKnown(s, i) ==
    s = "test" /\ shard[s][i].pc \in {"none", "up", "done"} /\ Dirty(Slot(s, i)) =>
        Slot(s, i) \in kept \/ i <= leak[s] \/ i \in run[s].todo
Explained(s, i) == FreshUp(s, i) /\ OwnSlate(s, i) /\ DirtIsKnown(s, i)

SlateInv ==
    /\ StackInv
    /\ \A s \in Scopes : Books(s)
    /\ Tidy => \A s \in Scopes, i \in Shards : Explained(s, i)

LEMMA SlateInit == Init => SlateInv
  <1> SUFFICES ASSUME Init PROVE SlateInv
    OBVIOUS
  <1>1. ASSUME NEW s \in Scopes PROVE Books(s)
    BY DEF Init, Books
  <1>2. ASSUME NEW s \in Scopes, NEW i \in Shards PROVE Explained(s, i)
    <2>1. shard[s][i].pc = "none" /\ data[Slot(s, i)] = 0 /\ up = {}
      BY SlotInSlots DEF Init, IdleShard
    <2>2. QED
      BY <2>1 DEF Explained, FreshUp, OwnSlate, DirtIsKnown, Testing, Dirty
  <1>3. QED
    BY <1>1, <1>2, StackInit DEF SlateInv

\* A stack that a step leaves alone stays explained.
LEMMA StaysExplained ==
  ASSUME TypeOK, NEW s \in Scopes, NEW i \in Shards, Explained(s, i),
         shard'[s][i].pc = shard[s][i].pc, run'[s].width = run[s].width,
         run'[s].id = run[s].id, i \in run[s].todo => i \in run'[s].todo \/ i <= leak'[s],
         leak'[s] = leak[s] \/ i \in run'[s].todo \/ leak[s] = 0,
         data'[Slot(s, i)] = data[Slot(s, i)], Slot(s, i) \in up' => Slot(s, i) \in up,
         Slot(s, i) \in kept => Slot(s, i) \in kept'
  PROVE  Explained(s, i)'
  <1>1. i \in Nat /\ i > 0
    BY DEF Shards
  <1>2. FreshUp(s, i)' /\ OwnSlate(s, i)'
    BY DEF Explained, FreshUp, OwnSlate, Testing, Sharded, Slot, Base
  <1>3. DirtIsKnown(s, i)'
    BY <1>1 DEF Explained, DirtIsKnown, Dirty, Slot, Base
  <1>4. QED
    BY <1>2, <1>3 DEF Explained

\* A step of a shard keeps its own stack alone in debugging, too.
LEMMA KeepsItsStack ==
  ASSUME TypeOK, NEW s \in Scopes, NEW i \in Shards, ShardStep(s, i),
         NEW k \in Slots, k # Slot(s, i)
  PROVE  k \in kept' <=> k \in kept
  <1>1. \/ Down(Slot(s, i)) \/ KeepUp(s, Slot(s, i)) \/ UNCHANGED kept
    BY DEF ShardStep, Build, BuildDown, Clean, Up, Suite, Teardown
  <1>2. QED
    BY <1>1 DEF Down, KeepUp

\* A teardown that succeeds leaves nothing of its stack.
LEMMA DownCleans ==
  ASSUME TypeOK, NEW k \in Slots, Down(k), count'["down"] = 0
  PROVE  /\ UNCHANGED count /\ ~Dirty(k)' /\ data'[k] = 0
         /\ \A j \in Slots \ {k} : /\ data'[j] = data[j]
                                   /\ j \in up' <=> j \in up
                                   /\ j \in kept' <=> j \in kept
  <1>1. ~Counted("down", MaxDownFailures)
    BY DEF Counted, TypeOK
  <1>2. QED
    BY <1>1 DEF Down, Dirty, TypeOK

\* The step of a shard leaves its own stack explained.
LEMMA OwnStack ==
  ASSUME StackInv, NEW s \in Scopes, NEW i \in Shards, ShardStep(s, i), Books(s),
         Explained(s, i), count'["down"] = 0
  PROVE  Explained(s, i)'
  <1> DEFINE k == Slot(s, i)
  <1>1. /\ TypeOK /\ k \in Slots /\ UNCHANGED <<run, leak>>
        /\ run[s].pc = "work" /\ leak[s] = 0 /\ run[s].todo = {}
    BY SlotInSlots
    DEF StackInv, Books, ShardStep, Build, BuildDown, Clean, Up, Suite, Teardown, At
  <1>2. Slot(s, i)' = Slot(s, i) /\ (Sharded(s)' <=> Sharded(s))
    BY <1>1 DEF Slot, Base, Sharded
  <1>3. ~(i <= leak[s]) /\ i \notin run[s].todo
    BY <1>1 DEF Shards
  <1>4. ASSUME shard'[s][i].pc \in {"build", "buildDown", "clean", "teardown"}
        PROVE  Explained(s, i)'
    BY <1>4 DEF Explained, FreshUp, OwnSlate, DirtIsKnown, Testing
  <1>5. ASSUME Down(k), shard'[s][i].pc \in {"up", "done"} PROVE Explained(s, i)'
    BY <1>1, <1>2, <1>5, DownCleans
    DEF Explained, FreshUp, OwnSlate, DirtIsKnown, Testing
  <1>6. ASSUME NEW pc \in ShardStates, NEW ok \in BOOLEAN, GotoWith(s, i, pc, ok)
        PROVE  shard'[s][i].pc = pc
    BY <1>1, <1>6 DEF GotoWith, TypeOK
  <1>7. ASSUME NEW pc \in ShardStates, Goto(s, i, pc) PROVE shard'[s][i].pc = pc
    BY <1>1, <1>7, KeepsOk
  <1> USE DEF ShardStates
  <1>8. CASE Build(s, i)
    BY <1>4, <1>6, <1>8 DEF Build
  <1>9. CASE BuildDown(s, i)
    <2>1. Down(k) /\ shard'[s][i].pc \in {"clean", "done"}
      BY <1>7, <1>9 DEF BuildDown
    <2>2. QED
      BY <1>4, <1>5, <2>1
  <1>10. CASE Clean(s, i)
    BY <1>5, <1>7, <1>10 DEF Clean
  <1>11. CASE Teardown(s, i)
    BY <1>5, <1>7, <1>11 DEF Teardown
  <1>12. ASSUME Fail(s, i), KeepUp(s, k) PROVE Explained(s, i)'
    <2>1. CASE Sharded(s)
      <3>1. k \in kept' /\ shard'[s][i].pc = "done"
        BY <1>6, <1>12, <2>1 DEF Fail, KeepUp
      <3>2. QED
        BY <1>2, <3>1 DEF Explained, FreshUp, OwnSlate, DirtIsKnown, Testing
    <2>2. CASE ~Sharded(s)
      BY <1>4, <1>6, <1>12, <2>2 DEF Fail
    <2>3. QED
      BY <2>1, <2>2
  <1>13. CASE Up(s, i)
    <2>1. CASE Fail(s, i) /\ KeepUp(s, k)
      BY <1>12, <2>1
    <2>2. CASE ComposeUp(s, k) /\ Goto(s, i, "suite") /\ UNCHANGED kept
      <3>1. shard'[s][i].pc = "suite" /\ shard[s][i].pc = "up"
        BY <1>7, <1>13, <2>2 DEF Up, At
      <3>2. data'[k] = IF data[k] = 0 THEN run[s].id ELSE data[k]
        BY <1>1, <2>2 DEF ComposeUp, TypeOK
      <3>3. data[k] # 0 => k \in kept /\ s = "test" /\ ~Sharded(s)
        BY <1>3, <3>1 DEF Explained, FreshUp, DirtIsKnown, Dirty, Scopes, Gates
      <3>4. OwnSlate(s, i)'
        BY <1>1, <1>2, <2>2, <3>2, <3>3 DEF OwnSlate
      <3>5. QED
        BY <3>1, <3>4 DEF Explained, FreshUp, DirtIsKnown
    <2>3. QED
      BY <1>13, <2>1, <2>2 DEF Up
  <1>14. CASE Suite(s, i)
    <2>1. CASE GotoWith(s, i, "teardown", TRUE)
      BY <1>4, <1>6, <2>1
    <2>2. CASE Fail(s, i) /\ KeepUp(s, k)
      BY <1>12, <2>2
    <2>3. QED
      BY <1>14, <2>1, <2>2 DEF Suite
  <1>15. QED
    BY <1>8, <1>9, <1>10, <1>11, <1>13, <1>14 DEF ShardStep

LEMMA SlateShardStep ==
  ASSUME SlateInv, StackInv', NEW s \in Scopes, NEW i \in Shards, ShardStep(s, i)
  PROVE  SlateInv'
  <1>1. /\ StackInv /\ TypeOK /\ UNCHANGED <<run, leak>>
        /\ count'["kill"] = count["kill"] /\ count["down"] \in Nat
        /\ count'["down"] = 0 => count["down"] = 0
    <2>1. StackInv /\ TypeOK /\ count \in CountType
      BY DEF SlateInv, StackInv, TypeOK, CountType
    <2>2. UNCHANGED <<run, leak>> /\ (UNCHANGED count \/ Down(Slot(s, i)))
      BY DEF ShardStep, Build, BuildDown, Clean, Up, Suite, Teardown
    <2>3. UNCHANGED count \/ count' = [count EXCEPT !["down"] = @ + 1]
      BY <2>2 DEF Down, Counted
    <2>4. QED
      BY <2>1, <2>2, <2>3 DEF CountType
  <1>2. ASSUME NEW t \in Scopes PROVE Books(t)'
    BY <1>1 DEF SlateInv, Books
  <1>3. ASSUME Tidy', NEW t \in Scopes, NEW j \in Shards PROVE Explained(t, j)'
    <2>1. Books(s) /\ Explained(s, i) /\ Explained(t, j) /\ count'["down"] = 0
      BY <1>1, <1>3 DEF SlateInv, Tidy
    <2>2. CASE t = s /\ j = i
      BY <1>1, <2>1, <2>2, OwnStack
    <2>3. CASE t # s \/ j # i
      <3>1. Slot(t, j) # Slot(s, i) /\ Slot(t, j) \in Slots
        BY <2>3, BandsApart, SlotInSlots
      <3>2. shard'[t][j] = shard[t][j]
        BY <1>1, <2>3, MovesItself
      <3>3. /\ data'[Slot(t, j)] = data[Slot(t, j)]
            /\ Slot(t, j) \in up' <=> Slot(t, j) \in up
            /\ Slot(t, j) \in kept' <=> Slot(t, j) \in kept
        BY <1>1, <3>1, TouchesItsStack, KeepsItsStack
      <3>4. QED
        BY <1>1, <2>1, <3>2, <3>3, StaysExplained
    <2>4. QED
      BY <2>2, <2>3
  <1>4. QED
    BY <1>2, <1>3 DEF SlateInv

LEMMA SlateReap ==
  ASSUME SlateInv, StackInv', NEW s \in Scopes, NEW i \in Shards,
         \/ s = "test" /\ ReapTest(i)
         \/ s \in Gates /\ ReapGate(s, i)
  PROVE  SlateInv'
  <1>1. /\ StackInv /\ TypeOK /\ UNCHANGED <<shard, leak>> /\ run[s].pc = "reap"
        /\ run' = [run EXCEPT ![s].todo = @ \ {i}]
    BY DEF SlateInv, StackInv, ReapTest, ReapGate
  <1>2. /\ run'[s].pc = "reap" /\ run'[s].todo = run[s].todo \ {i}
        /\ run'[s].id = run[s].id /\ run'[s].width = run[s].width
        /\ \A t \in Scopes : t # s => run'[t] = run[t]
    BY <1>1 DEF TypeOK
  <1>3. count \in CountType /\ (UNCHANGED count \/ Down(Slot("test", i)))
    BY DEF SlateInv, StackInv, TypeOK, CountType, ReapTest, ReapGate
  <1>4. /\ count'["kill"] = count["kill"]
        /\ count'["down"] = 0 => count["down"] = 0
    <2>1. UNCHANGED count \/ count' = [count EXCEPT !["down"] = @ + 1]
      BY <1>3 DEF Down, Counted
    <2>2. QED
      BY <1>3, <2>1 DEF CountType
  <1>5. ASSUME NEW t \in Scopes PROVE Books(t)'
    BY <1>1, <1>2, <1>4 DEF SlateInv, Books
  <1>6. \A j \in Shards : shard[s][j].pc = "none"
    BY <1>1 DEF StackInv, ShardsBelong
  <1>7. ASSUME Tidy', NEW t \in Scopes, NEW j \in Shards PROVE Explained(t, j)'
    <2>1. Explained(t, j) /\ count'["down"] = 0
      BY <1>4, <1>7 DEF SlateInv, Tidy
    <2>2. CASE t = s /\ j = i
      <3>1. CASE s = "test"
        <4>1. ~Dirty(Slot(s, i))'
          BY <1>1, <2>1, <3>1, SlotInSlots, DownCleans DEF ReapTest, Scopes, Gates, Slot, Base
        <4>2. QED
          BY <1>1, <1>6, <2>2, <4>1
          DEF Explained, FreshUp, OwnSlate, DirtIsKnown, Testing, Dirty, Slot, Base
      <3>2. CASE s # "test"
        BY <1>1, <1>6, <2>2, <3>2
        DEF Explained, FreshUp, OwnSlate, DirtIsKnown, Testing
      <3>3. QED
        BY <3>1, <3>2
    <2>3. CASE t # s \/ j # i
      <3>1. Slot(t, j) # Slot(s, i) /\ Slot(t, j) \in Slots /\ Slot(s, i) \in Slots
        BY <2>3, BandsApart, SlotInSlots
      <3>2. /\ run'[t].width = run[t].width /\ run'[t].id = run[t].id
            /\ j \in run[t].todo => j \in run'[t].todo
        BY <1>2, <2>3
      <3>3. CASE s = "test" /\ ReapTest(i)
        <4>1. /\ data'[Slot(t, j)] = data[Slot(t, j)]
              /\ Slot(t, j) \in up' <=> Slot(t, j) \in up
              /\ Slot(t, j) \in kept' <=> Slot(t, j) \in kept
          BY <1>1, <2>1, <3>1, <3>3, DownCleans DEF ReapTest
        <4>2. QED
          BY <1>1, <2>1, <3>2, <4>1, StaysExplained
      <3>4. CASE s \in Gates /\ ReapGate(s, i)
        <4>1. /\ Slot(t, j) \in up' <=> Slot(t, j) \in up
              /\ Slot(t, j) \in kept' <=> Slot(t, j) \in kept
          BY <3>1, <3>4 DEF ReapGate
        <4>2. CASE data'[Slot(t, j)] = data[Slot(t, j)]
          BY <1>1, <2>1, <3>2, <4>1, <4>2, StaysExplained
        <4>3. CASE data'[Slot(t, j)] # data[Slot(t, j)]
          <5>1. data'[Slot(t, j)] = 0 /\ Slot(t, j) \notin up
            BY <1>1, <3>1, <3>4, <4>3 DEF ReapGate, TypeOK
          <5>2. ~Testing(t, j)
            BY <1>1, <5>1 DEF StackInv, TestedIsUp
          <5>3. QED
            BY <1>1, <4>1, <5>1, <5>2
            DEF Explained, FreshUp, OwnSlate, DirtIsKnown, Testing, Dirty, Slot, Base
        <4>4. QED
          BY <4>2, <4>3
      <3>5. QED
        BY <3>3, <3>4 DEF Gates
    <2>4. QED
      BY <2>2, <2>3
  <1>8. QED
    BY <1>5, <1>7 DEF SlateInv

\* Launch, start, end and kill of a run leave the stacks as they are.
LEMMA SlateRunStep ==
  ASSUME SlateInv, StackInv', NEW s \in Scopes,
         (\E n \in Shards : Launch(s, n)) \/ StartShards(s) \/ Report(s) \/ Kill(s)
  PROVE  SlateInv'
  <1>1. /\ StackInv /\ TypeOK /\ Books(s) /\ UNCHANGED <<up, data, kept>>
        /\ count \in CountType
    BY DEF SlateInv, StackInv, Launch, StartShards, Report, Kill, TypeOK, CountType
  <1>2. /\ \A t \in Scopes : t # s => run'[t] = run[t] /\ leak'[t] = leak[t]
                                      /\ shard'[t] = shard[t]
        /\ run'[s].id \in Nat
    BY <1>1 DEF Launch, StartShards, Report, Kill, StackInv, TypeOK
  <1>3. /\ count'["down"] = count["down"]
        /\ count'["kill"] >= count["kill"]
        /\ Kill(s) => count'["kill"] = count["kill"] + 1
        /\ count["kill"] \in Nat /\ count'["kill"] \in Nat
    BY <1>1 DEF Launch, StartShards, Report, Kill, Counted, CountType
  <1>4. Books(s)'
    <2>1. CASE \E n \in Shards : Launch(s, n)
      <3>1. /\ run'[s].pc = "reap" /\ leak'[s] = 0 /\ run'[s].todo = 1..leak[s]
            /\ count'["kill"] = count["kill"] /\ leak[s] \in Nat
        BY <1>1, <2>1 DEF Launch, Counted, TypeOK
      <3>2. QED
        BY <1>1, <3>1 DEF Books
    <2>2. CASE StartShards(s)
      BY <1>1, <2>2 DEF StartShards, TypeOK, Books
    <2>3. CASE Report(s)
      BY <1>1, <2>3 DEF Report, TypeOK, Books
    <2>4. CASE Kill(s)
      <3>1. run'[s].pc = "idle" /\ run'[s].todo = {}
        BY <1>1, <2>4 DEF Kill, TypeOK
      <3>2. QED
        BY <1>3, <2>4, <3>1 DEF Books
    <2>5. QED
      BY <2>1, <2>2, <2>3, <2>4
  <1>5. ASSUME NEW t \in Scopes PROVE Books(t)'
    BY <1>2, <1>3, <1>4 DEF SlateInv, Books, TypeOK
  <1>6. ASSUME Tidy', NEW t \in Scopes, NEW j \in Shards PROVE Explained(t, j)'
    <2>1. Explained(t, j)
      BY <1>3, <1>6 DEF SlateInv, Tidy
    <2>2. CASE t # s
      BY <1>1, <1>2, <2>1, <2>2, StaysExplained
    <2> DEFINE Keeps == Dirty(Slot(s, j)) =>
                   Slot(s, j) \in kept \/ j <= leak[s] \/ j \in run[s].todo
    <2>3. CASE t = s /\ \E n \in Shards : Launch(s, n)
      <3>1. /\ UNCHANGED shard /\ run[s].pc = "idle" /\ run'[s].todo = 1..leak[s]
            /\ leak[s] \in Nat
        BY <1>1, <2>3 DEF Launch, TypeOK
      <3>2. shard[s][j].pc = "none" /\ run[s].todo = {}
        BY <1>1, <3>1 DEF StackInv, ShardsBelong, Books
      <3>3. j <= leak[s] => j \in run'[s].todo
        BY <3>1 DEF Shards
      <3>4. QED
        BY <1>1, <2>1, <2>3, <3>1, <3>2, <3>3
        DEF Explained, FreshUp, OwnSlate, DirtIsKnown, Testing, Dirty, Slot, Base
    <2>4. CASE t = s /\ StartShards(s)
      <3>1. shard[s][j].pc = "none"
        BY <1>1, <2>4 DEF StartShards, StackInv, ShardsBelong
      <3>2. /\ run'[s].todo = run[s].todo /\ run'[s].width = run[s].width
            /\ leak'[s] = leak[s]
        BY <1>1, <2>4 DEF StartShards, TypeOK
      <3>3. /\ shard'[s][j].pc \in {"clean", "build", "up", "none"}
            /\ shard'[s][j].pc = "up" => ~Sharded(s) /\ s \notin Gates
        <4>1. shard'[s][j] =
                  IF j <= run[s].width
                  THEN [pc |-> CASE Sharded(s)  -> "clean"
                                 [] s \in Gates -> "build"
                                 [] OTHER       -> "up", ok |-> TRUE]
                  ELSE IdleShard
          BY <1>1, <2>4 DEF StartShards, TypeOK
        <4>2. CASE Sharded(s)
          BY <4>1, <4>2 DEF IdleShard
        <4>3. CASE ~Sharded(s)
          BY <4>1, <4>3 DEF IdleShard
        <4>4. QED
          BY <4>2, <4>3
      <3>4. QED
        BY <1>1, <2>1, <2>4, <3>1, <3>2, <3>3
        DEF Explained, FreshUp, OwnSlate, DirtIsKnown, Testing, Dirty, Slot, Base, Sharded
    <2>5. CASE t = s /\ Report(s)
      <3>1. shard[s][j].pc \in {"none", "done"}
        BY <1>1, <2>5 DEF Report, Ended, StackInv, ShardsBelong
      <3>2. /\ shard'[s][j].pc = "none" /\ run'[s].todo = run[s].todo
            /\ leak'[s] = leak[s]
        BY <1>1, <2>5 DEF Report, TypeOK, IdleShard
      <3>3. QED
        BY <1>1, <2>1, <2>5, <3>1, <3>2
        DEF Explained, FreshUp, OwnSlate, DirtIsKnown, Testing, Dirty, Slot, Base
    <2>6. CASE t = s /\ Kill(s)
      <3>1. leak[s] = 0 /\ run[s].todo = {}
        BY <1>1, <1>3, <1>6, <2>6 DEF Tidy, Books
      <3>2. shard'[s][j].pc = "none"
        BY <1>1, <2>6 DEF Kill, TypeOK, IdleShard
      <3>3. CASE run[s].pc = "work" /\ j \in Width(s)
        <4>1. j <= leak'[s]
          BY <1>1, <2>6, <3>3 DEF Kill, TypeOK, Width
        <4>2. QED
          BY <2>6, <3>2, <4>1 DEF Explained, FreshUp, OwnSlate, DirtIsKnown, Testing
      <3>4. CASE ~(run[s].pc = "work" /\ j \in Width(s))
        <4>1. shard[s][j].pc = "none" /\ ~(j <= leak[s]) /\ j \notin run[s].todo
          BY <1>1, <3>1, <3>4 DEF StackInv, ShardsBelong, Shards
        <4>2. QED
          BY <1>1, <2>1, <2>6, <3>2, <4>1
          DEF Explained, FreshUp, OwnSlate, DirtIsKnown, Testing, Dirty, Slot, Base
      <3>5. QED
        BY <3>3, <3>4
    <2>7. QED
      BY <2>2, <2>3, <2>4, <2>5, <2>6
  <1>7. QED
    BY <1>5, <1>6 DEF SlateInv

LEMMA SlateAlways == Spec => []SlateInv
  <1>1. ASSUME SlateInv, [Next]_vars PROVE SlateInv'
    <2>1. StackInv'
      BY <1>1, StackNext DEF SlateInv
    <2>2. CASE Next
      <3>1. ASSUME NEW i \in Shards, ReapTest(i) PROVE SlateInv'
        <4>1. "test" \in Scopes
          BY DEF Scopes
        <4>2. QED
          BY <1>1, <2>1, <3>1, <4>1, SlateReap
      <3>2. ASSUME NEW s \in Gates, NEW i \in Shards, ReapGate(s, i) PROVE SlateInv'
        BY <1>1, <2>1, <3>2, SlateReap DEF Scopes, Gates
      <3>3. ASSUME NEW s \in Scopes,
                   (\E n \in Shards : Launch(s, n)) \/ StartShards(s) \/ Report(s) \/ Kill(s)
            PROVE  SlateInv'
        BY <1>1, <2>1, <3>3, SlateRunStep
      <3>4. ASSUME NEW s \in Scopes, NEW i \in Shards, ShardStep(s, i) PROVE SlateInv'
        BY <1>1, <2>1, <3>4, SlateShardStep
      <3>5. QED
        BY <2>2, <3>1, <3>2, <3>3, <3>4 DEF Next
    <2>3. CASE UNCHANGED vars
      <3>1. (Tidy' <=> Tidy) /\ \A s \in Scopes : Books(s)' <=> Books(s)
        BY <2>3 DEF vars, Tidy, Books
      <3>2. ASSUME NEW s \in Scopes, NEW i \in Shards PROVE Explained(s, i)' <=> Explained(s, i)
        BY <2>3 DEF vars, Explained, FreshUp, OwnSlate, DirtIsKnown, Testing, Dirty, Slot, Base,
                    Sharded
      <3>3. QED
        BY <1>1, <2>1, <3>1, <3>2 DEF SlateInv
    <2>4. QED
      BY <1>1, <2>2, <2>3
  <1>2. QED
    BY <1>1, SlateInit, PTL DEF Spec

\* However many launches came before, in whatever order the commands ran, a
\* suite runs on a database that its own run has made, but for an unsharded
\* `docex test` on a stack kept up for debugging; unless a `compose down`
\* failed or a preflight was killed.
THEOREM SlateIsClean == Spec => []CleanSlate
  <1>1. SlateInv => CleanSlate
    BY DEF SlateInv, Tidy, CleanSlate, Explained, OwnSlate
  <1>2. QED
    BY <1>1, SlateAlways, PTL

\* Under the same conditions `docex test` leaves up only what it keeps for
\* debugging and what its next launch will reap.
THEOREM NothingIsLeft == Spec => []TestLeavesNothingElse
  <1>1. ASSUME SlateInv PROVE TestLeavesNothingElse
    <2> SUFFICES ASSUME run["test"].pc = "idle", Tidy, NEW i \in Shards,
                        Slot("test", i) \in up
                 PROVE  Slot("test", i) \in kept \/ i <= leak["test"]
      BY DEF TestLeavesNothingElse, Tidy
    <2>1. "test" \in Scopes
      BY DEF Scopes
    <2>2. shard["test"][i].pc = "none" /\ run["test"].todo = {}
      BY <1>1, <2>1 DEF SlateInv, StackInv, ShardsBelong, Books
    <2>3. DirtIsKnown("test", i)
      BY <1>1, <2>1 DEF SlateInv, Explained
    <2>4. QED
      BY <2>2, <2>3 DEF DirtIsKnown, Dirty
  <1>2. QED
    BY <1>1, SlateAlways, PTL

=============================================================================
