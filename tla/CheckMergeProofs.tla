--------------------------- MODULE CheckMergeProofs ---------------------------
(***************************************************************************)
(* Theorems about CheckMerge, for any branches, changes, conflicts, starts *)
(* kills and network failures.                                             *)
(***************************************************************************)
EXTENDS CheckMerge, TLAPS, WellFoundedInduction

----------------------------------------------------------------------------
(* Induction over the naturals, with sets for predicates.                  *)

LEMMA NatHasLeast ==
    ASSUME NEW T, T \subseteq Nat, T # {}
    PROVE  \E n \in T : \A m \in T : n <= m
<1>1. PICK n \in T : \A m \in T : <<m, n>> \notin OpToRel(<, Nat)
    BY WFMin, NatLessThanWellFounded
<1>2. \A m \in T : ~(m < n)
    BY <1>1 DEF OpToRel
<1> QED  BY <1>2

LEMMA UpTo ==
    ASSUME NEW n \in Nat, NEW T, T \subseteq 0..n, 0 \in T,
           \A k \in T : k < n => k + 1 \in T
    PROVE  T = 0..n
<1> SUFFICES ASSUME (0..n) \ T # {} PROVE FALSE  OBVIOUS
<1>1. PICK k \in (0..n) \ T : \A m \in (0..n) \ T : k <= m
    <2>1. (0..n) \ T \subseteq Nat  OBVIOUS
    <2> QED  BY <2>1, NatHasLeast
<1>2. k - 1 \in 0..n /\ k - 1 \in T
    BY <1>1
<1> QED  BY <1>1, <1>2

----------------------------------------------------------------------------
(* Histories.                                                              *)

LEMMA PrefixFacts ==
    ASSUME NEW s \in Histories, NEW t \in Histories, IsPrefix(s, t)
    PROVE  ToSet(s) \subseteq ToSet(t)
<1>1. \A i \in DOMAIN s : i \in DOMAIN t /\ s[i] = t[i]
    BY DEF IsPrefix, Histories
<1> QED  BY <1>1 DEF ToSet

LEMMA PrefixTransitive ==
    ASSUME NEW s \in Histories, NEW t \in Histories, NEW u \in Histories,
           IsPrefix(s, t), IsPrefix(t, u)
    PROVE  IsPrefix(s, u)
BY DEF IsPrefix, Histories

LEMMA PrefixReflexive ==
    ASSUME NEW s \in Histories
    PROVE  IsPrefix(s, s)
BY DEF IsPrefix, Histories

LEMMA AppendFacts ==
    ASSUME NEW s \in Histories, NEW c \in Changes
    PROVE  /\ Append(s, c) \in Histories /\ Append(s, c) # Gone
           /\ IsPrefix(s, Append(s, c))
           /\ ToSet(Append(s, c)) = ToSet(s) \cup {c}
BY DEF IsPrefix, ToSet, Histories, Gone

LEMMA ToSetFacts ==
    ASSUME NEW h \in Histories
    PROVE  ToSet(h) \subseteq Changes /\ (ToSet(h) = {} <=> h = Gone)
BY DEF ToSet, Histories, Gone

\* The version of a history is that of its highest bump.
LEMMA VersionFacts ==
    ASSUME NEW h \in Histories
    PROVE  /\ VersionOf(h) \in Nat
           /\ \A c \in ToSet(h) : Version[c] <= VersionOf(h)
           /\ VersionOf(h) = 0 \/ \E c \in ToSet(h) : Version[c] = VersionOf(h)
<1> DEFINE S(n) == {0} \cup {Version[h[i]] : i \in 1..n}
           T == {n \in 0..Len(h) : \E m \in S(n) : \A x \in S(n) : m >= x}
<1>1. Len(h) \in Nat /\ \A i \in 1..Len(h) : Version[h[i]] \in Nat
    BY TrunkAssumption DEF Histories
<1>2. 0 \in T
    OBVIOUS
<1>3. ASSUME NEW n \in T, n < Len(h) PROVE n + 1 \in T
    <2>1. PICK m \in S(n) : \A x \in S(n) : m >= x
        OBVIOUS
    <2>2. n + 1 \in 1..Len(h)
        BY <1>1, <1>3
    <2>3. S(n + 1) = S(n) \cup {Version[h[n + 1]]}
        <3>1. 1..(n + 1) = (1..n) \cup {n + 1}
            BY <1>1, <1>3
        <3> QED  BY <3>1
    <2>4. m \in Nat /\ Version[h[n + 1]] \in Nat
        BY <1>1, <2>2, <1>3
    <2>5. \A x \in S(n) : x \in Nat
        BY <1>1, <1>3
    <2>6. \E y \in S(n + 1) : \A x \in S(n + 1) : y >= x
        <3> HIDE DEF S
        <3>1. CASE m >= Version[h[n + 1]]
            BY <2>1, <2>3, <2>5, <3>1
        <3>2. CASE ~(m >= Version[h[n + 1]])
            BY <2>1, <2>3, <2>4, <2>5, <3>2
        <3> QED  BY <3>1, <3>2
    <2> QED  BY <2>6, <1>1, <1>3
<1>4. T = 0..Len(h)
    <2> HIDE DEF T
    <2>1. T \subseteq 0..Len(h)
        BY DEF T
    <2> QED  BY <1>1, <1>2, <1>3, <2>1, UpTo
<1>5. \E m \in S(Len(h)) : \A x \in S(Len(h)) : m >= x
    <2> HIDE DEF S
    <2>1. Len(h) \in T
        <3> HIDE DEF T
        <3> QED  BY <1>1, <1>4
    <2> QED  BY <2>1
<1>6. S(Len(h)) = {0} \cup {Version[c] : c \in ToSet(h)}
    BY <1>1 DEF ToSet, Histories
<1> HIDE DEF S
<1>7. /\ VersionOf(h) \in S(Len(h))
      /\ \A x \in S(Len(h)) : VersionOf(h) >= x
    BY <1>5, <1>6 DEF VersionOf, Max
<1>8. S(Len(h)) \subseteq Nat
    BY <1>1 DEF S
<1> QED  BY <1>6, <1>7, <1>8

\* What a rebase makes: all of both histories, on top of the new base.
LEMMA RebasedFacts ==
    ASSUME NEW h \in Histories, NEW onto \in Histories
    PROVE  /\ Rebased(h, onto) \in Histories
           /\ IsPrefix(onto, Rebased(h, onto))
           /\ ToSet(Rebased(h, onto)) = ToSet(h) \cup ToSet(onto)
<1> DEFINE Step(f, n) == IF n = 0 THEN onto
                         ELSE IF h[n] \in ToSet(onto) THEN f[n - 1]
                         ELSE Append(f[n - 1], h[n])
           Computes(f, k) == f = [n \in 0..k |-> Step(f, n)]
           T == {k \in 0..Len(h) : \E f : Computes(f, k)}
           replay == CHOOSE f : Computes(f, Len(h))
<1>1. Len(h) \in Nat /\ \A i \in 1..Len(h) : h[i] \in Changes
    BY DEF Histories
<1>2. 0 \in T
    <2>1. Computes([n \in 0..0 |-> onto], 0)
        OBVIOUS
    <2> HIDE DEF Computes
    <2> QED  BY <1>1, <2>1
<1>3. ASSUME NEW k \in T, k < Len(h) PROVE k + 1 \in T
    <2>1. PICK f : Computes(f, k)
        OBVIOUS
    <2> DEFINE g == [n \in 0..(k + 1) |-> Step(f, n)]
    <2>2. k \in 0..Len(h) /\ k + 1 \in 0..Len(h)
        BY <1>1, <1>3
    <2>3. \A n \in 0..k : g[n] = f[n]
        <3> HIDE DEF Step
        <3>1. \A n \in 0..k : f[n] = Step(f, n)
            BY <2>1
        <3>2. \A n \in 0..k : n \in 0..(k + 1)
            BY <1>1, <2>2
        <3> QED  BY <3>1, <3>2
    <2>4. \A n \in 0..(k + 1) : Step(f, n) = Step(g, n)
        <3> HIDE DEF g
        <3>1. \A n \in 0..(k + 1) : n # 0 => n - 1 \in 0..k
            BY <2>2
        <3> QED  BY <2>3, <3>1
    <2>5. Computes(g, k + 1)
        <3> HIDE DEF Step
        <3> QED  BY <2>4
    <2> QED  BY <2>2, <2>5
<1>4. Computes(replay, Len(h))
    <2>1. T = 0..Len(h)
        <3>1. T \subseteq 0..Len(h)
            OBVIOUS
        <3> HIDE DEF T
        <3> QED  BY <1>1, <1>2, <1>3, <3>1, UpTo
    <2>2. Len(h) \in T
        <3> HIDE DEF T
        <3> QED  BY <1>1, <2>1
    <2>3. \E f : Computes(f, Len(h))
        <3> HIDE DEF Computes
        <3> QED  BY <2>2
    <2> HIDE DEF Computes
    <2> QED  BY <2>3
<1>5. Rebased(h, onto) = replay[Len(h)]
    BY DEF Rebased
<1> HIDE DEF replay
<1>6. \A n \in 0..Len(h) : replay[n] = Step(replay, n)
    <2> HIDE DEF Step
    <2> QED  BY <1>4
<1> DEFINE Good(n) == /\ replay[n] \in Histories
                      /\ IsPrefix(onto, replay[n])
                      /\ ToSet(replay[n]) = ToSet(onto) \cup {h[i] : i \in 1..n}
           G == {n \in 0..Len(h) : Good(n)}
<1>7. 0 \in G
    <2>1. replay[0] = onto
        BY <1>1, <1>6
    <2> QED  BY <1>1, <2>1, PrefixReflexive
<1>8. ASSUME NEW n \in G, n < Len(h) PROVE n + 1 \in G
    <2>1. n + 1 \in 1..Len(h) /\ n + 1 \in 0..Len(h) /\ (n + 1) - 1 = n /\ n + 1 # 0
        BY <1>1, <1>8
    <2>2. replay[n + 1] = IF h[n + 1] \in ToSet(onto) THEN replay[n]
                          ELSE Append(replay[n], h[n + 1])
        BY <1>6, <2>1
    <2>3. h[n + 1] \in Changes
        BY <1>1, <2>1
    <2>4. {h[i] : i \in 1..(n + 1)} = {h[i] : i \in 1..n} \cup {h[n + 1]}
        <3>1. 1..(n + 1) = (1..n) \cup {n + 1}
            BY <1>1, <1>8
        <3> QED  BY <3>1
    <2>5. Good(n + 1)
        <3>1. CASE h[n + 1] \in ToSet(onto)
            BY <2>2, <2>4, <3>1
        <3>2. CASE h[n + 1] \notin ToSet(onto)
            BY <2>2, <2>3, <2>4, <3>2, AppendFacts, PrefixTransitive
        <3> QED  BY <3>1, <3>2
    <2> HIDE DEF Good
    <2> QED  BY <2>1, <2>5
<1>9. Len(h) \in G
    <2>1. G \subseteq 0..Len(h)
        OBVIOUS
    <2> HIDE DEF G
    <2>2. G = 0..Len(h)
        BY <1>1, <1>7, <1>8, <2>1, UpTo
    <2> QED  BY <1>1, <2>2
<1>10. ToSet(h) = {h[i] : i \in 1..Len(h)}
    BY DEF ToSet, Histories
<1> QED  BY <1>5, <1>9, <1>10

LEMMA VersionGrows ==
    ASSUME NEW s \in Histories, NEW t \in Histories, ToSet(s) \subseteq ToSet(t)
    PROVE  VersionOf(s) <= VersionOf(t)
<1>1. VersionOf(s) \in Nat /\ VersionOf(t) \in Nat
    BY VersionFacts
<1>2. CASE VersionOf(s) = 0
    BY <1>1, <1>2
<1>3. CASE \E c \in ToSet(s) : Version[c] = VersionOf(s)
    BY <1>3, VersionFacts
<1> QED  BY <1>2, <1>3, VersionFacts

\* A rebase that raises the version has it from the rebased branch.
LEMMA RebasedVersion ==
    ASSUME NEW h \in Histories, NEW onto \in Histories,
           VersionOf(Rebased(h, onto)) > VersionOf(onto)
    PROVE  VersionOf(h) = VersionOf(Rebased(h, onto))
<1> DEFINE r == Rebased(h, onto)
<1>1. r \in Histories /\ ToSet(r) = ToSet(h) \cup ToSet(onto)
    BY RebasedFacts
<1>2. VersionOf(h) \in Nat /\ VersionOf(onto) \in Nat /\ VersionOf(r) \in Nat
    BY <1>1, VersionFacts
<1>3. VersionOf(h) <= VersionOf(r)
    BY <1>1, VersionGrows
<1>4. PICK c \in ToSet(r) : Version[c] = VersionOf(r)
    BY <1>1, <1>2, VersionFacts
<1>5. c \in ToSet(h)
    BY <1>1, <1>2, <1>4, VersionFacts
<1>6. VersionOf(r) <= VersionOf(h)
    BY <1>4, <1>5, VersionFacts
<1> QED  BY <1>2, <1>3, <1>6

LEMMA AppendVersion ==
    ASSUME NEW s \in Histories, NEW c \in Changes, Version[c] > VersionOf(s)
    PROVE  VersionOf(Append(s, c)) = Version[c]
<1>1. Append(s, c) \in Histories /\ ToSet(Append(s, c)) = ToSet(s) \cup {c}
    BY AppendFacts
<1>2. VersionOf(s) \in Nat /\ VersionOf(Append(s, c)) \in Nat /\ Version[c] \in Nat
    BY <1>1, VersionFacts, TrunkAssumption
<1>3. Version[c] <= VersionOf(Append(s, c))
    BY <1>1, VersionFacts
<1>4. PICK d \in ToSet(Append(s, c)) : Version[d] = VersionOf(Append(s, c))
    BY <1>1, <1>2, <1>3, VersionFacts
<1>5. CASE d = c
    BY <1>4, <1>5
<1>6. CASE d \in ToSet(s)
    <2>1. Version[d] <= VersionOf(s)
        BY <1>6, VersionFacts
    <2> QED  BY <1>2, <1>3, <1>4, <2>1
<1> QED  BY <1>1, <1>4, <1>5, <1>6

----------------------------------------------------------------------------
(* Types.                                                                  *)

PCs == {"idle"} \cup MergeStates \cup CheckStates
JobRecords == [pc : PCs, feature : Branches, path : Histories, trunk : Histories,
               version : Nat, slug : Histories, rc : {0, 1, GitCode}]
Merging == {"fetchTrunk", "rebase", "fastForward", "tag", "push", "deleteLocal", "deleteRemote"}
Trees == [owner : Jobs, head : Histories]

\* TypeOK part by part, with the shape of every record; the refs that always
\* exist; and only a merge gets to the states of a merge, the later ones with
\* a branch that it has identified.
TagsTyped(t) == DOMAIN t \subseteq Nat /\ \A v \in DOMAIN t : t[v] \in Histories
GitTyped ==
    /\ DOMAIN origin = {"main", "tags", "features"}
    /\ origin.main \in Histories /\ origin.features \subseteq Features
    /\ TagsTyped(tags) /\ TagsTyped(origin.tags)
    /\ branch \in [Branches -> Histories] /\ tracking \in Histories
    /\ head \in Branches /\ dirty \in BOOLEAN
    /\ origin.main # Gone /\ branch["main"] # Gone /\ branch[head] # Gone
RunTyped ==
    /\ DOMAIN worktree \subseteq Histories
    /\ \A p \in DOMAIN worktree : worktree[p] \in Trees
    /\ record.tip \in Histories /\ record.trunk \in Histories
    /\ record.tree \in Histories
    /\ leak \in [Jobs -> Histories]
JobTyped ==
    /\ job \in [Jobs -> JobRecords]
    /\ job["check"].pc \notin MergeStates
    /\ job["merge"].pc \in Merging => job["merge"].feature # "main"
GhostTyped == tested \cup released \subseteq Histories /\ made \subseteq Changes
CountTyped ==
    /\ count \in [Jobs \cup {"kill", "net"} -> Nat]
    /\ \A j \in Jobs : count[j] \in 0..MaxStarts
    /\ count["kill"] \in 0..MaxKills /\ count["net"] \in 0..MaxNetFailures
Typed == GitTyped /\ RunTyped /\ JobTyped /\ GhostTyped /\ CountTyped

LEMMA TypedIsTypeOK == Typed => TypeOK
<1> SUFFICES ASSUME Typed PROVE TypeOK  OBVIOUS
<1>1. \A j \in Jobs :
          /\ job[j].pc \in {"idle"} \cup MergeStates \cup CheckStates
          /\ job[j].feature \in Branches
          /\ {job[j].path, job[j].trunk, job[j].slug, leak[j]} \subseteq Histories
          /\ job[j].version \in Nat /\ job[j].rc \in {0, 1, GitCode}
          /\ count[j] \in 0..MaxStarts
    BY DEF Typed, JobTyped, RunTyped, CountTyped, JobRecords, PCs
<1>2. \A p \in DOMAIN worktree : /\ worktree[p].owner \in Jobs
                                 /\ worktree[p].head \in Histories
    BY DEF Typed, RunTyped, Trees
<1> QED  BY <1>1, <1>2 DEF Typed, GitTyped, RunTyped, GhostTyped, CountTyped, TagsTyped, TypeOK

LEMMA TypedInit == Init => Typed
<1> SUFFICES ASSUME Init PROVE Typed  OBVIOUS
<1>1. Gone \in Histories /\ TrunkStart \in Histories /\ TrunkStart # Gone
    BY TrunkAssumption DEF Histories, Gone
<1>2. /\ branch \in [Branches -> Histories] /\ head \in Branches
      /\ branch[head] # Gone /\ branch["main"] # Gone
    BY <1>1, TrunkAssumption DEF Init, Branches, Histories, Gone
<1>3. DOMAIN << >> = {}
    OBVIOUS
<1>4. GitTyped
    <2>1. tags = << >> /\ origin.tags = << >>
        BY DEF Init
    <2>2. TagsTyped(tags) /\ TagsTyped(origin.tags)
        BY <1>3, <2>1 DEF TagsTyped
    <2> QED  BY <1>1, <1>2, <2>2 DEF Init, GitTyped
<1>5. RunTyped
    BY <1>1, <1>3 DEF Init, RunTyped, NoRecord
<1>6. JobTyped
    <2>1. Idle \in JobRecords /\ Idle.pc = "idle" /\ "idle" \notin MergeStates \cup Merging
        BY <1>1 DEF Idle, JobRecords, PCs, Branches, MergeStates, Merging
    <2> QED  BY <2>1 DEF Init, JobTyped, Jobs
<1>7. GhostTyped
    <2>1. \A f \in Features : ToSet(FeatureStart[f]) \subseteq Changes
        BY TrunkAssumption, ToSetFacts DEF Histories
    <2> QED  BY <2>1 DEF Init, GhostTyped
<1>8. CountTyped
    BY ActorsAssumption DEF Init, CountTyped
<1> QED  BY <1>4, <1>5, <1>6, <1>7, <1>8 DEF Typed

LEMMA TagsFacts ==
    ASSUME NEW t, TagsTyped(t)
    PROVE  /\ \A v \in Nat, h \in Histories : TagsTyped(With(t, v, h))
           /\ TagsTyped(tags) => (TagsTyped(origin.tags) => TagsTyped(Fetched(origin)))
BY DEF TagsTyped, With, Fetched

\* A job moves alone.
LEMMA JobMoves ==
    ASSUME JobTyped, NEW j \in Jobs
    PROVE  /\ Finish(j) => JobTyped'
           /\ \A pc \in PCs : /\ Goto(j, pc)
                              /\ j = "merge" \/ pc \notin MergeStates
                              /\ pc \in Merging => job[j].feature # "main"
                              => JobTyped'
           /\ \A r \in JobRecords : /\ job' = [job EXCEPT ![j] = r]
                                    /\ j = "merge" \/ r.pc \notin MergeStates
                                    /\ r.pc \in Merging => r.feature # "main"
                                    => JobTyped'
           /\ \A rc : Return(j, rc) => JobTyped'
           /\ \A code \in {1, GitCode} : FailCheck(j, code) => JobTyped'
<1>1. Idle \in JobRecords /\ Idle.pc = "idle" /\ "idle" \notin MergeStates \cup Merging
    BY DEF Idle, JobRecords, PCs, Branches, MergeStates, Merging, Histories, Gone
<1>2. Finish(j) => JobTyped'
    BY <1>1 DEF Finish, JobTyped, Jobs
<1>3. ASSUME NEW pc \in PCs, Goto(j, pc), j = "merge" \/ pc \notin MergeStates,
             pc \in Merging => job[j].feature # "main"
      PROVE  JobTyped'
    BY <1>3 DEF Goto, JobTyped, JobRecords, Jobs
<1>4. ASSUME NEW r \in JobRecords, job' = [job EXCEPT ![j] = r],
             j = "merge" \/ r.pc \notin MergeStates, r.pc \in Merging => r.feature # "main"
      PROVE  JobTyped'
    BY <1>4 DEF JobTyped, Jobs
<1>5. ASSUME NEW rc, Return(j, rc) PROVE JobTyped'
    <2>1. "identify" \in PCs /\ "identify" \notin Merging
        BY DEF PCs, MergeStates, Merging
    <2> QED  BY <1>2, <1>3, <1>5, <2>1 DEF Return
<1>6. ASSUME NEW code \in {1, GitCode}, FailCheck(j, code) PROVE JobTyped'
    <2>1. "cleanup" \in PCs /\ "cleanup" \notin MergeStates \cup Merging
        BY DEF PCs, CheckStates, MergeStates, Merging
    <2> QED  BY <1>6, <2>1 DEF FailCheck, JobTyped, JobRecords, Jobs
<1> QED  BY <1>2, <1>3, <1>4, <1>5, <1>6

LEMMA SameParts ==
    /\ GitTyped /\ UNCHANGED gitVars => GitTyped'
    /\ RunTyped /\ UNCHANGED runVars => RunTyped'
    /\ JobTyped /\ UNCHANGED job => JobTyped'
    /\ GhostTyped /\ UNCHANGED ghosts => GhostTyped'
    /\ CountTyped /\ UNCHANGED count => CountTyped'
BY DEF GitTyped, RunTyped, JobTyped, GhostTyped, CountTyped, gitVars, runVars, ghosts, TagsTyped

LEMMA CountMoves ==
    ASSUME CountTyped
    PROVE  /\ NetFails => CountTyped'
           /\ UNCHANGED count \/ NetFails => CountTyped'
<1>1. NetFails => CountTyped'
    BY ActorsAssumption DEF NetFails, CountTyped, Jobs
<1> QED  BY <1>1, SameParts

LEMMA OnlyMerge ==
    ASSUME JobTyped, NEW j \in Jobs, job[j].pc \in MergeStates
    PROVE  j = "merge" /\ (job[j].pc \in Merging => job[j].feature # "main")
BY DEF JobTyped, Jobs

\* The steps of a check change its job, its worktree and the record.
LEMMA CheckTyped ==
    ASSUME Typed, NEW j \in Jobs, CheckStep(j)
    PROVE  Typed'
<1> USE SameParts, JobMoves, CountMoves DEF Typed
<1>1. /\ job[j] \in JobRecords
      /\ {"fetch", "addWorktree", "rebaseTree", "gates", "test", "record", "cleanup"} \subseteq PCs
      /\ {"fetch", "addWorktree", "rebaseTree", "gates", "test", "record", "cleanup"}
             \cap (MergeStates \cup Merging) = {}
    BY DEF JobTyped, PCs, CheckStates, InWorktree, MergeStates, Merging
<1>2. CASE CheckClean(j)
    <2>1. JobTyped'
        <3>1. [job[j] EXCEPT !.feature = head,
                  !.pc = IF HasOrigin THEN "fetch" ELSE "addWorktree"] \in JobRecords
            BY <1>1 DEF JobRecords, GitTyped
        <3>2. CASE Return(j, 1)
            BY <3>2
        <3>3. CASE job' = [job EXCEPT ![j].feature = head,
                              ![j].pc = IF HasOrigin THEN "fetch" ELSE "addWorktree"]
            BY <1>1, <3>1, <3>3 DEF JobTyped, JobRecords, Jobs
        <3> QED  BY <1>2, <3>2, <3>3 DEF CheckClean
    <2> QED  BY <1>2, <2>1 DEF CheckClean
<1>3. CASE CheckFetch(j)
    <2>1. JobTyped' /\ CountTyped'
        BY <1>1, <1>3 DEF CheckFetch
    <2>2. GitTyped'
        BY <1>3, TagsFacts DEF CheckFetch, GitTyped
    <2> QED  BY <1>3, <2>1, <2>2 DEF CheckFetch
<1>4. CASE AddWorktree(j)
    <2>1. CASE Return(j, GitCode) /\ UNCHANGED worktree
        <3>1. RunTyped'
            BY <1>4, <2>1 DEF AddWorktree, runVars
        <3> QED  BY <1>4, <2>1, <3>1 DEF AddWorktree
    <2>2. CASE ~(Return(j, GitCode) /\ UNCHANGED worktree)
        <3>1. /\ worktree' = With(worktree, branch[head],
                                  [owner |-> j, head |-> branch[job[j].feature]])
              /\ job' = [job EXCEPT ![j].path = branch[head],
                            ![j].pc = IF tracking = Gone THEN "test" ELSE "rebaseTree"]
            BY <1>4, <2>2 DEF AddWorktree
        <3>2. branch[head] \in Histories /\ branch[job[j].feature] \in Histories
            BY <1>1 DEF GitTyped, JobRecords
        <3>3. RunTyped'
            BY <1>4, <3>1, <3>2 DEF AddWorktree, RunTyped, With, Trees
        <3>4. JobTyped'
            BY <1>1, <3>1, <3>2 DEF JobTyped, JobRecords, Jobs
        <3> QED  BY <1>4, <3>3, <3>4 DEF AddWorktree
    <2> QED  BY <2>1, <2>2
<1>5. CASE RebaseTree(j)
    <2>1. JobTyped'
        BY <1>1, <1>5 DEF RebaseTree
    <2>2. RunTyped'
        <3>1. ASSUME Present(j) PROVE Rebased(Tree(j), tracking) \in Histories
            BY <3>1, RebasedFacts DEF Present, Tree, RunTyped, Trees, GitTyped
        <3>2. CASE UNCHANGED worktree
            BY <1>5, <3>2 DEF RebaseTree, runVars
        <3>3. CASE Present(j) /\ worktree' = [worktree EXCEPT ![job[j].path].head =
                                                 Rebased(@, tracking)]
            BY <1>5, <3>1, <3>3 DEF RebaseTree, RunTyped, Trees, Tree, Present
        <3> QED  BY <1>5, <3>2, <3>3 DEF RebaseTree
    <2> QED  BY <1>5, <2>1, <2>2 DEF RebaseTree
<1>6. CASE Gates(j)
    BY <1>1, <1>6 DEF Gates
<1>7. CASE TestTree(j)
    <2>1. JobTyped'
        BY <1>1, <1>7 DEF TestTree
    <2>2. GhostTyped'
        BY <1>7 DEF TestTree, GhostTyped, Present, Tree, RunTyped, Trees
    <2> QED  BY <1>7, <2>1, <2>2 DEF TestTree
<1>8. CASE WriteRecord(j)
    <2>1. JobTyped'
        <3>1. job' = [job EXCEPT ![j].pc = "cleanup", ![j].rc = 0]
            BY <1>8 DEF WriteRecord
        <3>2. "cleanup" \in PCs /\ "cleanup" \notin MergeStates \cup Merging
            BY DEF PCs, CheckStates, MergeStates, Merging
        <3> QED  BY <3>1, <3>2 DEF JobTyped, JobRecords, Jobs
    <2>2. RunTyped'
        <3>1. branch[head] \in Histories /\ branch["main"] \in Histories /\ tracking \in Histories
            BY DEF GitTyped, Branches
        <3>2. Present(j) => Tree(j) \in Histories
            BY DEF Present, Tree, RunTyped, Trees
        <3>3. Gone \in Histories
            BY DEF Gone, Histories
        <3> QED  BY <1>8, <3>1, <3>2, <3>3 DEF WriteRecord, RunTyped
    <2> QED  BY <1>8, <2>1, <2>2 DEF WriteRecord
<1>9. CASE Cleanup(j)
    <2>1. JobTyped'
        BY <1>9 DEF Cleanup
    <2>2. RunTyped'
        BY <1>9 DEF Cleanup, RunTyped, Restrict
    <2> QED  BY <1>9, <2>1, <2>2 DEF Cleanup
<1> QED  BY <1>2, <1>3, <1>4, <1>5, <1>6, <1>7, <1>8, <1>9 DEF CheckStep

\* A tag is made before it is pushed.
PushTagged == job["merge"].pc = "push" => job["merge"].version \in DOMAIN tags

LEMMA MergeTyped ==
    ASSUME Typed, PushTagged, NEW j \in Jobs, MergeStep(j)
    PROVE  Typed'
<1> USE SameParts, JobMoves, CountMoves DEF Typed
<1>1. j = "merge" /\ (job[j].pc \in Merging => job[j].feature # "main")
    BY OnlyMerge DEF MergeStep, Preflight, Recheck, Identify, FetchTrunk, Rebase, FastForward, Tag,
                     Push, DeleteLocal, DeleteRemote, At, MergeStates
<1>2. /\ job[j] \in JobRecords
      /\ MergeStates \cup CheckStates \subseteq PCs /\ Merging \subseteq MergeStates
      /\ "clean" \in CheckStates
    BY DEF JobTyped, PCs, CheckStates, MergeStates, Merging
<1>3. /\ branch[head] \in Histories /\ branch["main"] \in Histories
      /\ branch[job[j].feature] \in Histories /\ job[j].feature \in Branches
      /\ "main" \in Branches
    BY <1>2 DEF GitTyped, JobRecords, Branches
<1>4. CASE Preflight(j)
    <2>1. JobTyped'
        <3>1. CASE Finish(j)
            BY <3>1
        <3>2. CASE job' = [job EXCEPT ![j].pc = "recheck",
                              ![j].trunk = IF HasOrigin THEN origin.main ELSE branch["main"]]
            BY <1>1, <1>2, <1>3, <3>2 DEF JobTyped, JobRecords, Jobs, GitTyped, PCs, MergeStates, Merging
        <3> QED  BY <1>4, <3>1, <3>2 DEF Preflight
    <2> QED  BY <1>4, <2>1 DEF Preflight
<1>5. CASE Recheck(j)
    <2>1. {"identify", "clean"} \subseteq PCs \ Merging
        BY DEF PCs, MergeStates, CheckStates, Merging
    <2> QED  BY <1>1, <1>5, <2>1 DEF Recheck
<1>6. CASE Identify(j)
    <2>1. JobTyped'
        <3>1. CASE Finish(j)
            BY <3>1
        <3>2. CASE head # "main" /\ job' = [job EXCEPT ![j].feature = head,
                       ![j].pc = IF HasOrigin THEN "fetchTrunk" ELSE "rebase"]
            BY ZenonT(40), <1>1, <1>2, <3>2 DEF JobTyped, JobRecords, Jobs, GitTyped, PCs, MergeStates, Merging
        <3> QED  BY <1>6, <3>1, <3>2 DEF Identify
    <2> QED  BY <1>6, <2>1 DEF Identify
<1>7. CASE FetchTrunk(j)
    <2>1. JobTyped'
        BY <1>1, <1>2, <1>7 DEF FetchTrunk, At, Merging
    <2>2. GitTyped'
        BY <1>7, TagsFacts DEF FetchTrunk, GitTyped
    <2> QED  BY <1>7, <2>1, <2>2 DEF FetchTrunk
<1>8. CASE Rebase(j)
    <2> DEFINE onto == IF HasOrigin THEN tracking ELSE branch["main"]
    <2>1. JobTyped'
        BY <1>1, <1>2, <1>8 DEF Rebase, At, Merging
    <2>2. GitTyped'
        <3>1. /\ Rebased(branch[head], onto) \in Histories
              /\ Rebased(branch[head], onto) # Gone
            <4>1. onto \in Histories
                BY <1>3 DEF GitTyped
            <4> HIDE DEF onto
            <4> QED  BY <1>3, <4>1, RebasedFacts, ToSetFacts DEF GitTyped
        <3>2. CASE UNCHANGED branch
            BY <1>8, <3>2 DEF Rebase, gitVars
        <3>3. CASE branch' = [branch EXCEPT ![head] = Rebased(@, onto)]
            <4> HIDE DEF onto
            <4> QED  BY <1>8, <3>1, <3>3 DEF Rebase, GitTyped
        <3> QED  BY <1>8, <3>2, <3>3 DEF Rebase
    <2> QED  BY <1>8, <2>1, <2>2 DEF Rebase
<1>9. CASE FastForward(j)
    <2>1. JobTyped'
        BY <1>1, <1>2, <1>9 DEF FastForward, At, Merging
    <2>2. GitTyped'
        <3>1. IsPrefix(branch["main"], branch[job[j].feature]) => branch[job[j].feature] # Gone
            BY <1>3, PrefixFacts, ToSetFacts DEF GitTyped
        <3> QED  BY <1>3, <1>9, <3>1 DEF FastForward, GitTyped
    <2> QED  BY <1>9, <2>1, <2>2 DEF FastForward
<1>10. CASE Tag(j)
    <2>1. JobTyped'
        BY <1>1, <1>2, <1>10 DEF Tag, At, Merging
    <2>2. GitTyped'
        BY <1>2, <1>3, <1>10, TagsFacts DEF Tag, GitTyped, JobRecords
    <2>3. GhostTyped'
        BY <1>3, <1>10 DEF Tag, GhostTyped
    <2> QED  BY <1>10, <2>1, <2>2, <2>3 DEF Tag
<1>11. CASE Push(j)
    <2>1. JobTyped'
        BY <1>1, <1>2, <1>11 DEF Push, At, Merging
    <2>2. GhostTyped'
        BY <1>3, <1>11 DEF Push, GhostTyped
    <2>3. GitTyped'
        <3>1. CASE UNCHANGED <<origin, tracking>>
            BY <1>11, <3>1 DEF Push, gitVars
        <3>2. CASE ~UNCHANGED <<origin, tracking>>
            <4> DEFINE v == job[j].version
                       mainAccepted == IsPrefix(origin.main, branch["main"])
                       tagAccepted == v \notin DOMAIN origin.tags
            <4>1. /\ origin' = [origin EXCEPT
                         !.main = IF mainAccepted THEN branch["main"] ELSE @,
                         !.tags = IF tagAccepted THEN With(@, v, tags[v]) ELSE @]
                  /\ tracking' = IF mainAccepted THEN branch["main"] ELSE tracking
                BY <1>11, <3>2 DEF Push
            <4>2. v \in Nat
                BY <1>2 DEF JobRecords
            <4>3. /\ origin'.main \in Histories /\ origin'.main # Gone
                  /\ origin'.features = origin.features
                  /\ DOMAIN origin' = {"main", "tags", "features"}
                BY <1>3, <4>1 DEF GitTyped
            <4>4. v \in DOMAIN tags
                BY <1>1, <1>11 DEF PushTagged, Push, At
            <4>5. tags[v] \in Histories
                BY <4>4 DEF GitTyped, TagsTyped
            <4>6. TagsTyped(origin'.tags)
                BY <4>1, <4>2, <4>5, TagsFacts DEF GitTyped
            <4>7. tracking' \in Histories
                BY <1>3, <4>1 DEF GitTyped
            <4> HIDE DEF v, mainAccepted, tagAccepted
            <4> QED  BY <1>11, <4>3, <4>6, <4>7 DEF Push, GitTyped
        <3> QED  BY <3>1, <3>2
    <2> QED  BY <1>11, <2>1, <2>2, <2>3 DEF Push
<1>12. CASE DeleteLocal(j)
    <2>1. JobTyped'
        BY <1>1, <1>2, <1>12 DEF DeleteLocal, At, Merging
    <2>2. GitTyped'
        <3>1. job[j].feature # "main"
            BY <1>1, <1>12 DEF DeleteLocal, At, Merging
        <3>2. Gone \in Histories
            BY DEF Gone, Histories
        <3> QED  BY <1>3, <1>12, <3>1, <3>2 DEF DeleteLocal, GitTyped
    <2> QED  BY <1>12, <2>1, <2>2 DEF DeleteLocal
<1>13. CASE DeleteRemote(j)
    <2>1. JobTyped'
        BY <1>13 DEF DeleteRemote
    <2>2. GitTyped'
        BY <1>13 DEF DeleteRemote, GitTyped
    <2> QED  BY <1>13, <2>1, <2>2 DEF DeleteRemote
<1> QED  BY <1>4, <1>5, <1>6, <1>7, <1>8, <1>9, <1>10, <1>11, <1>12, <1>13 DEF MergeStep

LEMMA LaunchTyped ==
    ASSUME Typed, NEW j \in Jobs, Start(j) \/ Kill(j)
    PROVE  Typed'
<1> USE SameParts, JobMoves, CountMoves DEF Typed
<1>1. Gone \in Histories
    BY DEF Gone, Histories
<1>2. CASE Start(j)
    <2>1. JobTyped'
        <3> DEFINE r == [Idle EXCEPT !.pc = IF j = "merge" THEN "preflight" ELSE "clean",
                            !.version = VersionOf(branch[head]), !.slug = branch[head]]
        <3>1. branch[head] \in Histories /\ VersionOf(branch[head]) \in Nat
            BY VersionFacts DEF GitTyped
        <3>2. r \in JobRecords /\ r.pc = IF j = "merge" THEN "preflight" ELSE "clean"
            BY <1>1, <3>1 DEF Idle, JobRecords, PCs, MergeStates, CheckStates, Branches
        <3>3. (j = "merge" \/ r.pc \notin MergeStates) /\ r.pc \notin Merging
            BY <3>2 DEF MergeStates, Merging
        <3>4. job' = [job EXCEPT ![j] = r]
            BY <1>2 DEF Start
        <3> HIDE DEF r
        <3> QED  BY <3>2, <3>3, <3>4
    <2>2. RunTyped'
        BY <1>1, <1>2 DEF Start, RunTyped, Restrict
    <2>3. CountTyped'
        BY <1>2, ActorsAssumption DEF Start, CountTyped, Jobs
    <2> QED  BY <1>2, <2>1, <2>2, <2>3 DEF Start
<1>3. CASE Kill(j)
    <2>1. RunTyped'
        BY <1>3 DEF Kill, RunTyped, JobTyped, JobRecords
    <2>2. CountTyped'
        BY <1>3, ActorsAssumption DEF Kill, CountTyped, Jobs
    <2>3. JobTyped'
        BY <1>3 DEF Kill
    <2> QED  BY <1>3, <2>1, <2>2, <2>3 DEF Kill
<1> QED  BY <1>2, <1>3

LEMMA OthersTyped ==
    ASSUME Typed, DevStep \/ \E c \in TeamChanges : TeamPush(c)
    PROVE  Typed'
<1> USE SameParts DEF Typed
<1>1. CASE Edit
    BY <1>1 DEF Edit, GitTyped
<1>2. CASE DevFetch
    <2>1. GitTyped'
        BY <1>2, TagsFacts DEF DevFetch, GitTyped
    <2> QED  BY <1>2, <2>1 DEF DevFetch
<1>3. CASE DevRebase
    <2>1. Rebased(branch[head], tracking) \in Histories /\ Rebased(branch[head], tracking) # Gone
        BY RebasedFacts, ToSetFacts DEF GitTyped
    <2>2. GitTyped'
        BY <1>3, <2>1 DEF DevRebase, GitTyped
    <2> QED  BY <1>3, <2>2 DEF DevRebase
<1>4. ASSUME NEW c \in FixUps, Commit(c) PROVE Typed'
    <2>1. c \in Changes
        BY ActorsAssumption
    <2> DEFINE new == Append(branch[head], c)
    <2>2. new \in Histories /\ new # Gone
        BY <2>1, AppendFacts DEF GitTyped
    <2>3. /\ branch' = [branch EXCEPT ![head] = new] /\ dirty' = FALSE
          /\ UNCHANGED <<origin, tracking, tags, head>>
        BY <1>4 DEF Commit
    <2>4. GitTyped'
        <3> HIDE DEF new
        <3>1. "main" \in Branches
            BY DEF Branches
        <3> QED  BY <2>2, <2>3, <3>1 DEF GitTyped
    <2>5. GhostTyped'
        BY <1>4, <2>1 DEF Commit, GhostTyped
    <2> QED  BY <1>4, <2>4, <2>5 DEF Commit
<1>5. ASSUME NEW b \in Branches, Switch(b) PROVE Typed'
    BY <1>5 DEF Switch, GitTyped
<1>6. ASSUME NEW c \in TeamChanges, TeamPush(c) PROVE Typed'
    <2> DEFINE tip == Append(origin.main, c)
    <2>1. c \in Changes /\ Version[c] \in Nat
        BY ActorsAssumption, TrunkAssumption
    <2>2. tip \in Histories /\ tip # Gone
        BY <2>1, AppendFacts DEF GitTyped
    <2>3. origin' = [origin EXCEPT !.main = tip,
                        !.tags = IF Version[c] = 0 THEN @ ELSE With(@, Version[c], tip)]
        BY <1>6 DEF TeamPush
    <2> HIDE DEF tip
    <2>4. TagsTyped(origin'.tags)
        BY <2>1, <2>2, <2>3, TagsFacts DEF GitTyped
    <2>5. GitTyped'
        BY <1>6, <2>2, <2>3, <2>4 DEF TeamPush, GitTyped
    <2> QED  BY <1>6, <2>5 DEF TeamPush
<1> QED  BY <1>1, <1>2, <1>3, <1>4, <1>5, <1>6 DEF DevStep

LEMMA TypedStep == Typed /\ PushTagged /\ [Next]_vars => Typed'
<1> SUFFICES ASSUME Typed, PushTagged, [Next]_vars PROVE Typed'  OBVIOUS
<1>1. CASE UNCHANGED vars
    BY <1>1, SameParts DEF vars, Typed
<1> QED  BY <1>1, CheckTyped, MergeTyped, LaunchTyped, OthersTyped DEF Next

LEMMA PushTaggedStep == Typed /\ PushTagged /\ [Next]_vars => PushTagged'
<1> SUFFICES ASSUME Typed, PushTagged, [Next]_vars PROVE PushTagged'  OBVIOUS
<1> DEFINE Kept == /\ DOMAIN tags \subseteq DOMAIN tags'
                   /\ job'["merge"].pc = "push" => job'["merge"] = job["merge"]
<1>1. ASSUME Kept PROVE PushTagged'
    BY <1>1 DEF PushTagged
<1>2. job \in [Jobs -> JobRecords] /\ "merge" \in Jobs
    BY DEF Typed, JobTyped, Jobs
<1>3. DOMAIN tags \subseteq DOMAIN Fetched(origin)
    BY DEF Fetched
<1>4. ASSUME NEW j \in Jobs
      PROVE  /\ Finish(j) \/ (\E code : FailCheck(j, code)) => (job'["merge"].pc = "push" => job'["merge"] = job["merge"])
             /\ \A rc : Return(j, rc) => (job'["merge"].pc = "push" => job'["merge"] = job["merge"])
             /\ \A pc : Goto(j, pc) /\ pc # "push" =>
                            (job'["merge"].pc = "push" => job'["merge"] = job["merge"])
    BY <1>2 DEF Finish, Return, Goto, FailCheck, Idle, JobRecords
<1>5. ASSUME NEW j \in Jobs, Start(j) \/ Kill(j) PROVE Kept
    BY ZenonT(40), <1>2, <1>4, <1>5 DEF Start, Kill, gitVars, Idle
<1>6. ASSUME NEW j \in Jobs, CheckStep(j) PROVE Kept
    <2>1. CASE CheckClean(j)
        BY <1>2, <1>4, <2>1 DEF CheckClean, gitVars, JobRecords
    <2>2. CASE CheckFetch(j)
        BY <1>3, <1>4, <2>2 DEF CheckFetch
    <2>3. CASE AddWorktree(j)
        BY <1>2, <1>4, <2>3 DEF AddWorktree, gitVars, JobRecords
    <2>4. CASE RebaseTree(j)
        BY <1>4, <2>4 DEF RebaseTree, gitVars
    <2>5. CASE Gates(j)
        BY <1>4, <2>5 DEF Gates, gitVars
    <2>6. CASE TestTree(j)
        BY <1>4, <2>6 DEF TestTree, gitVars
    <2>7. CASE WriteRecord(j)
        BY <1>2, <1>4, <2>7 DEF WriteRecord, gitVars, JobRecords
    <2>8. CASE Cleanup(j)
        BY <1>4, <2>8 DEF Cleanup, gitVars
    <2> QED  BY <1>6, <2>1, <2>2, <2>3, <2>4, <2>5, <2>6, <2>7, <2>8 DEF CheckStep
<1>7. ASSUME NEW j \in Jobs, MergeStep(j) PROVE PushTagged'
    <2>1. j = "merge"
        BY <1>7, OnlyMerge DEF Typed, MergeStep, Preflight, Recheck, Identify, FetchTrunk, Rebase,
           FastForward, Tag, Push, DeleteLocal, DeleteRemote, At, MergeStates
    <2>2. CASE Preflight(j) \/ Recheck(j) \/ Identify(j)
        <3>1. Kept
            BY <1>2, <1>4, <2>2 DEF Preflight, Recheck, Identify, gitVars, JobRecords
        <3> QED  BY <1>1, <3>1
    <2>3. CASE FetchTrunk(j)
        <3>1. Kept
            BY <1>3, <1>4, <2>3 DEF FetchTrunk
        <3> QED  BY <1>1, <3>1
    <2>4. CASE Rebase(j) \/ FastForward(j)
        <3>1. Kept
            BY <1>4, <2>4 DEF Rebase, FastForward
        <3> QED  BY <1>1, <3>1
    <2>5. CASE Tag(j)
        <3>1. CASE Finish(j) /\ UNCHANGED tags
            BY <1>1, <1>4, <3>1
        <3>2. CASE /\ tags' = With(tags, job[j].version, branch["main"])
                   /\ Goto(j, IF HasOrigin THEN "push" ELSE "deleteLocal")
            BY <1>2, <2>1, <3>2 DEF With, Goto, PushTagged, JobRecords
        <3> QED  BY <2>5, <3>1, <3>2 DEF Tag
    <2>6. CASE Push(j)
        <3>1. Kept
            BY <1>4, <2>6 DEF Push
        <3> QED  BY <1>1, <3>1
    <2>7. CASE DeleteLocal(j) \/ DeleteRemote(j)
        <3>1. Kept
            BY <1>4, <2>7 DEF DeleteLocal, DeleteRemote
        <3> QED  BY <1>1, <3>1
    <2> QED  BY <1>7, <2>2, <2>3, <2>4, <2>5, <2>6, <2>7 DEF MergeStep
<1>8. ASSUME DevStep \/ \E c \in TeamChanges : TeamPush(c) PROVE Kept
    BY <1>3, <1>8 DEF DevStep, Edit, DevFetch, DevRebase, Commit, Switch, TeamPush
<1>9. CASE UNCHANGED vars
    BY <1>9 DEF vars, gitVars, PushTagged
<1> HIDE DEF Kept
<1> QED  BY <1>1, <1>5, <1>6, <1>7, <1>8, <1>9 DEF Next

LEMMA TypedAlways == Spec => [](Typed /\ PushTagged)
<1>1. Init => PushTagged
    BY DEF Init, PushTagged, Idle, Jobs
<1> QED  BY <1>1, TypedInit, TypedStep, PushTaggedStep, PTL DEF Spec

\* The clone, origin, the records and the jobs keep their types: what merge
\* reads of any ref, tag or worktree is a history, whatever two jobs, the
\* developer and the team do at once.
THEOREM TypeCorrect == Spec => []TypeOK
BY TypedAlways, TypedIsTypeOK, PTL

----------------------------------------------------------------------------
(* Worktrees.                                                              *)

InTree == InWorktree \cup {"cleanup"}
Owns(j) == Present(j) /\ worktree[job[j].path].owner = j

\* From its creation to its removal a worktree is its run's.  What the next
\* launch removes is no worktree at all, or no run is under way then.
OwnInv ==
    /\ \A j \in Jobs : job[j].pc \in InTree => Owns(j)
    /\ Gone \notin DOMAIN worktree
    /\ MaxKills = 0 => \A j \in Jobs : leak[j] = Gone
    /\ ~Overlap => \A i, j \in Jobs : job[i].pc # "idle" /\ job[j].pc # "idle" => i = j

\* Job j moves, and the others stay where they are.
Alone(j) == \A i \in Jobs \ {j} : job'[i] = job[i]

SameRun(j) ==
    /\ job'[j].feature = job[j].feature /\ job'[j].path = job[j].path
    /\ job'[j].trunk = job[j].trunk /\ job'[j].version = job[j].version

LEMMA MovesAlone ==
    ASSUME Typed, NEW j \in Jobs
    PROVE  /\ Finish(j) => Alone(j) /\ job'[j] = Idle
           /\ \A pc : Goto(j, pc) => Alone(j) /\ job'[j].pc = pc /\ SameRun(j)
           /\ \A rc : Return(j, rc) => /\ Alone(j)
                                       /\ \/ job'[j] = Idle
                                          \/ /\ j = "merge" /\ rc = 0
                                             /\ job'[j].pc = "identify" /\ SameRun(j)
           /\ \A code : FailCheck(j, code) => /\ Alone(j) /\ SameRun(j)
                                               /\ job'[j].pc = "cleanup" /\ job'[j].rc = code
<1>1. job \in [Jobs -> JobRecords]
    BY DEF Typed, JobTyped
<1>2. Finish(j) => Alone(j) /\ job'[j] = Idle
    BY <1>1 DEF Finish, Alone
<1>3. ASSUME NEW pc, Goto(j, pc) PROVE Alone(j) /\ job'[j].pc = pc /\ SameRun(j)
    BY <1>1, <1>3 DEF Goto, Alone, SameRun, JobRecords
<1>4. ASSUME NEW code, FailCheck(j, code)
      PROVE  Alone(j) /\ SameRun(j) /\ job'[j].pc = "cleanup" /\ job'[j].rc = code
    BY <1>1, <1>4 DEF FailCheck, Alone, SameRun, JobRecords
<1>5. ASSUME NEW rc, Return(j, rc)
      PROVE  /\ Alone(j)
             /\ \/ job'[j] = Idle
                \/ j = "merge" /\ rc = 0 /\ job'[j].pc = "identify" /\ SameRun(j)
    BY <1>2, <1>3, <1>5 DEF Return
<1> QED  BY <1>2, <1>3, <1>4, <1>5

LEMMA OwnFrame ==
    ASSUME Typed, OwnInv, NEW j \in Jobs, Alone(j), UNCHANGED <<worktree, leak>>,
           job[j].pc # "idle",
           job'[j].pc \in InTree => job[j].pc \in InTree /\ job'[j].path = job[j].path
    PROVE  OwnInv'
<1>1. \A i \in Jobs : job'[i].pc \in InTree => Owns(i)'
    BY DEF OwnInv, Alone, Owns, Present
<1>2. \A i \in Jobs : job'[i].pc # "idle" => job[i].pc # "idle"
    BY DEF Alone
<1> QED  BY <1>1, <1>2 DEF OwnInv

LEMMA OwnStep ==
    ASSUME MaxKills = 0 \/ ~Overlap, Typed, PushTagged, OwnInv, [Next]_vars
    PROVE  OwnInv'
<1>1. /\ job \in [Jobs -> JobRecords] /\ "idle" \notin InTree /\ Idle.pc = "idle"
      /\ InTree \cap MergeStates = {} /\ {"clean", "fetch", "addWorktree"} \cap InTree = {}
      /\ "idle" \notin MergeStates \cup CheckStates
    BY DEF Typed, JobTyped, InTree, InWorktree, Idle, MergeStates, CheckStates
<1>2. ASSUME NEW j \in Jobs, Start(j) PROVE OwnInv'
    <2>1. job[j].pc = "idle" /\ Alone(j) /\ job'[j].pc \in {"preflight", "clean"}
        BY <1>1, <1>2 DEF Start, At, Alone, Idle, JobRecords
    <2>2. job'[j].pc \notin InTree
        BY <2>1 DEF InTree, InWorktree
    <2>3. worktree' = Restrict(worktree, DOMAIN worktree \ {leak[j]}) /\ leak' = [leak EXCEPT ![j] = Gone]
        BY <1>2 DEF Start
    <2>4. Gone \notin DOMAIN worktree' /\ (MaxKills = 0 => \A i \in Jobs : leak'[i] = Gone)
        BY <2>3 DEF OwnInv, Restrict, Typed, RunTyped
    <2>5. CASE MaxKills = 0
        <3>1. leak[j] = Gone
            BY <2>5 DEF OwnInv
        <3>2. DOMAIN worktree' = DOMAIN worktree /\ \A p \in DOMAIN worktree : worktree'[p] = worktree[p]
            BY <2>3, <3>1 DEF OwnInv, Restrict
        <3>3. \A i \in Jobs : job'[i].pc \in InTree => Owns(i)'
            BY <2>1, <2>2, <3>2 DEF OwnInv, Alone, Owns, Present
        <3>4. ~Overlap => \A i \in Jobs : job'[i].pc # "idle" => i = j
            BY <1>2, <2>1 DEF Start, AllIdle, Alone
        <3> QED  BY <2>4, <3>3, <3>4 DEF OwnInv
    <2>6. CASE ~Overlap
        <3>1. \A i \in Jobs : job'[i].pc # "idle" => i = j
            BY <1>2, <2>1, <2>6 DEF Start, AllIdle, Alone
        <3> QED  BY <1>1, <2>2, <2>4, <3>1 DEF OwnInv
    <2> QED  BY <2>5, <2>6
<1>3. ASSUME NEW j \in Jobs, Kill(j) PROVE OwnInv'
    <2>1. MaxKills # 0 /\ ~Overlap
        BY <1>3, ActorsAssumption DEF Kill, Typed, CountTyped
    <2>2. Alone(j) /\ job'[j].pc = "idle" /\ UNCHANGED worktree
        BY <1>1, <1>3, MovesAlone DEF Kill
    <2>3. \A i \in Jobs : job'[i].pc \in InTree => Owns(i)'
        BY <1>1, <2>2 DEF OwnInv, Alone, Owns, Present
    <2> QED  BY <2>1, <2>2, <2>3 DEF OwnInv, Alone
<1>4. ASSUME NEW j \in Jobs, CheckStep(j) PROVE OwnInv'
    <2>1. job[j].pc # "idle"
        BY <1>4 DEF CheckStep, CheckClean, CheckFetch, AddWorktree, RebaseTree, Gates, TestTree,
                    WriteRecord, Cleanup, At
    <2>2. CASE CheckClean(j) \/ CheckFetch(j)
        <3>1. Alone(j) /\ job'[j].pc \notin InTree
            <4>1. CASE (\E rc : Return(j, rc)) \/ Goto(j, "addWorktree")
                BY <1>1, <4>1, MovesAlone DEF InTree, InWorktree, Idle
            <4>2. CASE job' = [job EXCEPT ![j].feature = head,
                                  ![j].pc = IF HasOrigin THEN "fetch" ELSE "addWorktree"]
                BY <1>1, <4>2 DEF Alone, JobRecords
            <4> QED  BY <2>2, <4>1, <4>2 DEF CheckClean, CheckFetch
        <3>2. UNCHANGED <<worktree, leak>>
            BY <2>2 DEF CheckClean, CheckFetch, runVars
        <3> QED  BY <2>1, <3>1, <3>2, OwnFrame
    <2>3. CASE AddWorktree(j)
        <3>1. CASE Return(j, GitCode) /\ UNCHANGED worktree
            <4>1. Alone(j) /\ job'[j].pc \notin InTree
                BY <1>1, <3>1, MovesAlone DEF InTree, InWorktree, Idle
            <4> QED  BY <2>1, <2>3, <3>1, <4>1, OwnFrame DEF AddWorktree
        <3>2. CASE ~(Return(j, GitCode) /\ UNCHANGED worktree)
            <4> DEFINE tree == [owner |-> j, head |-> branch[job[j].feature]]
            <4>1. /\ branch[head] \notin DOMAIN worktree
                  /\ worktree' = With(worktree, branch[head], tree)
                  /\ job' = [job EXCEPT ![j].path = branch[head],
                                ![j].pc = IF tracking = Gone THEN "test" ELSE "rebaseTree"]
                  /\ UNCHANGED leak
                BY <2>3, <3>2 DEF AddWorktree
            <4>2. tree.owner = j /\ branch[head] # Gone
                BY DEF Typed, GitTyped
            <4> HIDE DEF tree
            <4>3. Alone(j) /\ job'[j].path = branch[head] /\ job'[j].pc # "idle"
                BY <1>1, <4>1 DEF Alone, JobRecords
            <4>4. \A p \in DOMAIN worktree : p \in DOMAIN worktree' /\ worktree'[p] = worktree[p]
                BY <4>1 DEF With
            <4>5. branch[head] \in DOMAIN worktree' /\ worktree'[branch[head]] = tree
                BY <4>1 DEF With
            <4>6. \A i \in Jobs : job'[i].pc \in InTree => Owns(i)'
                BY <4>2, <4>3, <4>4, <4>5 DEF OwnInv, Alone, Owns, Present
            <4>7. Gone \notin DOMAIN worktree'
                BY <4>1, <4>2 DEF With, OwnInv
            <4>8. \A i \in Jobs : job'[i].pc # "idle" => job[i].pc # "idle"
                BY <2>1, <4>3 DEF Alone
            <4> QED  BY <4>1, <4>6, <4>7, <4>8 DEF OwnInv
        <3> QED  BY <3>1, <3>2
    <2>4. CASE RebaseTree(j)
        <3>1. Alone(j) /\ job'[j].path = job[j].path /\ job'[j].pc # "idle" /\ job[j].pc \in InTree
            BY <1>1, <2>4, MovesAlone DEF RebaseTree, At, SameRun, InTree, InWorktree
        <3>2. CASE UNCHANGED worktree
            BY <2>1, <2>4, <3>1, <3>2, OwnFrame DEF RebaseTree
        <3>3. CASE worktree' = [worktree EXCEPT ![job[j].path].head = Rebased(@, tracking)]
            <4>1. /\ DOMAIN worktree' = DOMAIN worktree
                  /\ \A p \in DOMAIN worktree : worktree'[p].owner = worktree[p].owner
                BY <3>3 DEF Typed, RunTyped, Trees
            <4>2. \A i \in Jobs : job'[i].pc \in InTree => Owns(i)'
                BY <3>1, <4>1 DEF OwnInv, Alone, Owns, Present
            <4>3. UNCHANGED leak /\ \A i \in Jobs : job'[i].pc # "idle" => job[i].pc # "idle"
                BY <2>1, <2>4, <3>1 DEF RebaseTree, Alone
            <4> QED  BY <4>1, <4>2, <4>3 DEF OwnInv
        <3> QED  BY <2>4, <3>2, <3>3 DEF RebaseTree
    <2>5. CASE Gates(j) \/ TestTree(j) \/ WriteRecord(j)
        <3>1. Alone(j) /\ job'[j].path = job[j].path /\ job[j].pc \in InTree
            <4>1. CASE Gates(j) \/ TestTree(j)
                BY <4>1, MovesAlone DEF Gates, TestTree, At, SameRun, InTree, InWorktree
            <4>2. CASE WriteRecord(j)
                BY <1>1, <4>2 DEF WriteRecord, At, Alone, JobRecords, InTree, InWorktree
            <4> QED  BY <2>5, <4>1, <4>2
        <3>2. UNCHANGED <<worktree, leak>>
            BY <2>5 DEF Gates, TestTree, WriteRecord, runVars
        <3> QED  BY <2>1, <3>1, <3>2, OwnFrame
    <2>6. CASE Cleanup(j)
        <3>1. Alone(j) /\ job'[j].pc \in {"idle", "identify"}
            BY <1>1, <2>6, MovesAlone DEF Cleanup
        <3>2. job'[j].pc \notin InTree /\ job[j].pc \in InTree
            BY <2>6, <3>1 DEF Cleanup, At, InTree, InWorktree
        <3>3. worktree' = Restrict(worktree, DOMAIN worktree \ {job[j].path}) /\ UNCHANGED leak
            BY <2>6 DEF Cleanup
        <3>4. \A i \in Jobs : job'[i].pc \in InTree => Owns(i)'
            BY <3>1, <3>2, <3>3 DEF OwnInv, Alone, Owns, Present, Restrict
        <3>5. \A i \in Jobs : job'[i].pc # "idle" => job[i].pc # "idle"
            BY <2>1, <3>1 DEF Alone
        <3> QED  BY <3>3, <3>4, <3>5 DEF OwnInv, Restrict
    <2> QED  BY <1>4, <2>2, <2>3, <2>4, <2>5, <2>6 DEF CheckStep
<1>5. ASSUME NEW j \in Jobs, MergeStep(j) PROVE OwnInv'
    <2>1. job[j].pc # "idle" /\ UNCHANGED <<worktree, leak>>
        BY <1>5 DEF MergeStep, Preflight, Recheck, Identify, FetchTrunk, Rebase, FastForward, Tag,
                    Push, DeleteLocal, DeleteRemote, At, runVars
    <2>2. Alone(j) /\ job'[j].pc \notin InTree
        <3>1. MergeStates \cup {"idle", "clean"} \subseteq PCs \ InTree
            BY <1>1 DEF PCs, CheckStates
        <3>2. ASSUME NEW pc \in MergeStates \cup {"clean"}, Goto(j, pc)
              PROVE  Alone(j) /\ job'[j].pc \notin InTree
            BY <3>1, <3>2, MovesAlone
        <3>3. ASSUME Finish(j) PROVE Alone(j) /\ job'[j].pc \notin InTree
            BY <1>1, <3>3, MovesAlone
        <3>4. CASE Preflight(j)
            BY <1>1, <3>3, <3>4 DEF Preflight, Alone, JobRecords, MergeStates
        <3>5. CASE Identify(j)
            BY <1>1, <3>3, <3>5 DEF Identify, Alone, JobRecords, MergeStates
        <3>6. CASE ~Preflight(j) /\ ~Identify(j)
            <4>1. Finish(j) \/ \E pc \in MergeStates \cup {"clean"} : Goto(j, pc)
                BY <1>5, <3>6 DEF MergeStep, Recheck, FetchTrunk, Rebase, FastForward, Tag, Push,
                                  DeleteLocal, DeleteRemote, MergeStates
            <4> QED  BY <3>2, <3>3, <4>1
        <3> QED  BY <3>4, <3>5, <3>6
    <2> QED  BY <2>1, <2>2, OwnFrame
<1>6. ASSUME UNCHANGED <<worktree, leak, job>> PROVE OwnInv'
    BY <1>6 DEF OwnInv, Owns, Present
<1>7. ASSUME DevStep \/ (\E c \in TeamChanges : TeamPush(c)) PROVE UNCHANGED <<worktree, leak, job>>
    BY <1>7 DEF DevStep, Edit, DevFetch, DevRebase, Commit, Switch, TeamPush, runVars
<1>8. ASSUME UNCHANGED vars PROVE UNCHANGED <<worktree, leak, job>>
    BY <1>8 DEF vars, runVars
<1> QED  BY <1>2, <1>3, <1>4, <1>5, <1>6, <1>7, <1>8 DEF Next

\* A check works in its own worktree (_worktree.py, check.py) if no vessel is
\* killed, however a check and a merge of one commit overlap, and if the two do
\* not overlap, however many are killed.
THEOREM WorktreeIsOwn ==
    ASSUME MaxKills = 0 \/ ~Overlap
    PROVE  Spec => []OwnWorktree
<1>1. Init => OwnInv
    <2> SUFFICES ASSUME Init PROVE OwnInv  OBVIOUS
    <2>1. \A j \in Jobs : job[j].pc = "idle" /\ leak[j] = Gone
        BY DEF Init, Idle
    <2>2. DOMAIN << >> = {}
        OBVIOUS
    <2>3. DOMAIN worktree = {}
        BY <2>2 DEF Init
    <2> QED  BY <2>1, <2>3 DEF OwnInv, InTree, InWorktree
<1>2. Typed /\ PushTagged /\ OwnInv /\ [Next]_vars => OwnInv'
    BY OwnStep
<1>3. OwnInv => OwnWorktree
    BY DEF OwnInv, OwnWorktree, InTree, Owns
<1> QED  BY <1>1, <1>2, <1>3, TypedAlways, PTL DEF Spec

----------------------------------------------------------------------------
(* The developer's commits.                                                *)

\* Until the branch that a merge has merged is deleted, main has all of it and
\* stays checked out: what the developer commits meanwhile lands on main.
MergedIsOnMain ==
    job["merge"].pc \in {"tag", "push", "deleteLocal"} =>
        head = "main" /\ ToSet(branch[job["merge"].feature]) \subseteq ToSet(branch["main"])
KeepInv == NoCommitLost /\ MergedIsOnMain

\* No branch, here or on origin, loses a change.
Grows ==
    /\ ToSet(origin.main) \subseteq ToSet(origin'.main)
    /\ \A b \in Branches : ToSet(branch[b]) \subseteq ToSet(branch'[b])

LEMMA GrowsKeeps ==
    ASSUME NoCommitLost, Grows, UNCHANGED made
    PROVE  NoCommitLost'
BY DEF NoCommitLost, Grows

LEMMA KeepFrame ==
    ASSUME KeepInv, UNCHANGED <<origin.main, branch, head, made>>,
           \/ job'["merge"].pc \notin {"tag", "push", "deleteLocal"}
           \/ /\ job["merge"].pc \in {"tag", "push", "deleteLocal"}
              /\ job'["merge"].feature = job["merge"].feature
    PROVE  KeepInv'
<1>1. Grows /\ UNCHANGED made
    BY DEF Grows
<1> QED  BY <1>1, GrowsKeeps DEF KeepInv, MergedIsOnMain

LEMMA KeepCheck ==
    ASSUME Typed, KeepInv, NEW j \in Jobs, CheckStep(j) \/ Start(j) \/ Kill(j)
    PROVE  KeepInv'
<1>1. UNCHANGED <<origin.main, branch, head, made>>
    BY DEF CheckStep, CheckClean, CheckFetch, AddWorktree, RebaseTree, Gates, TestTree, WriteRecord,
           Cleanup, Start, Kill, gitVars, ghosts
<1>2. /\ job \in [Jobs -> JobRecords] /\ "merge" \in Jobs
      /\ job[j].pc \notin {"tag", "push", "deleteLocal"} \/ Kill(j)
    BY DEF Typed, JobTyped, Jobs, CheckStep, CheckClean, CheckFetch, AddWorktree, RebaseTree, Gates,
           TestTree, WriteRecord, Cleanup, Start, At
<1>3. Alone(j) /\ job'[j].pc \notin {"tag", "push", "deleteLocal"}
    <2>1. ASSUME Finish(j) \/ (\E code : FailCheck(j, code)) \/ \E rc : Return(j, rc)
          PROVE  Alone(j) /\ job'[j].pc \notin {"tag", "push", "deleteLocal"}
        BY <2>1, MovesAlone DEF Idle
    <2>2. ASSUME NEW pc, Goto(j, pc), pc \notin {"tag", "push", "deleteLocal"}
          PROVE  Alone(j) /\ job'[j].pc \notin {"tag", "push", "deleteLocal"}
        BY <2>2, MovesAlone
    <2>3. CASE Start(j)
        BY <1>2, <2>3 DEF Start, Alone, Idle, JobRecords
    <2>4. CASE Kill(j)
        BY <2>1, <2>4 DEF Kill
    <2>5. CASE CheckClean(j)
        BY <1>2, <2>1, <2>5 DEF CheckClean, Alone, JobRecords
    <2>6. CASE CheckFetch(j)
        BY <2>1, <2>2, <2>6 DEF CheckFetch
    <2>7. CASE AddWorktree(j)
        BY <1>2, <2>1, <2>7 DEF AddWorktree, Alone, JobRecords
    <2>8. CASE RebaseTree(j) \/ Gates(j) \/ TestTree(j) \/ Cleanup(j)
        BY <2>1, <2>2, <2>8 DEF RebaseTree, Gates, TestTree, Cleanup
    <2>9. CASE WriteRecord(j)
        BY <1>2, <2>1, <2>9 DEF WriteRecord, Alone, JobRecords
    <2> QED  BY <2>3, <2>4, <2>5, <2>6, <2>7, <2>8, <2>9 DEF CheckStep
<1>4. \/ job'["merge"].pc \notin {"tag", "push", "deleteLocal"}
      \/ job'["merge"] = job["merge"]
    BY <1>2, <1>3 DEF Alone
<1> QED  BY <1>1, <1>4, KeepFrame

LEMMA KeepMerge ==
    ASSUME Typed, KeepInv, NEW j \in Jobs, MergeStep(j)
    PROVE  KeepInv'
<1>1. j = "merge" /\ (job[j].pc \in Merging => job[j].feature # "main")
    BY OnlyMerge DEF Typed, MergeStep, Preflight, Recheck, Identify, FetchTrunk, Rebase, FastForward,
                     Tag, Push, DeleteLocal, DeleteRemote, At, MergeStates
<1>2. /\ job \in [Jobs -> JobRecords] /\ "merge" \in Jobs /\ "main" \in Branches
      /\ job[j].feature \in Branches /\ branch \in [Branches -> Histories]
      /\ branch[head] \in Histories /\ origin.main \in Histories /\ tracking \in Histories
      /\ head \in Branches /\ DOMAIN origin = {"main", "tags", "features"}
    BY <1>1 DEF Typed, JobTyped, GitTyped, JobRecords, Jobs, Branches
<1>3. ASSUME NEW pc, Goto(j, pc) PROVE job'["merge"].pc = pc /\ job'["merge"].feature = job["merge"].feature
    BY <1>1, <1>3, MovesAlone DEF SameRun
<1>4. Finish(j) => job'["merge"].pc = "idle"
    BY <1>1, MovesAlone DEF Idle
<1>5. CASE Preflight(j) \/ Recheck(j) \/ Identify(j) \/ FetchTrunk(j)
    <2>1. job'["merge"].pc \notin {"tag", "push", "deleteLocal"}
        BY <1>1, <1>2, <1>3, <1>4, <1>5 DEF Preflight, Recheck, Identify, FetchTrunk, JobRecords
    <2>2. UNCHANGED <<origin.main, branch, head, made>>
        BY <1>5 DEF Preflight, Recheck, Identify, FetchTrunk, gitVars, ghosts
    <2> QED  BY <2>1, <2>2, KeepFrame
<1>6. CASE Rebase(j)
    <2> DEFINE onto == IF HasOrigin THEN tracking ELSE branch["main"]
    <2>1. onto \in Histories
        BY <1>2
    <2>2. ToSet(branch[head]) \subseteq ToSet(Rebased(branch[head], onto))
        <3> HIDE DEF onto
        <3> QED  BY <1>2, <2>1, RebasedFacts
    <2>3. Grows /\ UNCHANGED made
        BY <1>2, <1>6, <2>2 DEF Rebase, Grows, ghosts
    <2>4. job'["merge"].pc \notin {"tag", "push", "deleteLocal"}
        BY <1>3, <1>4, <1>6 DEF Rebase
    <2> QED  BY <2>3, <2>4, GrowsKeeps DEF KeepInv, MergedIsOnMain
<1>7. CASE FastForward(j)
    <2>1. CASE UNCHANGED branch /\ Finish(j)
        <3>1. Grows /\ UNCHANGED made
            BY <1>7, <2>1 DEF FastForward, Grows, ghosts
        <3> QED  BY <1>4, <2>1, <3>1, GrowsKeeps DEF KeepInv, MergedIsOnMain
    <2>2. CASE ~(UNCHANGED branch /\ Finish(j))
        <3>1. /\ IsPrefix(branch["main"], branch[job[j].feature])
              /\ branch' = [branch EXCEPT !["main"] = branch[job[j].feature]]
              /\ Goto(j, "tag") /\ head' = "main" /\ UNCHANGED <<origin, made>>
            BY <1>7, <2>2 DEF FastForward, ghosts
        <3>2. ToSet(branch["main"]) \subseteq ToSet(branch[job[j].feature])
            BY <1>2, <3>1, PrefixFacts
        <3>3. Grows
            BY <1>2, <3>1, <3>2 DEF Grows
        <3>4. job'["merge"].feature = job["merge"].feature
            BY <1>3, <3>1
        <3>5. MergedIsOnMain'
            BY <1>1, <1>2, <3>1, <3>4 DEF MergedIsOnMain
        <3> QED  BY <3>1, <3>3, <3>5, GrowsKeeps DEF KeepInv
    <2> QED  BY <2>1, <2>2
<1>8. CASE Tag(j)
    <2>1. job'["merge"].pc = "idle" \/ job'["merge"].feature = job["merge"].feature
        BY <1>3, <1>4, <1>8 DEF Tag
    <2>2. job["merge"].pc = "tag"
        BY <1>1, <1>8 DEF Tag, At
    <2>3. UNCHANGED <<origin.main, branch, head, made>>
        BY <1>8 DEF Tag
    <2> QED  BY <2>1, <2>2, <2>3, KeepFrame
<1>9. CASE Push(j)
    <2>1. job'["merge"].pc = "idle" \/ job'["merge"].feature = job["merge"].feature
        BY <1>3, <1>4, <1>9 DEF Push
    <2>2. job["merge"].pc = "push"
        BY <1>1, <1>9 DEF Push, At
    <2>3. UNCHANGED <<branch, head, made>>
        BY <1>9 DEF Push
    <2>4. \/ origin'.main = origin.main
          \/ IsPrefix(origin.main, branch["main"]) /\ origin'.main = branch["main"]
        BY <1>2, <1>9 DEF Push
    <2>5. Grows
        BY <1>2, <2>3, <2>4, PrefixFacts DEF Grows
    <2> QED  BY <2>1, <2>2, <2>3, <2>5, GrowsKeeps DEF KeepInv, MergedIsOnMain
<1>10. CASE DeleteLocal(j)
    <2>1. job'["merge"].pc \notin {"tag", "push", "deleteLocal"}
        BY <1>3, <1>4, <1>10 DEF DeleteLocal
    <2>2. ToSet(branch[job[j].feature]) \subseteq ToSet(branch["main"]) /\ job[j].feature # "main"
        BY <1>1, <1>10 DEF DeleteLocal, At, KeepInv, MergedIsOnMain, Merging
    <2>3. branch'["main"] = branch["main"] /\ \A b \in Branches \ {job[j].feature} : branch'[b] = branch[b]
        BY <1>2, <1>10, <2>2 DEF DeleteLocal
    <2>4. UNCHANGED <<origin, made>>
        BY <1>10 DEF DeleteLocal, ghosts
    <2>5. \A b \in Branches : \E c \in Branches : ToSet(branch[b]) \subseteq ToSet(branch'[c])
        BY <1>2, <2>2, <2>3
    <2>6. NoCommitLost'
        BY <2>4, <2>5 DEF KeepInv, NoCommitLost
    <2> QED  BY <2>1, <2>6 DEF KeepInv, MergedIsOnMain
<1>11. CASE DeleteRemote(j)
    <2>1. job'["merge"].pc \notin {"tag", "push", "deleteLocal"}
        BY <1>4, <1>11 DEF DeleteRemote
    <2>2. UNCHANGED <<origin.main, branch, head, made>>
        BY <1>11 DEF DeleteRemote, ghosts, Typed, GitTyped
    <2> QED  BY <2>1, <2>2, KeepFrame
<1> QED  BY <1>5, <1>6, <1>7, <1>8, <1>9, <1>10, <1>11 DEF MergeStep

LEMMA KeepOthers ==
    ASSUME "switch" \notin DevBusy, Typed, KeepInv,
           DevStep \/ \E c \in TeamChanges : TeamPush(c)
    PROVE  KeepInv'
<1>1. /\ job \in [Jobs -> JobRecords] /\ "merge" \in Jobs /\ "main" \in Branches
      /\ branch \in [Branches -> Histories] /\ branch[head] \in Histories
      /\ origin.main \in Histories /\ tracking \in Histories /\ head \in Branches
      /\ DOMAIN origin = {"main", "tags", "features"}
    BY DEF Typed, JobTyped, GitTyped, Jobs, Branches
<1>2. UNCHANGED job
    BY DEF DevStep, Edit, DevFetch, DevRebase, Commit, Switch, TeamPush
<1>3. AllIdle => ~(job["merge"].pc \in {"tag", "push", "deleteLocal"})
    BY <1>1 DEF AllIdle
<1>4. CASE Edit \/ DevFetch
    <2>1. UNCHANGED <<origin.main, branch, head, made>>
        BY <1>4 DEF Edit, DevFetch, ghosts
    <2> QED  BY <1>2, <2>1, KeepFrame
<1>5. CASE DevRebase
    <2>1. ToSet(branch[head]) \subseteq ToSet(Rebased(branch[head], tracking))
        BY <1>1, RebasedFacts
    <2>2. Grows /\ UNCHANGED made /\ AllIdle
        BY <1>1, <1>5, <2>1 DEF DevRebase, Grows, ghosts
    <2> QED  BY <1>2, <1>3, <2>2, GrowsKeeps DEF KeepInv, MergedIsOnMain
<1>6. ASSUME NEW c \in FixUps, Commit(c) PROVE KeepInv'
    <2> DEFINE new == Append(branch[head], c)
    <2>1. ToSet(new) = ToSet(branch[head]) \cup {c}
        BY <1>1, ActorsAssumption, AppendFacts
    <2>2. /\ branch' = [branch EXCEPT ![head] = new] /\ made' = made \cup {c}
          /\ UNCHANGED <<origin, head>>
        BY <1>6 DEF Commit
    <2> HIDE DEF new
    <2>3. \A b \in Branches : ToSet(branch[b]) \subseteq ToSet(branch'[b])
        BY <1>1, <2>1, <2>2
    <2>4. c \in ToSet(branch'[head])
        BY <1>1, <2>1, <2>2
    <2>5. NoCommitLost'
        BY <1>1, <2>2, <2>3, <2>4 DEF KeepInv, NoCommitLost
    <2>6. ASSUME job["merge"].pc \in {"tag", "push", "deleteLocal"}
          PROVE  ToSet(branch'[job["merge"].feature]) \subseteq ToSet(branch'["main"])
        <3>1. head = "main" /\ ToSet(branch[job["merge"].feature]) \subseteq ToSet(branch["main"])
            BY <2>6 DEF KeepInv, MergedIsOnMain
        <3>2. job["merge"].feature # "main" /\ job["merge"].feature \in Branches
            BY <1>1, <2>6 DEF Typed, JobTyped, Merging, JobRecords
        <3>3. branch'[job["merge"].feature] = branch[job["merge"].feature]
            BY <1>1, <2>2, <3>1, <3>2
        <3> QED  BY <1>1, <2>3, <3>1, <3>3
    <2> QED  BY <1>2, <2>2, <2>5, <2>6 DEF KeepInv, MergedIsOnMain
<1>7. ASSUME NEW b \in Branches, Switch(b) PROVE KeepInv'
    <2>1. Grows /\ UNCHANGED made /\ AllIdle
        BY <1>7 DEF Switch, Grows, ghosts, DevMay
    <2> QED  BY <1>2, <1>3, <2>1, GrowsKeeps DEF KeepInv, MergedIsOnMain
<1>8. ASSUME NEW c \in TeamChanges, TeamPush(c) PROVE KeepInv'
    <2>1. ToSet(origin.main) \subseteq ToSet(Append(origin.main, c))
        BY <1>1, ActorsAssumption, AppendFacts
    <2>2. origin'.main = Append(origin.main, c) /\ UNCHANGED <<branch, head, made>>
        BY <1>1, <1>8 DEF TeamPush, ghosts
    <2>3. Grows
        BY <2>1, <2>2 DEF Grows
    <2> QED  BY <1>2, <2>2, <2>3, GrowsKeeps DEF KeepInv, MergedIsOnMain
<1> QED  BY <1>4, <1>5, <1>6, <1>7, <1>8 DEF DevStep

\* merge deletes the merged branch by force (merge.py), yet whatever changes
\* there are, and whoever commits, pushes or checks meanwhile, no commit is lost,
\* as long as the developer leaves the checkout of a running merge alone.
THEOREM CommitsAreKept ==
    ASSUME "switch" \notin DevBusy
    PROVE  Spec => []NoCommitLost
<1>1. Init => KeepInv
    <2> SUFFICES ASSUME Init PROVE KeepInv  OBVIOUS
    <2>1. job["merge"].pc = "idle"
        BY DEF Init, Idle, Jobs
    <2>2. \A f \in Features : f \in Branches /\ branch[f] = FeatureStart[f]
        BY ActorsAssumption DEF Init, Branches
    <2>3. made = UNION {ToSet(FeatureStart[f]) : f \in Features}
        BY DEF Init
    <2> QED  BY <2>1, <2>2, <2>3 DEF KeepInv, NoCommitLost, MergedIsOnMain
<1>2. Typed /\ KeepInv /\ [Next]_vars => KeepInv'
    <2> SUFFICES ASSUME Typed, KeepInv, [Next]_vars PROVE KeepInv'  OBVIOUS
    <2>1. CASE UNCHANGED vars
        BY <2>1, KeepFrame DEF vars, gitVars, ghosts
    <2> QED  BY <2>1, KeepCheck, KeepMerge, KeepOthers DEF Next
<1>3. KeepInv => NoCommitLost
    BY DEF KeepInv
<1> QED  BY <1>1, <1>2, <1>3, TypedAlways, PTL DEF Spec

----------------------------------------------------------------------------
(* What a merge publishes, when the clone and its origin are left alone    *)
(* while a job runs, but for a fetch.                                      *)

BeforeRebase == {"preflight", "recheck", "identify", "fetchTrunk", "rebase"} \cup CheckStates
Identified == {"fetch", "addWorktree", "fetchTrunk", "rebase", "fastForward"} \cup InWorktree

\* The rebased branch is a tree that a check went green on, and raises the version.
Green(h) == /\ Rebased(h, origin.main) \in tested
            /\ VersionOf(Rebased(h, origin.main)) > VersionOf(origin.main)
\* A checked tree on top of the trunk, of the version that the job read.
Ready(j, h) == /\ h \in tested /\ IsPrefix(origin.main, h)
               /\ VersionOf(h) = job[j].version /\ job[j].version > VersionOf(origin.main)

RecordChecked ==
    record # NoRecord =>
        /\ record.tree \in tested
        /\ record.tree = Rebased(record.tip, record.trunk)
        /\ VersionOf(record.tree) > VersionOf(record.trunk)
TagsOnTrunk ==
    \A v \in DOMAIN origin.tags : /\ VersionOf(origin.tags[v]) = v
                                  /\ IsPrefix(origin.tags[v], origin.main)
OneJob == \A j, k \in Jobs : ~At(j, "idle") /\ ~At(k, "idle") => j = k

RefsRead(j) ==
    /\ job[j].pc \in BeforeRebase => job[j].version = VersionOf(branch[head])
    /\ job[j].pc \in Identified => job[j].feature = head
    /\ job[j].pc \in {"addWorktree", "rebase"} \cup InWorktree => tracking = origin.main
    /\ At(j, "recheck") => job[j].trunk = origin.main
TreeBuilt(j) ==
    /\ job[j].pc \in InWorktree => Present(j)
    /\ Present(j) =>
        /\ At(j, "rebaseTree") => Tree(j) = branch[head]
        /\ job[j].pc \in {"gates", "test", "record"} => Tree(j) = Rebased(branch[head], origin.main)
        /\ job[j].pc \in {"test", "record"} => VersionOf(Tree(j)) > VersionOf(origin.main)
        /\ At(j, "record") => Tree(j) \in tested
WayToTrunk(j) ==
    /\ job[j].pc \in {"identify", "fetchTrunk", "rebase"} \/ (At(j, "cleanup") /\ job[j].rc = 0)
           => Green(branch[head])
    /\ At(j, "fastForward") => Ready(j, branch[job[j].feature])
    /\ job[j].pc \in {"tag", "push"} => Ready(j, branch["main"])
    /\ At(j, "push") => job[j].version \in DOMAIN tags /\ tags[job[j].version] = branch["main"]

JobInv(j) == RefsRead(j) /\ TreeBuilt(j) /\ WayToTrunk(j)
PublishInv ==
    /\ RecordChecked /\ TagsOnTrunk /\ released \subseteq tested
    /\ OneJob /\ \A j \in Jobs : JobInv(j)


\* An idle job has nothing to show, and one job moves while the other is idle.
LEMMA NothingToShow ==
    ASSUME NEW j
    PROVE  /\ At(j, "idle") => JobInv(j)
           /\ job'[j].pc = "idle" => JobInv(j)'
BY DEF At, JobInv, RefsRead, TreeBuilt, WayToTrunk, BeforeRebase, Identified, CheckStates, InWorktree

LEMMA OneMoves ==
    ASSUME PublishInv, NEW j \in Jobs, ~At(j, "idle"), Alone(j), JobInv(j)'
    PROVE  OneJob' /\ \A k \in Jobs : JobInv(k)'
<1>1. \A k \in Jobs \ {j} : job'[k].pc = "idle"
    BY DEF PublishInv, OneJob, Alone, At
<1>2. \A k \in Jobs : JobInv(k)'
    <2> TAKE k \in Jobs
    <2> QED  BY <1>1, NothingToShow
<1>3. OneJob'
    BY <1>1 DEF OneJob, At
<1> QED  BY <1>2, <1>3

LEMMA StillTrue ==
    ASSUME PublishInv, UNCHANGED <<origin.main, origin.tags, released>>, tested \subseteq tested'
    PROVE  /\ UNCHANGED record => RecordChecked'
           /\ TagsOnTrunk' /\ released' \subseteq tested'
BY DEF PublishInv, RecordChecked, TagsOnTrunk

LEMMA JobWorks ==
    ASSUME PublishInv, NEW j \in Jobs, ~At(j, "idle"), Alone(j), JobInv(j)',
           UNCHANGED <<origin.main, origin.tags, released, record>>, tested \subseteq tested'
    PROVE  PublishInv'
BY OneMoves, StillTrue DEF PublishInv

LEMMA JobEnds ==
    ASSUME PublishInv, NEW j \in Jobs, ~At(j, "idle"), Alone(j), job'[j] = Idle,
           UNCHANGED <<origin.main, origin.tags, released, record>>, tested \subseteq tested'
    PROVE  PublishInv'
BY JobWorks, NothingToShow DEF Idle

\* A check works on the tree of the branch that is checked out.
LEMMA PublishCheck ==
    ASSUME Quiet, Typed, PublishInv, NEW j \in Jobs, CheckStep(j)
    PROVE  PublishInv'
<1>1. /\ JobInv(j) /\ ~At(j, "idle")
      /\ job \in [Jobs -> JobRecords] /\ branch[head] \in Histories
      /\ origin.main \in Histories /\ origin.main # Gone
    BY DEF PublishInv, Typed, JobTyped, GitTyped, CheckStep, CheckClean, CheckFetch, AddWorktree,
           RebaseTree, Gates, TestTree, WriteRecord, Cleanup, At
<1>2. /\ UNCHANGED <<origin.main, origin.tags, branch, head, released>> /\ tested \subseteq tested'
      /\ WriteRecord(j) \/ UNCHANGED record
    BY DEF CheckStep, CheckClean, CheckFetch, AddWorktree, RebaseTree, Gates, TestTree, WriteRecord,
           Cleanup, gitVars, runVars, ghosts
<1>3. ASSUME NEW rc \in {1, GitCode}, Return(j, rc), UNCHANGED record PROVE PublishInv'
    <2>1. Alone(j) /\ job'[j] = Idle
        BY <1>3, MovesAlone DEF Return, GitCode
    <2> QED  BY <1>1, <1>2, <1>3, <2>1, JobEnds
<1>4. ASSUME NEW code \in {1, GitCode}, FailCheck(j, code), job[j].pc \in InWorktree, UNCHANGED record PROVE PublishInv'
    <2>1. /\ job'[j].pc = "cleanup" /\ job'[j].rc # 0 /\ job'[j].version = job[j].version
          /\ Alone(j)
        BY <1>4, MovesAlone DEF SameRun, GitCode
    <2>2. RefsRead(j)'
        BY <1>1, <1>2, <1>4, <2>1
           DEF JobInv, RefsRead, At, BeforeRebase, Identified, CheckStates, InWorktree
    <2>3. TreeBuilt(j)' /\ WayToTrunk(j)'
        BY <2>1 DEF TreeBuilt, WayToTrunk, At, InWorktree
    <2> QED  BY <1>1, <1>2, <1>4, <2>1, <2>2, <2>3, JobWorks DEF JobInv
<1>5. ASSUME NEW pc, Goto(j, pc)
      PROVE  job'[j].pc = pc /\ SameRun(j) /\ Alone(j)
    BY <1>5, MovesAlone
<1>6. CASE CheckClean(j)
    <2>1. CASE Return(j, 1)
        BY <1>3, <1>6, <2>1 DEF CheckClean, runVars
    <2>2. CASE job' = [job EXCEPT ![j].feature = head,
                          ![j].pc = IF HasOrigin THEN "fetch" ELSE "addWorktree"]
        <3>1. /\ job'[j].feature = head /\ job'[j].pc = "fetch"
              /\ job'[j].version = job[j].version /\ Alone(j)
            BY <1>1, <2>2 DEF JobRecords, Alone, Quiet
        <3>2. job[j].pc = "clean"
            BY <1>6 DEF CheckClean, At
        <3>3. RefsRead(j)'
            BY <1>1, <1>2, <3>1, <3>2
               DEF JobInv, RefsRead, At, BeforeRebase, Identified, CheckStates, InWorktree
        <3>4. TreeBuilt(j)' /\ WayToTrunk(j)'
            BY <3>1 DEF TreeBuilt, WayToTrunk, At, InWorktree
        <3> QED  BY <1>1, <1>2, <1>6, <3>1, <3>3, <3>4, JobWorks DEF CheckClean, runVars, JobInv
    <2> QED  BY <1>6, <2>1, <2>2 DEF CheckClean
<1>7. CASE CheckFetch(j)
    <2>1. CASE Return(j, GitCode)
        BY <1>3, <1>7, <2>1 DEF CheckFetch, runVars
    <2>2. CASE tracking' = origin.main /\ Goto(j, "addWorktree")
        <3>1. job[j].pc = "fetch" /\ job'[j].pc = "addWorktree" /\ SameRun(j) /\ Alone(j)
            BY <1>5, <1>7, <2>2 DEF CheckFetch, At
        <3>2. RefsRead(j)'
            BY <1>1, <1>2, <2>2, <3>1
               DEF JobInv, RefsRead, At, SameRun, BeforeRebase, Identified, CheckStates, InWorktree
        <3>3. TreeBuilt(j)' /\ WayToTrunk(j)'
            BY <3>1 DEF TreeBuilt, WayToTrunk, At, InWorktree
        <3> QED  BY <1>1, <1>2, <1>7, <3>1, <3>2, <3>3, JobWorks DEF CheckFetch, runVars, JobInv
    <2> QED  BY <1>7, <2>1, <2>2 DEF CheckFetch
<1>8. CASE AddWorktree(j)
    <2>1. CASE Return(j, GitCode)
        BY <1>3, <1>8, <2>1 DEF AddWorktree
    <2>2. CASE ~Return(j, GitCode)
        <3>1. /\ job[j].pc = "addWorktree" /\ branch[head] \notin DOMAIN worktree
              /\ worktree' = With(worktree, branch[head],
                                  [owner |-> j, head |-> branch[job[j].feature]])
              /\ job' = [job EXCEPT ![j].path = branch[head],
                            ![j].pc = IF tracking = Gone THEN "test" ELSE "rebaseTree"]
            BY <1>8, <2>2 DEF AddWorktree, At
        <3>2. job[j].feature = head /\ tracking = origin.main
            BY <1>1, <3>1 DEF JobInv, RefsRead, Identified
        <3>3. /\ job'[j].pc = "rebaseTree" /\ job'[j].path = branch[head] /\ Alone(j)
              /\ job'[j].version = job[j].version /\ job'[j].feature = head
            BY <1>1, <3>1, <3>2 DEF JobRecords, Alone
        <3>4. worktree'[branch[head]].head = branch[head]
            BY <3>1, <3>2 DEF With
        <3>5. UNCHANGED tracking
            BY <1>8 DEF AddWorktree, gitVars
        <3>6. RefsRead(j)'
            BY <1>1, <1>2, <3>1, <3>2, <3>3, <3>5
               DEF JobInv, RefsRead, At, BeforeRebase, Identified, CheckStates, InWorktree
        <3>7. TreeBuilt(j)' /\ WayToTrunk(j)'
            BY <1>2, <3>1, <3>3, <3>4 DEF TreeBuilt, Tree, Present, With, WayToTrunk, At
        <3> QED  BY <1>1, <1>2, <1>8, <3>3, <3>6, <3>7, JobWorks DEF AddWorktree, JobInv
    <2> QED  BY <2>1, <2>2
<1>9. job[j].pc \in InWorktree => job[j].feature = head /\ tracking = origin.main
    BY <1>1 DEF JobInv, RefsRead, Identified
<1>10. ASSUME NEW pc \in {"gates", "test", "record"}, Goto(j, pc), job[j].pc \in InWorktree,
              UNCHANGED <<tracking, record>>, TreeBuilt(j)'
       PROVE  PublishInv'
    <2>1. job'[j].pc = pc /\ SameRun(j) /\ Alone(j)
        BY <1>5, <1>10
    <2>2. RefsRead(j)'
        BY <1>1, <1>2, <1>9, <1>10, <2>1
           DEF JobInv, RefsRead, At, SameRun, BeforeRebase, Identified, CheckStates, InWorktree
    <2>3. WayToTrunk(j)'
        BY <1>10, <2>1 DEF WayToTrunk, At
    <2> QED  BY <1>1, <1>2, <1>10, <2>1, <2>2, <2>3, JobWorks DEF JobInv
<1>11. CASE RebaseTree(j)
    <2>1. job[j].pc = "rebaseTree" /\ job[j].pc \in InWorktree /\ UNCHANGED <<tracking, record>>
        BY <1>11 DEF RebaseTree, At, InWorktree, gitVars
    <2>2. CASE \E code \in {1, GitCode} : FailCheck(j, code)
        BY <1>4, <2>1, <2>2
    <2>3. CASE ~\E code \in {1, GitCode} : FailCheck(j, code)
        <3>1. /\ Present(j) /\ Goto(j, "gates")
              /\ worktree' = [worktree EXCEPT ![job[j].path].head = Rebased(@, tracking)]
            BY <1>11, <2>3 DEF RebaseTree
        <3>2. Tree(j) = branch[head]
            BY <1>1, <2>1, <3>1 DEF JobInv, TreeBuilt, At
        <3>3. job'[j].pc = "gates" /\ job'[j].path = job[j].path
            BY <1>5, <3>1 DEF SameRun
        <3>4. worktree'[job[j].path].head = Rebased(branch[head], origin.main)
            BY <1>9, <2>1, <3>1, <3>2 DEF Present, Tree, Typed, RunTyped, Trees
        <3>5. TreeBuilt(j)'
            BY <1>2, <3>1, <3>3, <3>4 DEF TreeBuilt, Tree, Present, At
        <3> QED  BY <1>10, <2>1, <3>1, <3>5
    <2> QED  BY <2>2, <2>3
<1>12. CASE Gates(j)
    <2>1. /\ job[j].pc = "gates" /\ job[j].pc \in InWorktree
          /\ UNCHANGED <<tracking, record, worktree, tested>>
        BY <1>12 DEF Gates, At, InWorktree, gitVars, runVars, ghosts
    <2>2. CASE \E code \in {1, GitCode} : FailCheck(j, code)
        BY <1>4, <2>1, <2>2
    <2>3. CASE ~\E code \in {1, GitCode} : FailCheck(j, code)
        <3>1. Present(j) /\ VersionOf(Tree(j)) > VersionOf(tracking) /\ Goto(j, "test")
            BY <1>12, <2>3 DEF Gates
        <3>2. Tree(j) = Rebased(branch[head], origin.main)
            BY <1>1, <2>1, <3>1 DEF JobInv, TreeBuilt
        <3>3. job'[j].pc = "test" /\ job'[j].path = job[j].path
            BY <1>5, <3>1 DEF SameRun
        <3>4. TreeBuilt(j)'
            BY <1>2, <1>9, <2>1, <3>1, <3>2, <3>3 DEF TreeBuilt, Tree, Present, At
        <3> QED  BY <1>10, <2>1, <3>1, <3>4
    <2> QED  BY <2>2, <2>3
<1>13. CASE TestTree(j)
    <2>1. /\ job[j].pc = "test" /\ job[j].pc \in InWorktree
          /\ UNCHANGED <<tracking, record, worktree>>
        BY <1>13 DEF TestTree, At, InWorktree, gitVars, runVars
    <2>2. CASE \E code \in {1, GitCode} : FailCheck(j, code)
        BY <1>4, <2>1, <2>2
    <2>3. CASE ~\E code \in {1, GitCode} : FailCheck(j, code)
        <3>1. Present(j) /\ Goto(j, "record") /\ tested' = tested \cup {Tree(j)}
            BY <1>13, <2>3 DEF TestTree
        <3>2. /\ Tree(j) = Rebased(branch[head], origin.main)
              /\ VersionOf(Tree(j)) > VersionOf(origin.main)
            BY <1>1, <2>1, <3>1 DEF JobInv, TreeBuilt
        <3>3. job'[j].pc = "record" /\ job'[j].path = job[j].path
            BY <1>5, <3>1 DEF SameRun
        <3>4. TreeBuilt(j)'
            BY <1>2, <2>1, <3>1, <3>2, <3>3 DEF TreeBuilt, Tree, Present, At
        <3> QED  BY <1>10, <2>1, <3>1, <3>4
    <2> QED  BY <2>2, <2>3
<1>14. CASE WriteRecord(j)
    <2>1. /\ job[j].pc = "record" /\ job[j].pc \in InWorktree
          /\ UNCHANGED <<tracking, worktree, tested>>
        BY <1>14 DEF WriteRecord, At, InWorktree, gitVars, ghosts
    <2>2. /\ Present(j)
          /\ record' = [tip |-> branch[head], trunk |-> tracking, tree |-> Tree(j)]
          /\ job' = [job EXCEPT ![j].pc = "cleanup", ![j].rc = 0]
        BY <1>1, <1>14, <2>1 DEF WriteRecord, Quiet, JobInv, TreeBuilt
    <2>3. /\ Tree(j) = Rebased(branch[head], origin.main) /\ Tree(j) \in tested
          /\ VersionOf(Tree(j)) > VersionOf(origin.main)
        BY <1>1, <2>1, <2>2 DEF JobInv, TreeBuilt, At
    <2>4. RecordChecked'
        BY <1>9, <2>1, <2>2, <2>3 DEF RecordChecked
    <2>5. /\ job'[j].pc = "cleanup" /\ job'[j].version = job[j].version /\ Alone(j)
        BY <1>1, <2>2 DEF JobRecords, Alone
    <2>6. Green(branch[head])'
        BY <1>2, <2>1, <2>3 DEF Green
    <2>7. RefsRead(j)'
        BY <1>1, <1>2, <2>1, <2>5
           DEF JobInv, RefsRead, At, BeforeRebase, Identified, CheckStates, InWorktree
    <2>8. TreeBuilt(j)' /\ WayToTrunk(j)'
        BY <2>5, <2>6 DEF TreeBuilt, WayToTrunk, At, InWorktree
    <2> QED  BY <1>1, <1>2, <2>4, <2>5, <2>7, <2>8, OneMoves, StillTrue DEF JobInv, PublishInv
<1>15. CASE Cleanup(j)
    <2>1. job[j].pc = "cleanup" /\ UNCHANGED <<record, tested>> /\ Return(j, job[j].rc)
        BY <1>15 DEF Cleanup, At, ghosts
    <2>2. CASE job'[j] = Idle /\ Alone(j)
        BY <1>1, <1>2, <2>1, <2>2, JobEnds
    <2>3. CASE job[j].rc = 0 /\ job'[j].pc = "identify" /\ SameRun(j) /\ Alone(j)
        <3>1. Green(branch[head])'
            BY <1>1, <1>2, <2>1, <2>3 DEF JobInv, WayToTrunk, At, Green
        <3>2. RefsRead(j)'
            BY <1>1, <1>2, <2>1, <2>3
               DEF JobInv, RefsRead, At, SameRun, BeforeRebase, Identified, CheckStates, InWorktree
        <3>3. TreeBuilt(j)' /\ WayToTrunk(j)'
            BY <2>3, <3>1 DEF TreeBuilt, WayToTrunk, At, InWorktree
        <3> QED  BY <1>1, <1>2, <2>1, <2>3, <3>2, <3>3, JobWorks DEF JobInv
    <2> QED  BY <2>1, <2>2, <2>3, MovesAlone
<1> QED  BY <1>6, <1>7, <1>8, <1>11, <1>12, <1>13, <1>14, <1>15 DEF CheckStep

\* A push is refused altogether or accepted for both refs.
LEMMA PushReleases ==
    ASSUME Quiet, Typed, PublishInv, NEW j \in Jobs, Push(j)
    PROVE  \/ Finish(j) /\ UNCHANGED <<origin, released>>
           \/ /\ Ready(j, branch["main"]) /\ job[j].version \notin DOMAIN origin.tags
              /\ origin'.main = branch["main"]
              /\ origin'.tags = With(origin.tags, job[j].version, branch["main"])
              /\ released' = released \cup {branch["main"]}
              /\ Goto(j, "deleteLocal")
<1>1. /\ Ready(j, branch["main"])
      /\ job[j].version \in DOMAIN tags /\ tags[job[j].version] = branch["main"]
    BY DEF PublishInv, JobInv, WayToTrunk, Push, At
<1>2. /\ origin.main \in Histories /\ DOMAIN origin = {"main", "tags", "features"}
      /\ TagsTyped(origin.tags)
    BY DEF Typed, GitTyped
<1>3. job[j].version \notin DOMAIN origin.tags
    <2> SUFFICES ASSUME job[j].version \in DOMAIN origin.tags PROVE FALSE  OBVIOUS
    <2> DEFINE t == origin.tags[job[j].version]
    <2>1. t \in Histories /\ IsPrefix(t, origin.main) /\ VersionOf(t) = job[j].version
        BY <1>2 DEF TagsTyped, PublishInv, TagsOnTrunk
    <2>2. VersionOf(t) <= VersionOf(origin.main)
        BY <1>2, <2>1, PrefixFacts, VersionGrows
    <2>3. VersionOf(t) \in Nat /\ VersionOf(origin.main) \in Nat
        BY <1>2, <2>1, VersionFacts
    <2> QED  BY <1>1, <2>1, <2>2, <2>3 DEF Ready
<1>4. CASE UNCHANGED <<origin, released>> /\ Finish(j)
    BY <1>4
<1>5. CASE ~(UNCHANGED <<origin, released>> /\ Finish(j))
    <2>1. IsPrefix(origin.main, branch["main"])
        BY <1>1 DEF Ready
    <2>2. /\ origin' = [origin EXCEPT !.main = branch["main"],
                           !.tags = With(@, job[j].version, tags[job[j].version])]
          /\ released' = released \cup {branch["main"]} /\ Goto(j, "deleteLocal")
        BY <1>3, <1>5, <2>1 DEF Push
    <2> QED  BY <1>1, <1>2, <1>3, <2>2
<1> QED  BY <1>4, <1>5

\* A merge rebases, fast-forwards, tags and pushes that very tree.
LEMMA PublishMerge ==
    ASSUME Quiet, Typed, PublishInv, NEW j \in Jobs, MergeStep(j)
    PROVE  PublishInv'
<1>1. /\ JobInv(j) /\ ~At(j, "idle")
      /\ job \in [Jobs -> JobRecords] /\ branch \in [Branches -> Histories]
      /\ head \in Branches /\ "main" \in Branches /\ job[j].feature \in Branches
      /\ origin.main \in Histories /\ origin.main # Gone
      /\ DOMAIN origin = {"main", "tags", "features"}
    BY DEF PublishInv, Typed, JobTyped, GitTyped, Branches, JobRecords, MergeStep, Preflight, Recheck,
           Identify, FetchTrunk, Rebase, FastForward, Tag, Push, DeleteLocal, DeleteRemote, At
<1>2. UNCHANGED <<record, tested>>
    BY DEF MergeStep, Preflight, Recheck, Identify, FetchTrunk, Rebase, FastForward, Tag, Push,
           DeleteLocal, DeleteRemote, runVars, ghosts
<1>3. ASSUME Finish(j), UNCHANGED <<origin.main, origin.tags, released>> PROVE PublishInv'
    <2>1. Alone(j) /\ job'[j] = Idle
        BY <1>3, MovesAlone
    <2> QED  BY <1>1, <1>2, <1>3, <2>1, JobEnds
<1>4. ASSUME NEW pc, Goto(j, pc)
      PROVE  job'[j].pc = pc /\ SameRun(j) /\ Alone(j)
    BY <1>4, MovesAlone
<1>5. CASE Preflight(j)
    <2>1. job[j].pc = "preflight" /\ UNCHANGED <<origin, branch, head, released>>
        BY <1>5 DEF Preflight, At, gitVars, ghosts
    <2>2. CASE Finish(j)
        BY <1>3, <2>1, <2>2
    <2>3. CASE ~Finish(j)
        <3>1. /\ job'[j].pc = "recheck" /\ job'[j].trunk = origin.main
              /\ job'[j].version = job[j].version /\ Alone(j)
            BY <1>1, <1>5, <2>3 DEF Preflight, Quiet, JobRecords, Alone
        <3>2. RefsRead(j)'
            BY <1>1, <2>1, <3>1
               DEF JobInv, RefsRead, At, BeforeRebase, Identified, CheckStates, InWorktree
        <3>3. TreeBuilt(j)' /\ WayToTrunk(j)'
            BY <3>1 DEF TreeBuilt, WayToTrunk, At, InWorktree
        <3> QED  BY <1>1, <1>2, <2>1, <3>1, <3>2, <3>3, JobWorks DEF JobInv
    <2> QED  BY <2>2, <2>3
<1>6. CASE Recheck(j)
    <2>1. job[j].pc = "recheck" /\ UNCHANGED <<origin, branch, head, released>>
        BY <1>6 DEF Recheck, At, gitVars, ghosts
    <2>2. CASE SkipRecheck(j)
        <3>1. job'[j].pc = "identify" /\ SameRun(j) /\ Alone(j)
            BY <1>4, <1>6, <2>2 DEF Recheck
        <3>2. record # NoRecord /\ record.tip = branch[head] /\ record.trunk = origin.main
            BY <1>1, <2>1, <2>2 DEF SkipRecheck, NoRecord, JobInv, RefsRead, At
        <3>3. Green(branch[head])'
            BY <1>2, <2>1, <3>2 DEF Green, PublishInv, RecordChecked
        <3>4. RefsRead(j)'
            BY <1>1, <2>1, <3>1
               DEF JobInv, RefsRead, At, SameRun, BeforeRebase, Identified, CheckStates, InWorktree
        <3>5. TreeBuilt(j)' /\ WayToTrunk(j)'
            BY <3>1, <3>3 DEF TreeBuilt, WayToTrunk, At, InWorktree
        <3> QED  BY <1>1, <1>2, <2>1, <3>1, <3>4, <3>5, JobWorks DEF JobInv
    <2>3. CASE ~SkipRecheck(j)
        <3>1. job'[j].pc = "clean" /\ SameRun(j) /\ Alone(j)
            BY <1>4, <1>6, <2>3 DEF Recheck
        <3>2. RefsRead(j)'
            BY <1>1, <2>1, <3>1
               DEF JobInv, RefsRead, At, SameRun, BeforeRebase, Identified, CheckStates, InWorktree
        <3>3. TreeBuilt(j)' /\ WayToTrunk(j)'
            BY <3>1 DEF TreeBuilt, WayToTrunk, At, InWorktree
        <3> QED  BY <1>1, <1>2, <2>1, <3>1, <3>2, <3>3, JobWorks DEF JobInv
    <2> QED  BY <2>2, <2>3
<1>7. CASE Identify(j)
    <2>1. job[j].pc = "identify" /\ UNCHANGED <<origin, branch, head, released>>
        BY <1>7 DEF Identify, At, gitVars, ghosts
    <2>2. CASE Finish(j)
        BY <1>3, <2>1, <2>2
    <2>3. CASE ~Finish(j)
        <3>1. job' = [job EXCEPT ![j].feature = head,
                         ![j].pc = IF HasOrigin THEN "fetchTrunk" ELSE "rebase"]
            BY <1>7, <2>3 DEF Identify
        <3>2. /\ job'[j].pc = "fetchTrunk" /\ job'[j].feature = head
              /\ job'[j].version = job[j].version /\ Alone(j)
            BY <1>1, <3>1 DEF Quiet, JobRecords, Alone
        <3>3. Green(branch[head])'
            BY <1>1, <1>2, <2>1 DEF JobInv, WayToTrunk, Green
        <3>4. RefsRead(j)'
            BY <1>1, <2>1, <3>2
               DEF JobInv, RefsRead, At, BeforeRebase, Identified, CheckStates, InWorktree
        <3>5. TreeBuilt(j)' /\ WayToTrunk(j)'
            BY <3>2, <3>3 DEF TreeBuilt, WayToTrunk, At, InWorktree
        <3> QED  BY <1>1, <1>2, <2>1, <3>2, <3>4, <3>5, JobWorks DEF JobInv
    <2> QED  BY <2>2, <2>3
<1>8. CASE FetchTrunk(j)
    <2>1. job[j].pc = "fetchTrunk" /\ UNCHANGED <<origin, branch, head, released>>
        BY <1>8 DEF FetchTrunk, At, ghosts
    <2>2. CASE Finish(j)
        BY <1>3, <2>1, <2>2
    <2>3. CASE ~Finish(j)
        <3>1. Goto(j, "rebase") /\ tracking' = origin.main
            BY <1>8, <2>3 DEF FetchTrunk
        <3>2. job'[j].pc = "rebase" /\ SameRun(j) /\ Alone(j)
            BY <1>4, <3>1
        <3>3. Green(branch[head])'
            BY <1>1, <1>2, <2>1 DEF JobInv, WayToTrunk, Green
        <3>4. RefsRead(j)'
            BY <1>1, <2>1, <3>1, <3>2
               DEF JobInv, RefsRead, At, SameRun, BeforeRebase, Identified, CheckStates, InWorktree
        <3>5. TreeBuilt(j)' /\ WayToTrunk(j)'
            BY <3>2, <3>3 DEF TreeBuilt, WayToTrunk, At, InWorktree
        <3> QED  BY <1>1, <1>2, <2>1, <3>2, <3>4, <3>5, JobWorks DEF JobInv
    <2> QED  BY <2>2, <2>3
<1>9. CASE Rebase(j)
    <2>1. job[j].pc = "rebase" /\ UNCHANGED <<origin, head, released>>
        BY <1>9 DEF Rebase, At, ghosts
    <2>2. CASE Finish(j)
        BY <1>3, <2>1, <2>2
    <2>3. CASE ~Finish(j)
        <3>1. tracking = origin.main /\ job[j].feature = head
              /\ job[j].version = VersionOf(branch[head]) /\ Green(branch[head])
            BY <1>1, <2>1 DEF JobInv, RefsRead, WayToTrunk, BeforeRebase, Identified
        <3>2. Goto(j, "fastForward") /\ branch' = [branch EXCEPT ![head] = Rebased(@, tracking)]
            BY <1>9, <2>3 DEF Rebase, Quiet
        <3>3. branch'[head] = Rebased(branch[head], origin.main)
            BY <1>1, <3>1, <3>2
        <3>4. job'[j].pc = "fastForward" /\ SameRun(j) /\ Alone(j)
            BY <1>4, <3>2
        <3>5. /\ VersionOf(Rebased(branch[head], origin.main)) = job[j].version
              /\ IsPrefix(origin.main, Rebased(branch[head], origin.main))
            BY <1>1, <3>1, RebasedFacts, RebasedVersion DEF Green
        <3>6. Ready(j, branch[job[j].feature])'
            BY <1>2, <2>1, <3>1, <3>3, <3>4, <3>5 DEF Ready, Green, SameRun
        <3>7. RefsRead(j)'
            BY <2>1, <3>1, <3>4
               DEF RefsRead, At, SameRun, BeforeRebase, Identified, CheckStates, InWorktree
        <3>8. TreeBuilt(j)' /\ WayToTrunk(j)'
            BY <3>4, <3>6 DEF TreeBuilt, WayToTrunk, At, InWorktree
        <3> QED  BY <1>1, <1>2, <2>1, <3>4, <3>7, <3>8, JobWorks DEF JobInv
    <2> QED  BY <2>2, <2>3
<1>10. CASE FastForward(j)
    <2>1. job[j].pc = "fastForward" /\ UNCHANGED <<origin, released>>
        BY <1>10 DEF FastForward, At, ghosts
    <2>2. CASE Finish(j)
        BY <1>3, <2>1, <2>2
    <2>3. CASE ~Finish(j)
        <3>1. Goto(j, "tag") /\ branch' = [branch EXCEPT !["main"] = branch[job[j].feature]]
            BY <1>10, <2>3 DEF FastForward
        <3>2. job'[j].pc = "tag" /\ SameRun(j) /\ Alone(j)
            BY <1>4, <3>1
        <3>3. Ready(j, branch[job[j].feature])
            BY <1>1, <2>1 DEF JobInv, WayToTrunk, At
        <3>4. branch'["main"] = branch[job[j].feature]
            BY <1>1, <3>1
        <3>5. Ready(j, branch["main"])'
            BY <1>2, <2>1, <3>2, <3>3, <3>4 DEF Ready, SameRun
        <3>6. RefsRead(j)' /\ TreeBuilt(j)' /\ WayToTrunk(j)'
            BY <3>2, <3>5 DEF RefsRead, TreeBuilt, WayToTrunk, At, BeforeRebase, Identified,
                              CheckStates, InWorktree
        <3> QED  BY <1>1, <1>2, <2>1, <3>2, <3>6, JobWorks DEF JobInv
    <2> QED  BY <2>2, <2>3
<1>11. CASE Tag(j)
    <2>1. job[j].pc = "tag" /\ UNCHANGED <<origin, branch>>
        BY <1>11 DEF Tag, At
    <2>2. CASE Finish(j) /\ UNCHANGED released
        BY <1>3, <2>1, <2>2
    <2>3. CASE ~(Finish(j) /\ UNCHANGED released)
        <3>1. /\ job[j].version \notin DOMAIN tags
              /\ tags' = With(tags, job[j].version, branch["main"])
              /\ Goto(j, "push") /\ UNCHANGED released
            BY <1>11, <2>3 DEF Tag, Quiet
        <3>2. job'[j].pc = "push" /\ SameRun(j) /\ Alone(j)
            BY <1>4, <3>1
        <3>3. Ready(j, branch["main"])'
            BY <1>1, <1>2, <2>1, <3>2 DEF JobInv, WayToTrunk, Ready, SameRun
        <3>4. job[j].version \in DOMAIN tags' /\ tags'[job[j].version] = branch["main"]
            BY <3>1 DEF With
        <3>5. RefsRead(j)' /\ TreeBuilt(j)' /\ WayToTrunk(j)'
            BY <2>1, <3>2, <3>3, <3>4 DEF RefsRead, TreeBuilt, WayToTrunk, At, SameRun, BeforeRebase,
                                          Identified, CheckStates, InWorktree
        <3> QED  BY <1>1, <1>2, <2>1, <3>1, <3>2, <3>5, JobWorks DEF JobInv
    <2> QED  BY <2>2, <2>3
<1>12. CASE Push(j)
    <2>1. CASE Finish(j) /\ UNCHANGED <<origin, released>>
        BY <1>3, <2>1
    <2>2. CASE ~(Finish(j) /\ UNCHANGED <<origin, released>>)
        <3> DEFINE v == job[j].version
                   h == branch["main"]
        <3>1. /\ Ready(j, h) /\ v \notin DOMAIN origin.tags
              /\ origin'.main = h /\ origin'.tags = With(origin.tags, v, h)
              /\ released' = released \cup {h} /\ Goto(j, "deleteLocal")
            BY <1>12, <2>2, PushReleases
        <3>2. h \in Histories /\ IsPrefix(origin.main, h) /\ h \in tested /\ VersionOf(h) = v
            BY <1>1, <3>1 DEF Ready
        <3>3. TagsOnTrunk'
            <4> SUFFICES ASSUME NEW w \in DOMAIN origin'.tags
                         PROVE  VersionOf(origin'.tags[w]) = w /\ IsPrefix(origin'.tags[w], origin'.main)
                BY DEF TagsOnTrunk
            <4>1. CASE w = v
                BY <3>1, <3>2, <4>1, PrefixReflexive DEF With
            <4>2. CASE w \in DOMAIN origin.tags
                <5>1. /\ origin'.tags[w] = origin.tags[w] /\ origin.tags[w] \in Histories
                      /\ VersionOf(origin.tags[w]) = w /\ IsPrefix(origin.tags[w], origin.main)
                    BY <3>1, <4>2 DEF With, PublishInv, TagsOnTrunk, Typed, GitTyped, TagsTyped
                <5> QED  BY <1>1, <3>1, <3>2, <5>1, PrefixTransitive
            <4> QED  BY <3>1, <4>1, <4>2 DEF With
        <3>4. RecordChecked' /\ released' \subseteq tested'
            BY <1>2, <3>1, <3>2 DEF PublishInv, RecordChecked
        <3>5. job'[j].pc = "deleteLocal" /\ Alone(j)
            BY <1>4, <3>1
        <3>6. RefsRead(j)' /\ TreeBuilt(j)' /\ WayToTrunk(j)'
            BY <3>5 DEF RefsRead, TreeBuilt, WayToTrunk, At, BeforeRebase, Identified, CheckStates,
                        InWorktree
        <3> QED  BY <1>1, <3>3, <3>4, <3>5, <3>6, OneMoves DEF JobInv, PublishInv
    <2> QED  BY <2>1, <2>2
<1>13. CASE DeleteLocal(j)
    <2>1. Goto(j, "deleteRemote") /\ UNCHANGED <<origin, released>>
        BY <1>13 DEF DeleteLocal, Quiet, ghosts
    <2>2. job'[j].pc = "deleteRemote" /\ Alone(j)
        BY <1>4, <2>1
    <2>3. RefsRead(j)' /\ TreeBuilt(j)' /\ WayToTrunk(j)'
        BY <2>2 DEF RefsRead, TreeBuilt, WayToTrunk, At, BeforeRebase, Identified, CheckStates,
                    InWorktree
    <2> QED  BY <1>1, <1>2, <2>1, <2>2, <2>3, JobWorks DEF JobInv
<1>14. CASE DeleteRemote(j)
    <2>1. Finish(j) /\ UNCHANGED released
        BY <1>14 DEF DeleteRemote, ghosts
    <2>2. UNCHANGED <<origin.main, origin.tags>>
        BY <1>1, <1>14 DEF DeleteRemote
    <2> QED  BY <1>3, <2>1, <2>2
<1> QED  BY <1>5, <1>6, <1>7, <1>8, <1>9, <1>10, <1>11, <1>12, <1>13, <1>14 DEF MergeStep

\* A run starts when none is under way, and reads project.yml then.
LEMMA PublishLaunch ==
    ASSUME Quiet, Typed, PublishInv, NEW j \in Jobs, Start(j) \/ Kill(j)
    PROVE  PublishInv'
<1>1. job \in [Jobs -> JobRecords]
    BY DEF Typed, JobTyped
<1>2. UNCHANGED <<origin, branch, head, record, released, tested>>
    BY DEF Start, Kill, gitVars, ghosts
<1>3. CASE Start(j)
    <2>1. /\ AllIdle
          /\ job' = [job EXCEPT ![j] =
                        [Idle EXCEPT
                            !.pc = IF j = "merge" THEN "preflight" ELSE "clean",
                            !.version = VersionOf(branch[head]),
                            !.slug = branch[head]]]
        BY <1>3 DEF Start, Quiet
    <2>2. /\ job'[j].pc \in {"preflight", "clean"} /\ job'[j].version = VersionOf(branch[head])
          /\ Alone(j)
        BY <1>1, <2>1 DEF Idle, Alone
    <2>3. \A k \in Jobs \ {j} : job'[k].pc = "idle"
        BY <2>1, <2>2 DEF AllIdle, Alone
    <2>4. RefsRead(j)' /\ TreeBuilt(j)' /\ WayToTrunk(j)'
        BY <1>2, <2>2 DEF RefsRead, TreeBuilt, WayToTrunk, At, BeforeRebase, Identified, CheckStates,
                          InWorktree
    <2>5. \A k \in Jobs : JobInv(k)'
        <3> TAKE k \in Jobs
        <3> QED  BY <2>3, <2>4, NothingToShow DEF JobInv
    <2>6. OneJob'
        BY <2>3 DEF OneJob, At
    <2> QED  BY <1>2, <2>5, <2>6, StillTrue DEF PublishInv
<1>4. CASE Kill(j)
    <2>1. ~At(j, "idle") /\ Finish(j)
        BY <1>4 DEF Kill
    <2>2. Alone(j) /\ job'[j] = Idle
        BY <2>1, MovesAlone
    <2> QED  BY <1>2, <2>1, <2>2, JobEnds
<1> QED  BY <1>3, <1>4

\* The developer and the teammates wait for the job, but for a fetch.
LEMMA PublishOthers ==
    ASSUME Quiet, Typed, PublishInv, DevStep \/ \E c \in TeamChanges : TeamPush(c)
    PROVE  PublishInv'
<1>1. UNCHANGED <<job, worktree, record, released, tested>>
    BY DEF DevStep, Edit, DevFetch, DevRebase, Commit, Switch, TeamPush, runVars, ghosts
<1>2. OneJob'
    BY <1>1 DEF PublishInv, OneJob, At
<1>3. CASE AllIdle
    <2>1. \A k \in Jobs : JobInv(k)'
        BY <1>1, <1>3, NothingToShow DEF AllIdle
    <2>2. CASE UNCHANGED <<origin.main, origin.tags>>
        BY <1>1, <1>2, <2>1, <2>2, StillTrue DEF PublishInv
    <2>3. ASSUME NEW c \in TeamChanges, TeamPush(c) PROVE PublishInv'
        <3> DEFINE tip == Append(origin.main, c)
        <3>1. /\ origin.main \in Histories /\ DOMAIN origin = {"main", "tags", "features"}
              /\ TagsTyped(origin.tags)
            BY DEF Typed, GitTyped
        <3>2. c \in Changes /\ tip \in Histories /\ IsPrefix(origin.main, tip)
            BY <3>1, ActorsAssumption, AppendFacts
        <3>3. origin'.main = tip
            BY <2>3, <3>1 DEF TeamPush
        <3>4. \/ origin'.tags = origin.tags
              \/ /\ Version[c] > VersionOf(origin.main) /\ Version[c] \notin DOMAIN origin.tags
                 /\ origin'.tags = With(origin.tags, Version[c], tip)
            BY <2>3, <3>1 DEF TeamPush
        <3>5. TagsOnTrunk'
            <4> SUFFICES ASSUME NEW w \in DOMAIN origin'.tags
                         PROVE  VersionOf(origin'.tags[w]) = w /\ IsPrefix(origin'.tags[w], origin'.main)
                BY DEF TagsOnTrunk
            <4>1. CASE w \in DOMAIN origin.tags
                <5>1. /\ origin'.tags[w] = origin.tags[w] /\ origin.tags[w] \in Histories
                      /\ VersionOf(origin.tags[w]) = w /\ IsPrefix(origin.tags[w], origin.main)
                    BY <3>4, <4>1 DEF With, PublishInv, TagsOnTrunk, Typed, GitTyped, TagsTyped
                <5> QED  BY <3>1, <3>2, <3>3, <5>1, PrefixTransitive
            <4>2. CASE w \notin DOMAIN origin.tags
                <5>1. /\ Version[c] > VersionOf(origin.main) /\ w = Version[c]
                      /\ origin'.tags[w] = tip
                    BY <3>4, <4>2 DEF With
                <5> QED  BY <3>1, <3>2, <3>3, <5>1, AppendVersion, PrefixReflexive
            <4> QED  BY <4>1, <4>2
        <3> QED  BY <1>1, <1>2, <2>1, <3>5 DEF PublishInv, RecordChecked
    <2> QED  BY <2>2, <2>3 DEF DevStep, Edit, DevFetch, DevRebase, Commit, Switch
<1>4. CASE ~AllIdle
    <2>1. DevFetch
        BY <1>4 DEF Quiet, DevStep, Edit, DevRebase, Commit, Switch, TeamPush, DevMay
    <2>2. UNCHANGED <<origin, branch, head>> /\ tracking' = origin.main
        BY <2>1 DEF DevFetch
    <2>3. \A v \in DOMAIN tags : v \in DOMAIN tags' /\ tags'[v] = tags[v]
        BY <2>1 DEF DevFetch, Fetched
    <2>4. ASSUME NEW k \in Jobs PROVE JobInv(k)'
        <3>1. JobInv(k)
            BY DEF PublishInv
        <3>2. RefsRead(k)'
            BY <1>1, <2>2, <3>1 DEF JobInv, RefsRead, At
        <3>3. TreeBuilt(k)'
            BY <1>1, <2>2, <3>1 DEF JobInv, TreeBuilt, At, Present, Tree
        <3>4. WayToTrunk(k)'
            BY <1>1, <2>2, <2>3, <3>1 DEF JobInv, WayToTrunk, At, Green, Ready
        <3> QED  BY <3>2, <3>3, <3>4 DEF JobInv
    <2> QED  BY <1>1, <1>2, <2>2, <2>4, StillTrue DEF PublishInv
<1> QED  BY <1>3, <1>4

LEMMA PublishAlways ==
    ASSUME Quiet
    PROVE  Spec => [](Typed /\ PublishInv)
<1>1. Init => PublishInv
    <2> SUFFICES ASSUME Init PROVE PublishInv  OBVIOUS
    <2>1. \A j \in Jobs : job[j].pc = "idle"
        BY DEF Init, Idle
    <2>2. OneJob /\ \A j \in Jobs : JobInv(j)
        BY <2>1, NothingToShow DEF OneJob, At
    <2>3. TagsOnTrunk
        <3>1. origin.tags = << >> /\ DOMAIN << >> = {}
            BY DEF Init
        <3> QED  BY <3>1 DEF TagsOnTrunk
    <2>4. RecordChecked /\ released \subseteq tested
        BY DEF Init, RecordChecked
    <2> QED  BY <2>2, <2>3, <2>4 DEF PublishInv
<1>2. Typed /\ PublishInv /\ [Next]_vars => PublishInv'
    <2> SUFFICES ASSUME Typed, PublishInv, [Next]_vars PROVE PublishInv'  OBVIOUS
    <2>1. CASE UNCHANGED vars
        <3>1. UNCHANGED <<origin, branch, tracking, tags, head, worktree, record, job, tested, released>>
            BY <2>1 DEF vars, gitVars, runVars, ghosts
        <3> QED  BY <3>1 DEF PublishInv, RecordChecked, TagsOnTrunk, OneJob, JobInv, RefsRead, TreeBuilt,
                             WayToTrunk, At, Present, Tree, Green, Ready
    <2> QED  BY <2>1, PublishCheck, PublishMerge, PublishLaunch, PublishOthers DEF Next
<1> QED  BY <1>1, <1>2, TypedAlways, PTL DEF Spec

\* merge refuses what its check did not cover (pipeline/merge.py,
\* check_record.py): whatever branches, conflicts, kills and failed calls there
\* are, every tree a merge publishes was built and tested in exactly that form.
THEOREM EveryPublishedTreeWasChecked ==
    ASSUME Quiet
    PROVE  Spec => []PublishedWasChecked
<1>1. PublishInv => PublishedWasChecked
    BY DEF PublishInv, PublishedWasChecked
<1> QED  BY <1>1, PublishAlways, PTL

\* A provenance record (check_record.py) tells the truth about its tree.
THEOREM RecordIsAlwaysTrue ==
    ASSUME Quiet
    PROVE  Spec => []RecordIsTrue
<1>1. PublishInv => RecordIsTrue
    BY DEF PublishInv, RecordChecked, RecordIsTrue
<1> QED  BY <1>1, PublishAlways, PTL

\* A published tag is named after the version of its tree, although merge reads
\* the version when it starts and names the tag after that.
THEOREM TagsNameTheirTrees ==
    ASSUME Quiet
    PROVE  Spec => []TagNamesItsTree
<1>1. PublishInv => TagNamesItsTree
    BY DEF PublishInv, TagsOnTrunk, TagNamesItsTree
<1> QED  BY <1>1, PublishAlways, PTL

----------------------------------------------------------------------------
(* The published trunk implements Trunk.                                   *)

TrunkStep == [Published!Next]_<<origin.main, origin.tags, tested>>

LEMMA TrunkStutters ==
    ASSUME UNCHANGED <<origin.main, origin.tags, tested>>
    PROVE  TrunkStep
BY DEF TrunkStep

\* A check that passes is a Test, a push is a Release, and every other step of
\* a job leaves the published trunk as it is.
LEMMA JobStepsTrunk ==
    ASSUME Quiet, Typed, PublishInv, NEW j \in Jobs, CheckStep(j) \/ MergeStep(j)
    PROVE  TrunkStep
<1>1. CASE TestTree(j)
    <2>1. UNCHANGED <<origin.main, origin.tags>> /\ (UNCHANGED tested \/ tested' = tested \cup {Tree(j)})
        BY <1>1 DEF TestTree, gitVars
    <2>2. ASSUME tested' = tested \cup {Tree(j)} PROVE Published!Next
        <3>1. Published!Test(Tree(j)) /\ Tree(j) \in tested'
            BY <2>1, <2>2 DEF Published!Test
        <3> QED  BY <3>1 DEF Published!Next
    <2> QED  BY <2>1, <2>2 DEF TrunkStep
<1>2. CASE Push(j)
    <2>1. UNCHANGED tested
        BY <1>2 DEF Push
    <2>2. CASE UNCHANGED origin
        BY <2>1, <2>2, TrunkStutters
    <2>3. CASE ~UNCHANGED origin
        <3> DEFINE v == job[j].version
                   h == branch["main"]
        <3>1. /\ Ready(j, h) /\ v \notin DOMAIN origin.tags
              /\ origin'.main = h /\ origin'.tags = With(origin.tags, v, h)
            BY <1>2, <2>3, PushReleases
        <3>2. h # origin.main
            BY <3>1, VersionFacts DEF Ready, Typed, GitTyped
        <3>3. Published!IsStrictPrefix(origin.main, h)
            BY <3>1, <3>2 DEF Ready, IsPrefix, Published!IsStrictPrefix, Published!IsPrefix
        <3>4. Published!Tagged(v, h)
            BY <3>1 DEF Published!Tagged, With
        <3>5. Published!Release(origin'.main, v)
            BY <2>1, <3>1, <3>3, <3>4 DEF Ready, Published!Release
        <3>6. v \in DOMAIN origin'.tags
            BY <3>1 DEF With
        <3> QED  BY <3>5, <3>6 DEF Published!Next, TrunkStep
    <2> QED  BY <2>2, <2>3
<1>3. CASE DeleteRemote(j)
    <2>1. UNCHANGED <<origin.main, origin.tags, tested>>
        BY <1>3 DEF DeleteRemote, ghosts, Typed, GitTyped
    <2> QED  BY <2>1, TrunkStutters
<1>4. CASE ~(TestTree(j) \/ Push(j) \/ DeleteRemote(j))
    <2>1. UNCHANGED <<origin, tested>>
        BY <1>4 DEF CheckStep, CheckClean, CheckFetch, AddWorktree, RebaseTree, Gates, WriteRecord,
                    Cleanup, MergeStep, Preflight, Recheck, Identify, FetchTrunk, Rebase, FastForward,
                    Tag, DeleteLocal, gitVars, ghosts
    <2> QED  BY <2>1, TrunkStutters
<1> QED  BY <1>1, <1>2, <1>3, <1>4

LEMMA OthersStepTrunk ==
    ASSUME Typed, \/ \E j \in Jobs : Start(j) \/ Kill(j)
                  \/ DevStep
                  \/ \E c \in TeamChanges : TeamPush(c)
    PROVE  TrunkStep
<1>1. UNCHANGED tested
    BY DEF Start, Kill, DevStep, Edit, DevFetch, DevRebase, Commit, Switch, TeamPush, ghosts
<1>2. CASE UNCHANGED origin
    BY <1>1, <1>2, TrunkStutters
<1>3. ASSUME NEW c \in TeamChanges, TeamPush(c) PROVE TrunkStep
    <2> DEFINE tip == Append(origin.main, c)
    <2>1. /\ DOMAIN origin = {"main", "tags", "features"} /\ c \in Changes
        BY ActorsAssumption DEF Typed, GitTyped
    <2>2. origin'.main = tip
        BY <1>3, <2>1 DEF TeamPush
    <2>3. \/ origin'.tags = origin.tags
          \/ /\ Version[c] \notin DOMAIN origin.tags
             /\ origin'.tags = With(origin.tags, Version[c], tip)
        BY <1>3, <2>1 DEF TeamPush
    <2>4. Published!Others(c)
        <3>1. CASE origin'.tags = origin.tags
            BY <1>1, <2>2, <3>1 DEF Published!Others
        <3>2. CASE origin'.tags # origin.tags
            <4>1. Version[c] \in DOMAIN origin'.tags \ DOMAIN origin.tags
                BY <2>3, <3>2 DEF With
            <4>2. Published!Tagged(Version[c], origin'.main)
                BY <2>2, <2>3, <3>2 DEF With, Published!Tagged
            <4> QED  BY <1>1, <2>2, <4>1, <4>2 DEF Published!Others
        <3> QED  BY <3>1, <3>2
    <2> QED  BY <2>1, <2>4 DEF Published!Next, TrunkStep
<1> QED  BY <1>2, <1>3 DEF Start, Kill, DevStep, Edit, DevFetch, DevRebase, Commit, Switch, gitVars

\* What cicd.md promises of merge: the published trunk moves only to a tree that
\* a check built and tested in exactly that form, in one step with its version
\* tag, and a tag never moves; teammates push beside it.
THEOREM MergeImplementsTrunk ==
    ASSUME Quiet
    PROVE  Spec => ImplementsTrunk
<1>1. Init => Published!Init
    BY DEF Init, Published!Init
<1>2. Typed /\ PublishInv /\ [Next]_vars => TrunkStep
    <2> SUFFICES ASSUME Typed, PublishInv, [Next]_vars PROVE TrunkStep  OBVIOUS
    <2>1. CASE UNCHANGED vars
        BY <2>1, TrunkStutters DEF vars, gitVars, ghosts
    <2>2. CASE Next
        BY <2>2, JobStepsTrunk, OthersStepTrunk DEF Next
    <2> QED  BY <2>1, <2>2
<1> QED  BY <1>1, <1>2, PublishAlways, PTL DEF Spec, ImplementsTrunk, Published!Spec, TrunkStep

=============================================================================
