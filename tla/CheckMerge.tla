----------------------------- MODULE CheckMerge -----------------------------
(***************************************************************************)
(* `docex check` and `docex merge` (docex/pipeline/{check,merge,           *)
(* check_record,_worktree}.py) in one clone of the project, beside the     *)
(* developer who keeps working in it and teammates who push to origin.     *)
(*                                                                         *)
(* A commit is its history, a sequence of changes; its tree is what that   *)
(* sequence adds up to, so a history stands for its tree as well.  One     *)
(* step is one call of the git client, or one long phase of a check.       *)
(***************************************************************************)
EXTENDS Naturals, FiniteSets, Sequences, SequencesExt

CONSTANTS
    HasOrigin,       \* does the clone have an `origin` remote
    Features,        \* names of the developer's feature branches
    FeatureStart,    \* Features -> history
    TrunkStart,      \* history of main, here and on origin
    Changes,         \* every change there is
    Version,         \* Changes -> the version it sets in project.yml, or 0
    Conflicts,       \* pairs of changes that do not rebase over each other
    FixUps,          \* changes the developer may still commit
    TeamChanges,     \* changes teammates may push to origin
    DevBusy,         \* what the developer does while a job runs
    Overlap,         \* may a check and a merge be under way at once
    TeamBusy,        \* do teammates push while a job runs
    MaxStarts,       \* bound: starts of each job
    MaxKills,        \* bound: vessels killed
    MaxNetFailures   \* bound: failed calls to origin

ASSUME TrunkAssumption ==
    /\ TrunkStart \in Seq(Changes) /\ TrunkStart # << >>
    /\ FeatureStart \in [Features -> Seq(Changes) \ {<< >>}]
    /\ Version \in [Changes -> Nat]
ASSUME ActorsAssumption ==
    /\ FixUps \subseteq Changes /\ TeamChanges \subseteq Changes
    /\ DevBusy \subseteq {"edit", "switch", "fetch"}
    /\ {HasOrigin, Overlap, TeamBusy} \subseteq BOOLEAN
    /\ {MaxStarts, MaxKills, MaxNetFailures} \subseteq Nat
    /\ "main" \notin Features

Jobs == {"check", "merge"}
Branches == Features \cup {"main"}
Gone == << >>       \* a ref that does not exist
NoRecord == [tip |-> Gone, trunk |-> Gone, tree |-> Gone]
GitCode == 128      \* an exit code of git, compile, compose or the tests, passed
                    \* on as it is

VARIABLES
    origin,     \* the remote: main, version tags, feature branches
    branch,     \* local branches
    tracking,   \* refs/remotes/origin/main
    tags,       \* local version tags: version -> history
    head,       \* the branch checked out in the project root
    dirty,      \* does the project root have uncommitted changes
    worktree,   \* .docex/worktrees: check-<sha> -> its owner and its HEAD
    record,     \* .docex/checks/latest.json
    job,        \* the vessel of each command
    leak,       \* the worktree that the killed run of each command recorded
    tested,     \* history: trees that passed build and test
    released,   \* history: trees that a merge published
    made,       \* history: changes the developer committed
    count       \* starts and faults so far

gitVars == <<origin, branch, tracking, tags, head, dirty>>
runVars == <<worktree, record, leak>>
ghosts == <<tested, released, made>>
vars == <<gitVars, runVars, job, ghosts, count>>

MergeStates == {"preflight", "recheck", "identify", "fetchTrunk", "rebase",
                "fastForward", "tag", "push", "deleteLocal", "deleteRemote"}
InWorktree == {"rebaseTree", "gates", "test", "record"}
CheckStates == {"clean", "fetch", "addWorktree", "cleanup"} \cup InWorktree
Idle == [pc |-> "idle", feature |-> "main", path |-> Gone, trunk |-> Gone,
         version |-> 0, slug |-> Gone, rc |-> 0]

Histories == Seq(Changes)
TypeOK ==
    /\ origin.main \in Histories /\ origin.features \subseteq Features
    /\ \A t \in {tags, origin.tags} :
          DOMAIN t \subseteq Nat /\ \A v \in DOMAIN t : t[v] \in Histories
    /\ branch \in [Branches -> Histories] /\ tracking \in Histories
    /\ head \in Branches /\ dirty \in BOOLEAN
    /\ \A p \in DOMAIN worktree : /\ worktree[p].owner \in Jobs
                                  /\ worktree[p].head \in Histories
    /\ {record.tip, record.trunk, record.tree} \subseteq Histories
    /\ \A j \in Jobs :
          /\ job[j].pc \in {"idle"} \cup MergeStates \cup CheckStates
          /\ job[j].feature \in Branches
          /\ {job[j].path, job[j].trunk, job[j].slug, leak[j]}
                \subseteq Histories
          /\ job[j].version \in Nat /\ job[j].rc \in {0, 1, GitCode}
          /\ count[j] \in 0..MaxStarts
    /\ tested \cup released \subseteq Histories /\ made \subseteq Changes
    /\ count["kill"] \in 0..MaxKills /\ count["net"] \in 0..MaxNetFailures

Init ==
    /\ origin = [main |-> TrunkStart, tags |-> << >>, features |-> Features]
    /\ branch = [b \in Branches |->
                    IF b = "main" THEN TrunkStart ELSE FeatureStart[b]]
    /\ tracking = IF HasOrigin THEN TrunkStart ELSE Gone
    /\ tags = << >>
    /\ head \in Features
    /\ dirty = FALSE
    /\ worktree = << >>
    /\ record = NoRecord
    /\ job = [j \in Jobs |-> Idle]
    /\ leak = [j \in Jobs |-> Gone]
    /\ tested = {} /\ released = {}
    /\ made = UNION {ToSet(FeatureStart[f]) : f \in Features}
    /\ count = [k \in Jobs \cup {"kill", "net"} |-> 0]

----------------------------------------------------------------------------
(* git                                                                     *)

\* project.yml's version is bumped by one line; a rebased history has the
\* last bump, and two different bumps of it do not rebase over each other.
VersionOf(h) == Max({0} \cup {Version[c] : c \in ToSet(h)})

Clash(c, d) ==
    \/ {c, d} \in Conflicts
    \/ Version[c] # Version[d] /\ 0 \notin {Version[c], Version[d]}

\* `git rebase` replays commit after commit, but for those that are there.
Rebased(h, onto) ==
    LET replay[n \in 0..Len(h)] ==
            IF n = 0 THEN onto
            ELSE IF h[n] \in ToSet(onto) THEN replay[n - 1]
            ELSE Append(replay[n - 1], h[n])
    IN  replay[Len(h)]

RebaseWorks(h, onto) ==
    \A c \in ToSet(h) \ ToSet(onto), d \in ToSet(onto) \ ToSet(h) : ~Clash(c, d)

\* A map with one more entry, unless it has one of that name.
With(f, name, value) ==
    [n \in DOMAIN f \cup {name} |-> IF n \in DOMAIN f THEN f[n] ELSE value]

\* `git fetch` also takes the tags of the commits it reaches.
Fetched(o) ==
    LET reached == {v \in DOMAIN o.tags : IsPrefix(o.tags[v], o.main)}
    IN  [v \in DOMAIN tags \cup reached |->
            IF v \in DOMAIN tags THEN tags[v] ELSE o.tags[v]]

AllIdle == \A j \in Jobs : job[j].pc = "idle"
At(j, pc) == job[j].pc = pc
Goto(j, pc) == job' = [job EXCEPT ![j].pc = pc]
Finish(j) == job' = [job EXCEPT ![j] = Idle]
NetFails == /\ count["net"] < MaxNetFailures
            /\ count' = [count EXCEPT !["net"] = @ + 1]

----------------------------------------------------------------------------
(* Launch of either command.                                               *)

StartReadsMainVersion(j) ==   \* mutant: project.yml of main, not of HEAD
    /\ At(j, "idle") /\ count[j] < MaxStarts
    /\ Overlap \/ AllIdle
    /\ count' = [count EXCEPT ![j] = @ + 1]
    /\ job' = [job EXCEPT ![j] =
                  [Idle EXCEPT
                      !.pc = IF j = "merge" THEN "preflight" ELSE "clean",
                      !.version = VersionOf(branch["main"]),
                      !.slug = branch[head]]]
    /\ UNCHANGED <<gitVars, runVars, ghosts>>

\* The command loads project.yml once, now; the job record notes the name of
\* the worktree; and the preflight removes what the last run of the same
\* command recorded, if that run was killed.
Start(j) ==
    /\ At(j, "idle") /\ count[j] < MaxStarts
    /\ Overlap \/ AllIdle
    /\ count' = [count EXCEPT ![j] = @ + 1]
    /\ job' = [job EXCEPT ![j] =
                  [Idle EXCEPT
                      !.pc = IF j = "merge" THEN "preflight" ELSE "clean",
                      !.version = VersionOf(branch[head]),
                      !.slug = branch[head]]]
    /\ worktree' = Restrict(worktree, DOMAIN worktree \ {leak[j]})
    /\ leak' = [leak EXCEPT ![j] = Gone]
    /\ UNCHANGED <<gitVars, record, ghosts>>

\* The vessel is killed: no `finally` runs.
Kill(j) ==
    /\ ~At(j, "idle") /\ count["kill"] < MaxKills
    /\ count' = [count EXCEPT !["kill"] = @ + 1]
    /\ leak' = [leak EXCEPT ![j] = job[j].slug]
    /\ Finish(j)
    /\ UNCHANGED <<gitVars, worktree, record, ghosts>>

----------------------------------------------------------------------------
(* run_check, by `docex check` itself or inside a merge                    *)

\* run_check returns rc: a merge goes on after a green, and only then.
Return(j, rc) ==
    IF j = "merge" /\ rc = 0 THEN Goto(j, "identify") ELSE Finish(j)

\* Refuses a dirty tree and a branch that is not a feature branch.
CheckClean(j) ==
    /\ At(j, "clean")
    /\ IF ~dirty /\ head # "main"
       THEN job' = [job EXCEPT ![j].feature = head,
                       ![j].pc = IF HasOrigin THEN "fetch" ELSE "addWorktree"]
       ELSE Return(j, 1)
    /\ UNCHANGED <<gitVars, runVars, ghosts, count>>

CheckFetch(j) ==
    /\ At(j, "fetch")
    /\ \/ /\ tracking' = origin.main
          /\ tags' = Fetched(origin)
          /\ Goto(j, "addWorktree")
          /\ UNCHANGED count
       \/ NetFails /\ Return(j, GitCode) /\ UNCHANGED <<tracking, tags>>
    /\ UNCHANGED <<origin, branch, head, dirty, runVars, ghosts>>

AddWorktreeInsideTry(j) ==   \* mutant: a failed `add` also cleans up
    /\ At(j, "addWorktree")
    /\ job' = [job EXCEPT ![j].path = branch[head], ![j].rc = 1,
                  ![j].pc = IF branch[head] \in DOMAIN worktree
                            THEN "cleanup" ELSE "rebaseTree"]
    /\ worktree' =
          With(worktree, branch[head], [owner |-> j, head |-> branch[head]])
    /\ UNCHANGED <<gitVars, record, leak, ghosts, count>>

\* The path is named after HEAD now; the commit is the feature branch's now.
\* A path that exists makes `git worktree add` fail, before the `try`.
AddWorktree(j) ==
    LET path == branch[head]
        feature == branch[job[j].feature]
    IN  /\ At(j, "addWorktree")
        /\ IF path \in DOMAIN worktree \/ feature = Gone
           THEN Return(j, GitCode) /\ UNCHANGED worktree
           ELSE /\ worktree' =
                      With(worktree, path, [owner |-> j, head |-> feature])
                /\ job' = [job EXCEPT ![j].path = path,
                              ![j].pc = IF tracking = Gone THEN "test"
                                                           ELSE "rebaseTree"]
        /\ UNCHANGED <<gitVars, record, leak, ghosts, count>>

\* Every step below works on whatever now lies at the path.
Present(j) == job[j].path \in DOMAIN worktree
Tree(j) == worktree[job[j].path].head
FailCheck(j, code) == job' = [job EXCEPT ![j].pc = "cleanup", ![j].rc = code]

RebaseTree(j) ==
    /\ At(j, "rebaseTree")
    /\ IF Present(j) /\ RebaseWorks(Tree(j), tracking)
       THEN /\ worktree' = [worktree EXCEPT ![job[j].path].head =
                               Rebased(@, tracking)]
            /\ Goto(j, "gates")
       ELSE FailCheck(j, 1) /\ UNCHANGED worktree
    /\ UNCHANGED <<gitVars, record, leak, ghosts, count>>

\* latest_main, version_bumped, version_not_released, each against the refs
\* of the project as they are now.
Gates(j) ==
    /\ At(j, "gates")
    /\ IF /\ Present(j)
          /\ IsPrefix(tracking, Tree(j))
          /\ VersionOf(Tree(j)) > VersionOf(tracking)
          /\ VersionOf(Tree(j)) \notin DOMAIN tags
       THEN Goto(j, "test")
       ELSE FailCheck(j, 1)
    /\ UNCHANGED <<gitVars, runVars, ghosts, count>>

TestTreeIgnored(j) ==   \* mutant: a red run goes on to the record
    /\ At(j, "test")
    /\ Present(j) /\ Goto(j, "record")
    /\ \/ tested' = tested \cup {Tree(j)}
       \/ UNCHANGED tested
    /\ UNCHANGED <<gitVars, runVars, released, made, count>>

\* The remaining gates, which report 1, then compile, build and the test run,
\* each with a code of its own: minutes to hours.
TestTree(j) ==
    /\ At(j, "test")
    /\ \/ Present(j) /\ Goto(j, "record") /\ tested' = tested \cup {Tree(j)}
       \/ /\ \E code \in {1, GitCode} : FailCheck(j, code)
          /\ UNCHANGED tested
    /\ UNCHANGED <<gitVars, runVars, released, made, count>>

\* The provenance record names HEAD and the trunk as they are at the end; the
\* tree of a worktree that is gone is recorded as none, and the check is green.
WriteRecord(j) ==
    /\ At(j, "record")
    /\ record' = [tip |-> branch[head],
                  trunk |-> IF HasOrigin THEN tracking ELSE branch["main"],
                  tree |-> IF Present(j) THEN Tree(j) ELSE Gone]
    /\ job' = [job EXCEPT ![j].pc = "cleanup", ![j].rc = 0]
    /\ UNCHANGED <<gitVars, worktree, leak, ghosts, count>>

Cleanup(j) ==
    /\ At(j, "cleanup")
    /\ worktree' = Restrict(worktree, DOMAIN worktree \ {job[j].path})
    /\ Return(j, job[j].rc)
    /\ UNCHANGED <<gitVars, record, leak, ghosts, count>>

----------------------------------------------------------------------------
(* run_merge.  Of the jobs, "merge" alone reaches these states.            *)

\* `git ls-remote origin refs/heads/main`, or local main without an origin.
Preflight(j) ==
    /\ At(j, "preflight")
    /\ \/ /\ job' = [job EXCEPT ![j].pc = "recheck",
                        ![j].trunk = IF HasOrigin THEN origin.main
                                                  ELSE branch["main"]]
          /\ UNCHANGED count
       \/ HasOrigin /\ NetFails /\ Finish(j)
    /\ UNCHANGED <<gitVars, runVars, ghosts>>

SkipRecheckAnyTrunk(j) ==   \* mutant: the trunk may have moved
    Gone # record.tip /\ record.tip = branch[head] /\ ~dirty

SkipRecheck(j) ==
    /\ Gone \notin {record.tip, record.trunk}
    /\ record.tip = branch[head]
    /\ record.trunk = job[j].trunk
    /\ ~dirty

Recheck(j) ==
    /\ At(j, "recheck")
    /\ Goto(j, IF SkipRecheck(j) THEN "identify" ELSE "clean")
    /\ UNCHANGED <<gitVars, runVars, ghosts, count>>

\* The branch to merge is the one checked out now, after the recheck.
Identify(j) ==
    /\ At(j, "identify")
    /\ IF head = "main"
       THEN Finish(j)
       ELSE job' = [job EXCEPT ![j].feature = head,
                       ![j].pc = IF HasOrigin THEN "fetchTrunk" ELSE "rebase"]
    /\ UNCHANGED <<gitVars, runVars, ghosts, count>>

FetchTrunk(j) ==
    /\ At(j, "fetchTrunk")
    /\ \/ /\ tracking' = origin.main
          /\ tags' = Fetched(origin)
          /\ Goto(j, "rebase")
          /\ UNCHANGED count
       \/ NetFails /\ Finish(j) /\ UNCHANGED <<tracking, tags>>
    /\ UNCHANGED <<origin, branch, head, dirty, runVars, ghosts>>

\* `git rebase` in the project root, on the branch checked out; it refuses a
\* dirty tree, and a conflict is aborted; without a trunk merge refuses.
Rebase(j) ==
    LET onto == IF HasOrigin THEN tracking ELSE branch["main"]
    IN  /\ At(j, "rebase")
        /\ IF onto # Gone /\ ~dirty /\ RebaseWorks(branch[head], onto)
           THEN /\ branch' = [branch EXCEPT ![head] = Rebased(@, onto)]
                /\ Goto(j, "fastForward")
           ELSE Finish(j) /\ UNCHANGED branch
        /\ UNCHANGED <<origin, tracking, tags, head, dirty, runVars, ghosts,
                       count>>

FastForwardUnchecked(j) ==   \* mutant: a refused fast-forward goes on
    /\ At(j, "fastForward")
    /\ head' = "main"
    /\ branch' = IF IsPrefix(branch["main"], branch[job[j].feature])
                 THEN [branch EXCEPT !["main"] = branch[job[j].feature]]
                 ELSE branch
    /\ Goto(j, "tag")
    /\ UNCHANGED <<origin, tracking, tags, dirty, runVars, ghosts, count>>

FastForwardDetached(j) ==   \* mutant: checks out a commit, not the branch
    /\ At(j, "fastForward")
    /\ head' = "HEAD"
    /\ branch' = [branch EXCEPT !["main"] = branch[job[j].feature]]
    /\ Goto(j, "tag")
    /\ UNCHANGED <<origin, tracking, tags, dirty, runVars, ghosts, count>>

\* `git checkout main`, which a dirty tree may prevent, then
\* `git merge --ff-only <feature>`, which fails but leaves main checked out.
FastForward(j) ==
    /\ At(j, "fastForward")
    /\ \/ /\ head' = "main"
          /\ IF IsPrefix(branch["main"], branch[job[j].feature])
             THEN /\ branch' = [branch EXCEPT !["main"] = branch[job[j].feature]]
                  /\ Goto(j, "tag")
             ELSE Finish(j) /\ UNCHANGED branch
       \/ dirty /\ Finish(j) /\ UNCHANGED <<head, branch>>
    /\ UNCHANGED <<origin, tracking, tags, dirty, runVars, ghosts, count>>

\* VersionAlreadyReleased when the tag exists; else main, as it is now, gets
\* the version that the command read when it started.
Tag(j) ==
    LET v == job[j].version
    IN  /\ At(j, "tag")
        /\ IF v \in DOMAIN tags
           THEN Finish(j) /\ UNCHANGED <<tags, released>>
           ELSE /\ tags' = With(tags, v, branch["main"])
                /\ Goto(j, IF HasOrigin THEN "push" ELSE "deleteLocal")
                /\ released' = IF HasOrigin THEN released
                               ELSE released \cup {branch["main"]}
        /\ UNCHANGED <<origin, branch, tracking, head, dirty, runVars, tested,
                       made, count>>

PushMainOnly(j) ==   \* mutant: the tag is not among the refs
    /\ At(j, "push")
    /\ IsPrefix(origin.main, branch["main"])
    /\ origin' = [origin EXCEPT !.main = branch["main"]]
    /\ tracking' = branch["main"]
    /\ released' = released \cup {branch["main"]}
    /\ Goto(j, "deleteLocal")
    /\ UNCHANGED <<branch, tags, head, dirty, runVars, tested, made, count>>

\* `git push origin main v<version>`: each ref is accepted or rejected on its
\* own, a main that is not a fast-forward, a tag that exists; one rejection
\* makes the command fail, and what was accepted stays.
Push(j) ==
    LET v == job[j].version
        mainAccepted == IsPrefix(origin.main, branch["main"])
        tagAccepted == v \notin DOMAIN origin.tags
        accepted == [origin EXCEPT
            !.main = IF mainAccepted THEN branch["main"] ELSE @,
            !.tags = IF tagAccepted THEN With(@, v, tags[v]) ELSE @]
    IN  /\ At(j, "push")
        /\ \/ /\ origin' = accepted
              /\ tracking' = IF mainAccepted THEN branch["main"] ELSE tracking
              /\ released' = IF mainAccepted THEN released \cup {branch["main"]}
                                             ELSE released
              /\ IF mainAccepted /\ tagAccepted THEN Goto(j, "deleteLocal")
                                                ELSE Finish(j)
              /\ UNCHANGED count
           \/ NetFails /\ Finish(j) /\ UNCHANGED <<origin, tracking, released>>
        /\ UNCHANGED <<branch, tags, head, dirty, runVars, tested, made>>

\* `git branch -D`, which only a checked-out branch resists; a warning, then.
DeleteLocal(j) ==
    LET f == job[j].feature
    IN  /\ At(j, "deleteLocal")
        /\ branch' = IF head = f THEN branch ELSE [branch EXCEPT ![f] = Gone]
        /\ IF HasOrigin THEN Goto(j, "deleteRemote") ELSE Finish(j)
        /\ UNCHANGED <<origin, tracking, tags, head, dirty, runVars, ghosts,
                       count>>

DeleteRemote(j) ==
    /\ At(j, "deleteRemote")
    /\ Finish(j)
    /\ \/ /\ origin' = [origin EXCEPT !.features = @ \ {job[j].feature}]
          /\ UNCHANGED count
       \/ NetFails /\ UNCHANGED origin
    /\ UNCHANGED <<branch, tracking, tags, head, dirty, runVars, ghosts>>

----------------------------------------------------------------------------
(* The developer, in the same clone, and the teammates.                    *)

DevMay(act) == AllIdle \/ act \in DevBusy

Edit ==
    /\ DevMay("edit") /\ ~dirty /\ FixUps \ made # {}
    /\ dirty' = TRUE
    /\ UNCHANGED <<origin, branch, tracking, tags, head, runVars, job, ghosts,
                   count>>

\* A commit lands on whatever is checked out.  Nobody means to commit to
\* main, but a merge checks it out under the developer's hands.
Commit(c) ==
    /\ DevMay("edit") /\ dirty /\ c \in FixUps \ made
    /\ head # "main" \/ ~AllIdle
    /\ branch' = [branch EXCEPT ![head] = Append(@, c)]
    /\ dirty' = FALSE
    /\ made' = made \cup {c}
    /\ UNCHANGED <<origin, tracking, tags, head, runVars, job, tested, released,
                   count>>

Switch(b) ==
    /\ DevMay("switch") /\ ~dirty /\ b # head /\ branch[b] # Gone
    /\ head' = b
    /\ UNCHANGED <<origin, branch, tracking, tags, dirty, runVars, job, ghosts,
                   count>>

DevFetch ==
    /\ DevMay("fetch") /\ HasOrigin /\ tracking # origin.main
    /\ tracking' = origin.main
    /\ tags' = Fetched(origin)
    /\ UNCHANGED <<origin, branch, head, dirty, runVars, job, ghosts, count>>

\* A rebase by hand, conflicts resolved.
DevRebase ==
    /\ AllIdle /\ ~dirty /\ head # "main" /\ tracking # Gone
    /\ ~IsPrefix(tracking, branch[head])
    /\ branch' = [branch EXCEPT ![head] = Rebased(@, tracking)]
    /\ UNCHANGED <<origin, tracking, tags, head, dirty, runVars, job, ghosts,
                   count>>

\* A teammate pushes a change: one that bumps the version is a release of
\* their own docex, with its tag; one that does not was pushed by hand.
TeamPush(c) ==
    LET tip == Append(origin.main, c)
        v == Version[c]
    IN  /\ HasOrigin /\ (TeamBusy \/ AllIdle)
        /\ c \in TeamChanges \ ToSet(origin.main)
        /\ \/ v = 0
           \/ v > VersionOf(origin.main) /\ v \notin DOMAIN origin.tags
        /\ origin' = [origin EXCEPT
                         !.main = tip,
                         !.tags = IF v = 0 THEN @ ELSE With(@, v, tip)]
        /\ UNCHANGED <<branch, tracking, tags, head, dirty, runVars, job,
                       ghosts, count>>

----------------------------------------------------------------------------
CheckStep(j) ==
    \/ CheckClean(j) \/ CheckFetch(j) \/ AddWorktree(j) \/ RebaseTree(j)
    \/ Gates(j) \/ TestTree(j) \/ WriteRecord(j) \/ Cleanup(j)

MergeStep(j) ==
    \/ Preflight(j) \/ Recheck(j) \/ Identify(j) \/ FetchTrunk(j) \/ Rebase(j)
    \/ FastForward(j) \/ Tag(j) \/ Push(j) \/ DeleteLocal(j) \/ DeleteRemote(j)

DevStep ==
    \/ Edit \/ DevFetch \/ DevRebase
    \/ \E c \in FixUps : Commit(c)
    \/ \E b \in Branches : Switch(b)

Next ==
    \/ \E j \in Jobs : Start(j) \/ Kill(j) \/ CheckStep(j) \/ MergeStep(j)
    \/ DevStep
    \/ \E c \in TeamChanges : TeamPush(c)

Spec == Init /\ [][Next]_vars

----------------------------------------------------------------------------
(* Properties                                                              *)

\* The clone and its origin are left alone while a job runs, but for a fetch.
Quiet == HasOrigin /\ ~Overlap /\ ~TeamBusy /\ DevBusy \subseteq {"fetch"}

\* Every tree that a merge publishes as main was built and tested, in exactly
\* that form, by a check: the recheck, or the recorded green that stood in for
\* it, covered the very histories that were rebased and pushed.
PublishedWasChecked == released \subseteq tested

\* The provenance record is true: the tree it says was tested is the tree that
\* its feature tip rebased onto its trunk comes to, and it was tested.
RecordIsTrue ==
    record # NoRecord =>
        /\ record.tree \in tested
        /\ record.tree = Rebased(record.tip, record.trunk)

\* A published version tag points at a tree whose project.yml has that
\* version.
TagNamesItsTree ==
    \A v \in DOMAIN origin.tags : VersionOf(origin.tags[v]) = v

\* What the developer committed is never lost: some branch, here or on the
\* trunk, still has it, whatever branches the merges deleted by force.
NoCommitLost ==
    made \subseteq ToSet(origin.main)
                      \cup UNION {ToSet(branch[b]) : b \in Branches}

\* A check that works in its worktree works in its own, at its own commit,
\* and no other run removes it or moves it, though two runs at one commit
\* derive the same path.
OwnWorktree ==
    \A j \in Jobs :
        job[j].pc \in InWorktree => Present(j) /\ worktree[job[j].path].owner = j

\* The published trunk advances as the abstract Trunk says.
Published == INSTANCE Trunk WITH trunk <- origin.main, tags <- origin.tags
ImplementsTrunk == Published!Spec
=============================================================================
