SPECIFICATION Spec
CONSTANTS
    HasOrigin = TRUE
    Features = {"f1", "f2"}
    FeatureStart <- MCFeatureStart
    TrunkStart <- MCTrunkStart
    Changes <- MCChanges
    Version <- MCVersion
    Conflicts <- MCConflicts
    FixUps = {"fix"}
    TeamChanges = {"u"}
    DevBusy = {"edit", "fetch"}
    Overlap = TRUE
    TeamBusy = TRUE
    MaxStarts = 2
    MaxKills = 0
    MaxNetFailures = 1
INVARIANTS NoCommitLost OwnWorktree
CHECK_DEADLOCK FALSE
