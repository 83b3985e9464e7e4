SPECIFICATION Spec
CONSTANTS
    HasOrigin = TRUE
    Features = {"f1", "f2"}
    FeatureStart <- MCFeatureStart
    TrunkStart <- MCTrunkStart
    Changes <- MCChanges
    Version <- MCVersion
    Conflicts <- MCConflicts
    FixUps = {"fix"}
    TeamChanges = {"t"}
    DevBusy = {"fetch"}
    Overlap = FALSE
    TeamBusy = FALSE
    MaxStarts = 2
    MaxKills = 1
    MaxNetFailures = 0
INVARIANTS TypeOK PublishedWasChecked RecordIsTrue TagNamesItsTree
PROPERTIES ImplementsTrunk
CHECK_DEADLOCK FALSE
