SPECIFICATION Spec
CONSTANTS
    MAX_TEST_SLOTS = 2
    Widths <- MCWidths
    MaxLaunches = 3
    MaxKills = 1
    MaxDownFailures = 1
INVARIANTS CleanSlate GreenCoversSuite TestLeavesNothingElse
PROPERTIES StackUndisturbed
CHECK_DEADLOCK FALSE
