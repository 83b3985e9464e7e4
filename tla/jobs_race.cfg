SPECIFICATION Spec
CONSTANTS
    Launchers = {c1, c2}
    Readers = {}
    Scopes = {"test"}
    MaxRuns = 3
    MaxVesselKills = 1
    MaxClientKills = 1
    MaxDaemonErrors = 1
    MaxTeardownFailures = 1
SYMMETRY ClientSymmetry
INVARIANTS NameIsLock ExitIsHonest
CHECK_DEADLOCK FALSE
