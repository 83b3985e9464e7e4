SPECIFICATION Spec
CONSTANTS
    Launchers = {c1, c2}
    Readers = {}
    Scopes = {"test"}
    MaxRuns = 3
    MaxVesselKills = 0
    MaxClientKills = 0
    MaxDaemonErrors = 0
    MaxTeardownFailures = 0
PROPERTIES LiveRunUndisturbed
CHECK_DEADLOCK FALSE
