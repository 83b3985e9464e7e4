SPECIFICATION FairSpec
CONSTANTS
    Launchers = {c1}
    Readers = {c1}
    Scopes = {"check"}
    MaxRuns = 3
    MaxVesselKills = 2
    MaxClientKills = 1
    MaxDaemonErrors = 0
    MaxTeardownFailures = 0
INVARIANTS FreedRunIsAccountedFor
PROPERTIES ImplementsHandle AttachReturns NextLaunchHeals
