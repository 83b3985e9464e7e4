SPECIFICATION FairSpec
CONSTANTS
    Operators = {op}
    NoOne = NoOne
    Services = {"web", "worker"}
    Uses <- MCSmallUses
    Owners = {"api"}
    MaxVersion = 2
    Shape <- MCSmallShape
    MaxEdits = 1
    MaxRollbacks = 1
    MaxFaults = 2
INVARIANTS TypeOK SuccessIsServing
PROPERTIES SchemaBeforeCode ReleaseConverges
