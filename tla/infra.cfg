SPECIFICATION Spec
CONSTANTS
    Operators = {o1, o2}
    NoOne = NoOne
    Envs = {stage, prod}
    Codebases = {api}
    MaxCommands = 3
    MaxFaults = 1
INVARIANTS StateOutlivesResources EnvHasItsTier ProtectedStaysWhole
PROPERTIES TierIsCompleted
