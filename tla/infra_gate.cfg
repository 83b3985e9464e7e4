SPECIFICATION Spec
CONSTANTS
    Operators = {o1}
    NoOne = NoOne
    Envs = {stage}
    Codebases = {api}
    MaxCommands = 3
    MaxFaults = 1
INVARIANT GateSeesEveryEnv
