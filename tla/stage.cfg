SPECIFICATION Spec
CONSTANTS
    Operators = {o1, o2}
    Services = {"api", "clock"}
    Keys = {"db", "cache"}
    MaxVersion = 2
    Shape <- MCShape
    Declares <- MCDeclares
    MaxValues = 3
    MaxCommands = 2
    MaxFaults = 1
    Clocks = {"clock"}
    TaskIds = {1, 2, 3}
SYMMETRY MCSymmetry
INVARIANTS HostCredentialKept FixedSchemaBeforeCode DeployedCanLogIn CertificateIsTrue
CHECK_DEADLOCK FALSE
