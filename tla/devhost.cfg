SPECIFICATION Spec
CONSTANTS
    Commands = {c1, c2}
    Keys = {"pw", "key"}
    Documents <- MCDocuments
    SchemaKeys = {"pw"}
    MaxValues = 2
    MaxStarts = 3
    MaxFaults = 1
    MaxEdits = 1
SYMMETRY MCSymmetry
INVARIANTS CredentialSurvives GivenValueKept
PROPERTIES NeverLockedOut DevServesArtifacts
CHECK_DEADLOCK FALSE
