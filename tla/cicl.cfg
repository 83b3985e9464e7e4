SPECIFICATION Spec
CONSTANTS
    Project <- ProjectName
    ApexDomain <- Apex
    Chars <- Lengths
    Sources <- AllSources
    Editable <- GoTo
    Slots = {1, 2}
    MaxEdits = 1
    MaxCompiles = 2
INVARIANTS NamesDistinct RefsLand KeysHaveOneSource VerdictIsTrue
CHECK_DEADLOCK FALSE
