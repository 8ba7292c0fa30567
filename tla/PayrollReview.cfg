SPECIFICATION Spec
CONSTANTS
    Null = Null
    Editors = {e1, e2}
    MaxCorrs = 2
    MaxSaves = 2
    MaxPunches = 1
    MaxFaults = 1
INVARIANTS TypeOK CorrectionsSettle
PROPERTY ClosedIsReadOnly
SYMMETRY Symmetry
CHECK_DEADLOCK FALSE
