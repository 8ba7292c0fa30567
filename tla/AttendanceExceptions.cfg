SPECIFICATION FairSpec
CONSTANTS
    Jobs = {j1, j2}
    LateGrace = 0
    NoShow = 1
    ShiftEnd = 3
    EarlyOut = 1
    MissedOut = 0
    Window = 9
    MaxMoves = 1
    MaxFaults = 1
    Horizon = 5
INVARIANTS TypeOK 
PROPERTIES NoShowIsFlagged
CHECK_DEADLOCK FALSE
