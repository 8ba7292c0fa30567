SPECIFICATION FairSpec
CONSTANTS
    g1 = g1
    a = a
    b = b
    early = early
    late = late
    other = other
    Null = Null
    Guards = {g1}
    Stations = {a, b}
    Shifts = {early, late, other}
    Sched <- MCSched
    Assigned = {}
    Records = {r1}
    Punches = {p1}
    Sweepers = {w1, w2}
    EarlyWindow = 1
    MatchWindow = 3
    DayLength = 10
    Grace = 1
    MaxOpen = 3
    Overlap = FALSE
    MaxSessions = 1
    MaxFaults = 1
    Horizon = 3
INVARIANTS OneSweepPerRecord NoWedgedRecord
PROPERTIES OverdueShiftCloses DutyConverges
CHECK_DEADLOCK FALSE
