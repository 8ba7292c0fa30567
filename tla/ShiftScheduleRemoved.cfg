SPECIFICATION Spec
CONSTANTS
    p1 = p1
    p2 = p2
    st1 = st1
    st2 = st2
    day = day
    night = night
    late = late
    Guards = {g1}
    Stations = {st1}
    Positions = {p1, p2}
    StationOf <- MCOneStation
    Slots = {day, night, late}
    Overlaps <- MCOverlaps
    Assignments = {a1, a2}
    Requests = {q1, q2, q3}
    Null = Null
    Concurrent = FALSE
    MaxFaults = 0
INVARIANT RemovedRowsDoNotBlock
CHECK_DEADLOCK FALSE
