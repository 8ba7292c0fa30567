SPECIFICATION Spec
CONSTANTS
    p1 = p1
    p2 = p2
    st1 = st1
    st2 = st2
    day = day
    night = night
    late = late
    Guards = {g1, g2}
    Stations = {st1, st2}
    Positions = {p1, p2}
    StationOf <- MCStationOf
    Slots = {day, night, late}
    Overlaps <- MCOverlaps
    Assignments = {a1, a2}
    Requests = {q1, q2, q3, q4}
    Null = Null
    Concurrent = FALSE
    MaxFaults = 1
INVARIANTS TypeOK NoDoubleBooking ScheduleIsSound
SYMMETRY Symmetry
CHECK_DEADLOCK FALSE
