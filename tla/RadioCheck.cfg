SPECIFICATION Spec
CONSTANTS
    Stations = {p1}
    Unmanned = {p1}
    Supervisors = {v1}
    OnDuty = {v1}
    Sessions = {s1}
    Job = job
    Null = Null
    Window = 1
    Patience = 1
    MaxFaults = 1
INVARIANTS TypeOK CountersAddUp
PROPERTIES FirstOutcomeStands RollCallEnds
