SPECIFICATION Spec
CONSTANTS
    Null = Null
    Kinds <- MCKinds
    Code <- MCCode
    Urgency <- MCUrgency
    Category <- MCCategory
    LinkTests = {"linkTest"}
    Sla <- MCSla
    Channels = {c1}
    RunawayWindow = 0
    Grouping = 1
    MaxReports = 2
    MaxMoves = 1
    MaxFaults = 1
    Horizon = 2
INVARIANTS TypeOK AlarmHasCase CasesPerChannel
PROPERTIES ImplementsReporting UnansweredCaseEscalates
CHECK_DEADLOCK FALSE
