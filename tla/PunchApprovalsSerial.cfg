SPECIFICATION Spec
CONSTANTS
    Null = Null
    Taps = {t1}
    Supervisors = {s1}
    LateLimit = 0
    EarlyUntil = 4
    Life = 1
    MaxReqs = 3
    MaxFaults = 1
    Horizon = 4
INVARIANTS TypeOK ApprovalUsedOnce OneOpenLateRequest
CHECK_DEADLOCK FALSE
