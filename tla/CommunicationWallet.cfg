SPECIFICATION Spec
CONSTANTS
    note = note
    alert = alert
    Messages = {note, alert}
    Plan <- MCPlan
    Critical = {alert}
    Estimate <- MCEstimate
    Actual <- MCActual
    Sessions = {s1}
    Amount = 3
    Lookback = 2
    Hooks = {h1}
    Job = job
    Null = Null
    Opening = 3
    MaxDeliveries = 2
    MaxFaults = 1
    Horizon = 3
INVARIANTS TypeOK LogIsLedger NoUnbilledSend NoOverdraft RechargeArrives
CHECK_DEADLOCK FALSE
