SPECIFICATION Spec
CONSTANTS
    Null = Null
    Pids = {p1, p2}
    Period = 1
    Ttl = 3
    Mishaps = {"race"}
    MaxMishaps = 1
INVARIANTS JobsOnOneInstance
