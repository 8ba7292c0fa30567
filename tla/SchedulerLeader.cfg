SPECIFICATION FairSpec
CONSTANTS
    Null = Null
    Pids = {p1, p2, p3}
    Period = 1
    Ttl = 3
    Mishaps = {"race", "stall", "open", "io"}
    MaxMishaps = 2
INVARIANTS TypeOK OneLeader JobsWhenCalm
PROPERTIES Settles
