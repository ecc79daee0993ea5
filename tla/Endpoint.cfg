SPECIFICATION EndpointSpec
CHECK_DEADLOCK FALSE
CONSTANTS
    c1 = c1
    c2 = c2
    c3 = c3
    Candidates <- MCCandidates
    Other = Other
    Latencies = {0, 100, 200}
    Threshold = 150
    Margin = 30
    Sustained = 1
    Cooldown = 8
    TTL = 3
    Reconnects = {r1, r2}
    Loop = Loop
    None = None
    MaxEvents = 2
PROPERTIES
    NoChurn
    DeadIsLeft
    WindowOpens
