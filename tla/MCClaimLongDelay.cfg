SPECIFICATION Spec
CONSTANTS
    c1 = c1
    c2 = c2
    a1 = a1
    a2 = a2
    Null = Null
    Commands = {c1}
    Agents = {a1}
    DelayMs = {3}
    LeaseMs = {1}
    MaxLeaseMs = 1
    HeartbeatIntervalMs = 1
    MaxTimeoutMs = 2
    ExtendMs <- MCExtendMs
    Results <- MCResults
    MaxNow = 8
    MaxClockSkewMs = 0
    QuietAfter = 2
    MaxLeases = 2
    Faults = {}
    MaxFaults = 0
INVARIANTS
    LongDelayNotEarly
