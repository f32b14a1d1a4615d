SPECIFICATION FairSpec
CONSTANTS
    c1 = c1
    c2 = c2
    a1 = a1
    a2 = a2
    Null = Null
    Commands = {c1}
    Agents = {a1}
    DelayMs = {2}
    LeaseMs = {1}
    MaxLeaseMs = 1
    HeartbeatIntervalMs = 2
    MaxTimeoutMs = 3
    ExtendMs <- MCExtendMs
    Results <- MCResults
    MaxNow = 12
    MaxClockSkewMs = 1
    QuietAfter = 1
    MaxLeases = 3
    Faults = {"agent", "server", "network", "save", "delete", "read", "stop"}
    MaxFaults = 2
INVARIANTS
    DelayNotEarly
PROPERTIES
    SavedResultKept
    AgentsKeepPolling
    QueueDrains
    SavedResultDelivered
