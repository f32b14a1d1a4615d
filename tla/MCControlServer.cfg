SPECIFICATION FairSpec
CONSTANTS
    c1 = c1
    a1 = a1
    k1 = k1
    k2 = k2
    Null = Null
    Commands = {c1}
    Agents = {a1}
    DelayMs = {}
    LeaseMs = {1}
    ExtendMs = {1}
    Results <- MCResults
    MaxNow = 2
    MaxLeases = 2
    Connections = {k1, k2}
    ForceMs = 1
CHECK_DEADLOCK FALSE
INVARIANTS
    ServerTypeOK
    ToldStaysTrue
    OneReportAccepted
PROPERTIES
    ImplementsStore
    ShutdownEnds
