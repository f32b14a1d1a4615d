SPECIFICATION Spec
CONSTANTS
    c1 = c1
    c2 = c2
    a1 = a1
    a2 = a2
    Null = Null
    Commands = {c1}
    Agents = {a1, a2}
    DelayMs = {1}
    LeaseMs = {1}
    MaxLeaseMs = 1
    HeartbeatIntervalMs = 1
    MaxTimeoutMs = 1000
    ExtendMs <- MCExtendMs
    Results <- MCResults
    MaxNow = 8
    MaxClockSkewMs = 0
    QuietAfter = 1
    MaxLeases = 3
    Faults = {"agent", "server", "network", "save", "stop"}
    MaxFaults = 2
SYMMETRY AgentSymmetry
INVARIANTS
    TypeOK
    JournalsMatchTable
    ResultMatchesLease
    OneFetchPerClaim
    ReportIsSaved
PROPERTIES
    ImplementsSessions
