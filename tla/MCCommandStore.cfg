SPECIFICATION StoreSpec
CONSTANTS
    c1 = c1
    c2 = c2
    a1 = a1
    a2 = a2
    Null = Null
    Commands = {c1, c2}
    Agents = {a1, a2}
    DelayMs = {2}
    LeaseMs = {0, 2}
    ExtendMs = {1}
    Results <- MCResults
    MaxNow = 2
    MaxLeases = 3
SYMMETRY MCSymmetry
CHECK_DEADLOCK FALSE
INVARIANTS
    StoreTypeOK
    RowsConsistent
    LeaseExclusive
    AttemptsMatchClaims
    NoOvertaking
PROPERTIES
    TerminalIsFinal
    UnexpiredLeaseHonoured
    StaleLeaseNeverReturns
    ImplementsLifecycle
