SPECIFICATION Spec
CONSTANTS
    p1 = p1
    p2 = p2
    p3 = p3
    i1 = i1
    i2 = i2
    i3 = i3
    i4 = i4
    Procs = {p1, p2, p3}
    AgentIds = {i1, i2, i3, i4}
    CliAgentId <- MCCliAgentId
    EnvAgentId <- MCEnvAgentId
    Contents = {j1, j2}
    Null = Null
    Torn = Torn
    Down = Down
    MaxTemps = 3
SYMMETRY MCSymmetry
INVARIANTS
    TypeOK
    OrphansAreMishaps
PROPERTIES
    ImplementsAtomicJournal
