SPECIFICATION ListSpec
CONSTANTS
    idle = idle  m1 = m1  s1 = s1  s2 = s2  m2 = m2  p1 = p1  p2 = p2
    NullPointer = NullPointer
    Threads <- MCThreads
    Idle = idle
    BootThreads <- MCBootThreads
    Owner <- MCOwner
    Priority <- MCPriority
    QuantumRange = 62
    OrphanPorts = TRUE
    HandleOrder <- MCHandleOrder
INVARIANTS
    OneRunner
    AlwaysATask
    ListIsComplete
PROPERTIES
    WalkAgrees
