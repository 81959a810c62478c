SPECIFICATION IpcSpec
CONSTANTS
    idle = idle  m1 = m1  s1 = s1  m2 = m2  p1 = p1  p2 = p2
    port1 = port1  port2 = port2  port3 = port3
    NullPointer = NullPointer
    Threads <- MCThreads
    Idle = idle
    BootThreads <- MCBootThreads
    Owner <- MCOwner
    Priority <- MCPriority
    QuantumRange = 62
    OrphanPorts = FALSE
    Ports <- MCPorts
    PortOwner <- MCPortOwner
    MAX_MESSAGES_IN_PORT = 2
INVARIANT
    BlockedWithoutMessages
