SPECIFICATION DriversSpec
CONSTANTS
    p1 = p1  p2 = p2  p3 = p3
    Processes = {p1, p2, p3}
    Threads = {0, 1, 2, 3, 4}
    Owner <- MCOwner
    Ports = {i1, i2, i3}
    MAX_IO_PORTS_PER_PROCESS = 2
    NoProcess = NoProcess
    Clients = {c1, c2}
    MAX_MESSAGES_IN_PORT = 2
    MaxKeys = 3
    MaxRequests = 3
    NullPointer = NullPointer
\* A keyboard that nobody uses rests.
CHECK_DEADLOCK FALSE
INVARIANTS
    PortsUsable
    RelayedOnce
    
PROPERTIES
    PortsStayConfined
    KeysAreRead
