SPECIFICATION Spec
CONSTANTS
    Clients = {c1, c2}
    MAX_MESSAGES_IN_PORT = 2
    MaxKeys = 4
    MaxPrints = 2
    NullPointer = NullPointer
\* A console that nobody uses rests.
CHECK_DEADLOCK FALSE
INVARIANTS
    
    PrintedInOrder
PROPERTY
    PrintfReturns
