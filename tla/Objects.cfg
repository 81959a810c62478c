SPECIFICATION Spec
CONSTANTS
    Processes = {a, b}
    MAX_OBJ_PER_PROCESS = 2
    ObjCells = {o1, o2}
    PortCells = {c1, c2}
    PortNames = {n, long}
    LongNames = {long}
    MaxRefcnt = 2
    Freed = Freed
    NullPointer = NullPointer
\* Every process may exit.
CHECK_DEADLOCK FALSE
SYMMETRY Interchangeable
INVARIANTS
    
    NamesUnique
    ReplyPortReachable
