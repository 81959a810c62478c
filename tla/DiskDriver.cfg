SPECIFICATION FairSpec
CONSTANTS
    Listeners = {0, 1}
    Masters = {0}
    Lbas = {0, 1}
    LbaLimit = 2
    CacheSize = 2
    Requests <- MCRequests
    Data = {x, y}
    LatchesINTRQ = FALSE
    NullPointer = NullPointer
\* idedrv exits when it finds no drive.
CHECK_DEADLOCK FALSE
INVARIANTS
    ReadsAreFresh
    CacheCoherent

    
