SPECIFICATION Spec
CONSTANTS
    NFrames = 28
    NPageTables = 2
    FirstPage = 1
    HEAP_BASE = 5
    HEAP_BREAK = 11
    KERNEL_STACK_BASE = 10
    KERNEL_STACK_END = 18
    TMPMAP_MAX_PAGES = 4
    VIRT_OFFSET = 0
    Slabs <- MCSlabs
    SlabSize <- MCSlabSize
    USER_STACK_SIZE_PAGES = 1
    ModuleSizes <- MCModuleSizes
    HugePages = 2
    MaxBlocks = 3
    MaxThreads = 2
INVARIANTS
    MemoryIsPrivate
    ObjectsGivenOnce

    
\* FatalError stops the machine.
CHECK_DEADLOCK FALSE
