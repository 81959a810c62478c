CONSTANTS
    NFrames = 10
    FirstHighFrame = 4
    FRAME_SIZE = 4
    MAX_MEM_REGIONS = 3
    MAX_RESERVED = 3
    Maps <- HoleMaps
    Kernel <- KernelImage
    ModuleLists <- TwoModules
    SECTOR_SIZE = 2
    CD_SECTOR_SIZE = 4
    FAT_ENTRIES = 8
    FAT32_EOF = 12
    DESCRIPTOR_ADDR_LBA = 1
    max_search = 3
    MAX_READ_RETRIES = 3
    MAX_SYSTEM_DRIVES = 2
    FirstCD = 224
    HIGH_MEMORY_START = 16
    REQUIRED_SYSMEM = 4
    E820_MAX_ENTRIES = 3
    MULTIBOOT_SEARCH_FOR = 4
    KernelPath = "kernel"
    TextModules <- TextList
    VideoModules <- VideoList
    Machines <- BootMachines
SPECIFICATION SystemSpec
CHECK_DEADLOCK FALSE
INVARIANTS
    BitmapMatchesMap
    
    KernelIsIntact
    
    SelectionIsThere

    
