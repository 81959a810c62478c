SPECIFICATION Spec
CONSTANTS
    DriverDescriptors <- Descriptors
    Servers = {s1, s2}
    LOG_BUFSIZE = 4
    MaxLogs = 6
    NullPointer = NullPointer
    WIDTH = 4  HEIGHT = 3  PADDING = 2  TAB = 2
    MaxText = 7
    LOG = 3  INT_BITS = 7  Cells = 8  MaxConversions = 2
\* The machine stops when the kernel stalls or reboots.
CHECK_DEADLOCK FALSE
INVARIANTS
    KernelLetsGo
    LogIsShown
    ShowsEndOfText
    FormatFits
    ArithmeticIsExact
PROPERTY
    PanicEnds
