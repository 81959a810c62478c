------------------------------ MODULE Devices ------------------------------
(***************************************************************************)
(* The kernel's devices and what it prints on them: the built-in drivers   *)
(* that register devices at boot (sys/drivers), the device tree            *)
(* (sys/iomgr/devmgr.c), the list of outputs (sys/video/output.c), the log *)
(* (sys/lib/log.c), the last words of a kernel that cannot go on           *)
(* (sys/lib/panic.c), and the servers that take devices over               *)
(* (HandleDeviceObjectRequest, sys/syscall/object.c).                      *)
(*                                                                         *)
(* System calls and log calls are atomic; the last words are followed line *)
(* by line, since the kernel may fail again while it writes them.  Any     *)
(* allocation and any mapping may fail.  Messages are numbered.            *)
(***************************************************************************)
EXTENDS Integers, Sequences, FiniteSets, SequencesExt

CONSTANTS
    DriverDescriptors,  \* the built-in drivers, in the order of the section .drivers
    Servers,            \* processes with PROC_C_SERVER
    LOG_BUFSIZE,
    MaxLogs,            \* bound on the messages logged
    NullPointer

ASSUME DevicesAssumption ==
    /\ DriverDescriptors \in Seq({"serial86", "vgatext", "vbe86"})
    /\ \A i, j \in DOMAIN DriverDescriptors : DriverDescriptors[i] = DriverDescriptors[j] => i = j
    /\ LOG_BUFSIZE \in Nat \ {0} /\ MaxLogs \in Nat
    /\ NullPointer \notin {"serial86", "vgatext", "vbe86"}

VARIABLES
    pc,             \* where the kernel is
    next_driver,    \* the descriptor that BringBuiltinDriversOnline is at
    textmode,       \* Multiboot.fbtype = 2
    debug,          \* DRAGONWARE_DEBUG_MODE
    tree,           \* the children of the root of the device tree, in order
    list, current,  \* the outputs, and the primary one
    mapped,         \* devices whose memory the kernel has mapped
    claimed,        \* devices with attr.claimed
    alive,          \* servers that run
    object,         \* the device object of each server: the device, or NullPointer
    usermap,        \* devices mapped into each server
    logged,         \* number of messages logged
    logbuffer, logs_flushed,
    unflushed,      \* history: messages logged before FlushAllLogs
    shown,          \* what has been printed on each device
    panicking

boot == <<next_driver, textmode, debug>>
registry == <<tree, list, current, mapped, claimed>>
processes == <<alive, object, usermap>>
log == <<logged, logbuffer, logs_flushed, unflushed>>
deviceVars == <<pc, boot, registry, processes, log, shown, panicking>>

Devices == {"serial86", "vgatext", "vbe86"}
ROOT_DEVICE_NAME == "Devices"

DevicesInit ==
    /\ pc = "manager" /\ next_driver = 1
    /\ textmode \in BOOLEAN /\ debug \in BOOLEAN
    /\ tree = << >> /\ list = << >> /\ current = NullPointer
    /\ mapped = {} /\ claimed = {}
    /\ alive = Servers
    /\ object = [p \in Servers |-> NullPointer]
    /\ usermap = [p \in Servers |-> {}]
    /\ logged = 0 /\ logbuffer = << >> /\ logs_flushed = FALSE /\ unflushed = 0
    /\ shown = [d \in Devices |-> << >>]
    /\ panicking = FALSE

-----------------------------------------------------------------------------
(* The log *)

(* The outputs, all of them consoles, that PrintToOutputs writes on. *)
Outputs == IF debug THEN ToSet(list) ELSE {current}

PrintToOutputs(m) == [d \in Devices |-> IF d \in Outputs THEN shown[d] \o m ELSE shown[d]]

(* NAME_Fault, here and below, is NAME with a slip that the properties at  *)
(* the end must notice.                                                    *)
klog_AlwaysPrints ==
    /\ logged < MaxLogs
    /\ logged' = logged + 1
    /\ shown' = PrintToOutputs(<<logged + 1>>)
    /\ logbuffer' = IF Len(logbuffer) + 1 >= LOG_BUFSIZE THEN logbuffer ELSE Append(logbuffer, logged + 1)
    /\ unflushed' = IF logs_flushed THEN unflushed ELSE logged + 1
    /\ UNCHANGED logs_flushed

klog ==
    /\ logged < MaxLogs
    /\ logged' = logged + 1
    /\ shown' = IF logs_flushed THEN PrintToOutputs(<<logged + 1>>) ELSE shown
    /\ logbuffer' = IF Len(logbuffer) + 1 >= LOG_BUFSIZE THEN logbuffer ELSE Append(logbuffer, logged + 1)
    /\ unflushed' = IF logs_flushed THEN unflushed ELSE logged + 1
    /\ UNCHANGED logs_flushed

Running == pc \in {"manager", "early", "late", "flush", "run"}

LogMessage ==
    /\ Running
    /\ klog
    /\ UNCHANGED <<pc, panicking>> /\ UNCHANGED boot /\ UNCHANGED registry /\ UNCHANGED processes

FlushAllLogs ==
    /\ pc = "flush"
    /\ pc' = "run"
    /\ shown' = IF logs_flushed THEN shown ELSE PrintToOutputs(logbuffer)
    /\ logs_flushed' = TRUE
    /\ UNCHANGED <<logged, logbuffer, unflushed, panicking>>
    /\ UNCHANGED boot /\ UNCHANGED registry /\ UNCHANGED processes

-----------------------------------------------------------------------------
(* The last words *)

Banner == -1
RegisterDump == -2
BacktraceDump == -3
Advice == -4
LastWords == <<Banner, RegisterDump, BacktraceDump, Advice>>

(* PrintStringToAllOutputs *)
PrintToAll(m) == [d \in Devices |-> IF d \in ToSet(list) THEN Append(shown[d], m) ELSE shown[d]]

(* ResetConsole of every console; ResetSerialConsole has nothing to reset. *)
ResetConsoles == [d \in Devices |-> IF d \in ToSet(list) \ {"serial86"} THEN << >> ELSE shown[d]]

FatalError_PrintsAgain ==
    /\ panicking' = TRUE
    /\ pc' = "banner"
    /\ shown' = ResetConsoles

(* FatalError and FatalErrorWithStackFrame, up to the reset of the         *)
(* consoles: the second fatal error reboots.                               *)
FatalError ==
    /\ panicking' = TRUE
    /\ IF panicking
       THEN pc' = "reboot" /\ UNCHANGED shown
       ELSE pc' = "banner" /\ shown' = ResetConsoles

PanicStep(at, m, then) ==
    /\ pc = at
    /\ pc' = then
    /\ shown' = PrintToAll(m)
    /\ UNCHANGED panicking

DumpRegisterValues == PanicStep("registers", RegisterDump, "backtrace")

(* The frame pointers that the backtrace follows need not be any. *)
DumpBacktraceFromFramePointer ==
    \/ PanicStep("backtrace", BacktraceDump, "advice")
    \/ pc = "backtrace" /\ FatalError

Panic ==
    /\ \/ PanicStep("banner", Banner, "registers")
       \/ DumpRegisterValues
       \/ DumpBacktraceFromFramePointer
       \/ PanicStep("advice", Advice, "stalled")
    /\ UNCHANGED boot /\ UNCHANGED registry /\ UNCHANGED processes /\ UNCHANGED log

(* _DWExceptionHandler for an exception of the kernel: most are fatal, two *)
(* halt, and the rest are logged.                                          *)
KernelException ==
    /\ Running
    /\ \/ FatalError /\ UNCHANGED log
       \/ klog /\ pc' \in {pc, "stalled"} /\ UNCHANGED panicking
    /\ UNCHANGED boot /\ UNCHANGED registry /\ UNCHANGED processes

-----------------------------------------------------------------------------
(* Booting *)

InitDeviceManager ==
    /\ pc = "manager"
    /\ \/ klog /\ pc' = "early" /\ UNCHANGED panicking
       \/ FatalError /\ UNCHANGED log
    /\ UNCHANGED boot /\ UNCHANGED registry /\ UNCHANGED processes

(* There may be no memory for an entry. *)
AddNewOutputDevice(d) ==
    \/ UNCHANGED <<list, current>>
    \/ /\ list' = Append(list, d)
       /\ current' = IF current = NullPointer THEN Head(list') ELSE current

AddDevice(d) == tree' = Append(tree, d) /\ AddNewOutputDevice(d)

InitEarlier(d) == d \in {"serial86", "vgatext"}

(* What a driver's initialisation comes to: its device is registered; or it *)
(* has none, unsupported or out of memory; or the kernel fails in it.       *)
Registered(d) ==
    /\ mapped' = mapped \cup ({d} \ {"serial86"})
    /\ AddDevice(d)
    /\ klog
    /\ UNCHANGED <<claimed, pc, panicking>>

Skipped == klog /\ UNCHANGED <<registry, pc, panicking>>

Faulted == FatalError /\ UNCHANGED <<registry, log>>

Serial86Init ==
    \/ Skipped
    \/ debug /\ Registered("serial86")

(* The text memory is cleared even when mapping it has failed. *)
VGATextInit ==
    \/ Skipped
    \/ textmode /\ (Registered("vgatext") \/ Faulted)

(* A framebuffer at the end of memory is fatal.  Without memory for its    *)
(* private state the driver gives up with the framebuffer mapped.          *)
VBE86DriverInit ==
    \/ Skipped
    \/ ~textmode /\ (Registered("vbe86") \/ Faulted)
    \/ /\ ~textmode
       /\ mapped' = mapped \cup {"vbe86"}
       /\ klog
       /\ UNCHANGED <<tree, list, current, claimed, pc, panicking>>

(* BringBuiltinDriversOnline: the early drivers, then the others. *)
BringDriverOnline ==
    /\ pc \in {"early", "late"} /\ next_driver <= Len(DriverDescriptors)
    /\ LET d == DriverDescriptors[next_driver]
       IN  IF InitEarlier(d) # (pc = "early")
           THEN UNCHANGED <<pc, panicking, shown, registry, log>>
           ELSE \/ d = "serial86" /\ Serial86Init
                \/ d = "vgatext" /\ VGATextInit
                \/ d = "vbe86" /\ VBE86DriverInit
    /\ next_driver' = next_driver + 1
    /\ UNCHANGED <<textmode, debug>> /\ UNCHANGED processes

PassEnds ==
    /\ pc \in {"early", "late"} /\ next_driver > Len(DriverDescriptors)
    /\ pc' = IF pc = "early" THEN "late" ELSE "flush"
    /\ next_driver' = 1
    /\ UNCHANGED <<textmode, debug, shown, panicking>>
    /\ UNCHANGED registry /\ UNCHANGED processes /\ UNCHANGED log

-----------------------------------------------------------------------------
(* Servers *)

(* A path is a sequence of names.  strchr finds the last slash, so that    *)
(* the name of the root is skipped only in paths of one or two names; the  *)
(* drivers' devices have no children.                                      *)
GetDeviceFromPath(path) ==
    LET names == IF Len(path) \in {1, 2} /\ path[1] = ROOT_DEVICE_NAME THEN Tail(path) ELSE path
    IN  CASE names = << >> -> ROOT_DEVICE_NAME
          [] Len(names) = 1 /\ names[1] \in ToSet(tree) -> names[1]
          [] OTHER -> NullPointer

Paths == UNION {[1..n -> Devices \cup {ROOT_DEVICE_NAME}] : n \in 0..3}

DeviceGet(p) ==
    /\ pc = "run" /\ p \in alive
    /\ \E d \in {GetDeviceFromPath(path) : path \in Paths} : object' = [object EXCEPT ![p] = d]
    /\ UNCHANGED <<pc, alive, usermap, shown, panicking>>
    /\ UNCHANGED boot /\ UNCHANGED registry /\ UNCHANGED log

RemoveKernelOutput_NoFallback(d) ==
    /\ mapped' = mapped \ {d}
    /\ list' = SelectSeq(list, LAMBDA e : e # d)
    /\ UNCHANGED current

(* The kernel's mapping goes with the entry; the next output, or else the  *)
(* first, becomes the primary one.                                         *)
RemoveKernelOutput(d) ==
    IF d \notin ToSet(list)
    THEN UNCHANGED <<list, current, mapped>>
    ELSE LET i == CHOOSE j \in DOMAIN list : list[j] = d
         IN  /\ mapped' = mapped \ {d}
             /\ list' = RemoveAt(list, i)
             /\ current' = CASE d # current -> current
                             [] d = current /\ i < Len(list) -> list[i + 1]
                             [] d = current /\ i = Len(list) /\ list' # << >> -> Head(list')
                             [] OTHER -> NullPointer

(* The message is the last that the kernel prints on the device. *)
DeviceClaim(p) ==
    /\ pc = "run" /\ p \in alive
    /\ object[p] # NullPointer /\ object[p] \notin claimed
    /\ claimed' = claimed \cup {object[p]}
    /\ klog
    /\ RemoveKernelOutput(object[p])
    /\ UNCHANGED <<pc, tree, panicking>> /\ UNCHANGED boot /\ UNCHANGED processes

(* DEVICE_MAP reads attr.claimed of a null device, a page fault.  Whoever  *)
(* claimed the device, it is mapped; a mapping that fails may be partial.  *)
DeviceMap(p) ==
    /\ pc = "run" /\ p \in alive
    /\ \/ /\ object[p] = NullPointer
          /\ FatalError
          /\ UNCHANGED usermap
       \/ /\ object[p] \in claimed
          /\ usermap' = [usermap EXCEPT ![p] = @ \cup {object[p]}]
          /\ UNCHANGED <<pc, shown, panicking>>
    /\ UNCHANGED <<alive, object>>
    /\ UNCHANGED boot /\ UNCHANGED registry /\ UNCHANGED log

(* _DWUserException.  What a server has claimed stays claimed. *)
UserException(p) ==
    /\ pc = "run" /\ p \in alive
    /\ klog
    /\ alive' = alive \ {p}
    /\ object' = [object EXCEPT ![p] = NullPointer]
    /\ usermap' = [usermap EXCEPT ![p] = {}]
    /\ UNCHANGED <<pc, panicking>> /\ UNCHANGED boot /\ UNCHANGED registry

-----------------------------------------------------------------------------
DevicesNext ==
    \/ LogMessage \/ FlushAllLogs
    \/ KernelException \/ Panic
    \/ InitDeviceManager \/ BringDriverOnline \/ PassEnds
    \/ \E p \in Servers : DeviceGet(p) \/ DeviceClaim(p) \/ DeviceMap(p) \/ UserException(p)

(* The last words are written with interrupts disabled: nothing else runs. *)
DevicesSpec == DevicesInit /\ [][DevicesNext]_deviceVars /\ WF_deviceVars(Panic)

-----------------------------------------------------------------------------
(* A device that a server has claimed or mapped is no output of the        *)
(* kernel's any more, what the kernel prints on is still mapped, and as    *)
(* long as there is an output, one of the outputs is the primary one:      *)
(* RemoveKernelOutput finds a fallback.                                    *)
KernelLetsGo ==
    /\ \A d \in ToSet(list) :
          /\ d \in mapped \cup {"serial86"}
          /\ d \notin claimed
          /\ \A p \in Servers : d \notin usermap[p]
    /\ current = NullPointer <=> list = << >>
    /\ current # NullPointer => current \in ToSet(list)

(* "Avoid printing duplicate logs or inserting new logs in the middle of   *)
(* early ones" (klog): no output shows a message twice or out of order;    *)
(* and after FlushAllLogs, while there is an output, every message has     *)
(* been shown on some output, except what did not fit in the buffer before.*)
LogIsShown ==
    ~panicking =>
        /\ \A d \in Devices : \A i, j \in DOMAIN shown[d] : i < j => shown[d][i] < shown[d][j]
        /\ logs_flushed /\ list # << >> =>
              UNION {ToSet(shown[d]) : d \in Devices}
                  = {m \in 1..logged : m < LOG_BUFSIZE \/ m > unflushed}

(* A fatal error is the end: either all of the last words stand last on    *)
(* every output, or the kernel failed while it wrote them and reboots.     *)
PanicEnds ==
    panicking ~> \/ pc = "reboot"
                 \/ pc = "stalled" /\ \A d \in ToSet(list) : IsSuffix(LastWords, shown[d])

============================================================================
