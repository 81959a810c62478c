------------------------------ MODULE IOPorts ------------------------------
(***************************************************************************)
(* Access to I/O ports: the permission bitmap of the one task state        *)
(* segment (sys/ddk/ia32/gdt.c), which _DWRequestPorts fills for the       *)
(* running process and ScheduleNext changes when it switches processes.    *)
(* A thread without a process, such as the idle thread, leaves the bitmap  *)
(* alone.  The end of a process is not modelled here.                      *)
(***************************************************************************)
EXTENDS Integers, FiniteSets

CONSTANTS
    Processes,
    Threads,
    Owner,                      \* the process of each thread, or NoProcess (a null pointer)
    Ports,
    MAX_IO_PORTS_PER_PROCESS,
    NoProcess

ASSUME IOPortsAssumption ==
    /\ Owner \in [Threads -> Processes \cup {NoProcess}]
    /\ MAX_IO_PORTS_PER_PROCESS \in Nat
    /\ NoProcess \notin Processes

VARIABLES
    current_thread,
    ioports,    \* of each process, the first ports_used of them
    ioperm,     \* ports whose bit is clear
    iomap       \* iomap_base is that of the bitmap, not beyond the segment

ioVars == <<current_thread, ioports, ioperm, iomap>>

(* GDTInit sets every bit. *)
IOPortsInit ==
    /\ current_thread \in Threads
    /\ ioports = [p \in Processes |-> {}]
    /\ ioperm = {} /\ iomap = FALSE

(* NAME_Fault, here and below, is NAME with a slip that the properties at  *)
(* the end must notice.                                                    *)
Disabled_Nothing(perm, ports) == perm

(* What Disable and EnableIOPortsOfProcess do to the bitmap.  Both switch  *)
(* it on when the process has ports, and off when it has none.             *)
Disabled(perm, ports) == perm \ ports

Enabled(perm, ports) == perm \cup ports

ScheduleNext_EnableFirst(t) ==
    LET prev == Owner[current_thread]
        next == Owner[t]
    IN  /\ t # current_thread
        /\ current_thread' = t
        /\ IF next = NoProcess \/ next = prev THEN UNCHANGED <<ioperm, iomap>>
           ELSE /\ ioperm' = IF prev = NoProcess THEN Enabled(ioperm, ioports[next])
                             ELSE Disabled(Enabled(ioperm, ioports[next]), ioports[prev])
                /\ iomap' = (ioports[next] # {})
        /\ UNCHANGED ioports

ScheduleNext(t) ==
    LET prev == Owner[current_thread]
        next == Owner[t]
        left == IF prev = NoProcess THEN ioperm ELSE Disabled(ioperm, ioports[prev])
    IN  /\ t # current_thread
        /\ current_thread' = t
        /\ IF next = NoProcess \/ next = prev THEN UNCHANGED <<ioperm, iomap>>
           ELSE ioperm' = Enabled(left, ioports[next]) /\ iomap' = (ioports[next] # {})
        /\ UNCHANGED ioports

(* Every process has the capability PROC_C_IOPL (main.c). *)
_DWRequestPorts(ports) ==
    LET p == Owner[current_thread]
    IN  /\ p # NoProcess
        /\ Cardinality(ports) <= MAX_IO_PORTS_PER_PROCESS
        /\ ioperm' = Enabled(Disabled(ioperm, ioports[p]), ports)
        /\ iomap' = (ports # {})
        /\ ioports' = [ioports EXCEPT ![p] = ports]
        /\ UNCHANGED current_thread

IOPortsNext ==
    \/ \E t \in Threads : ScheduleNext(t)
    \/ \E ports \in SUBSET Ports : _DWRequestPorts(ports)

IOPortsSpec == IOPortsInit /\ [][IOPortsNext]_ioVars

-----------------------------------------------------------------------------
(* The types of the state. *)
TypeOK ==
    /\ current_thread \in Threads
    /\ ioports \in [Processes -> SUBSET Ports]
    /\ ioperm \in SUBSET Ports
    /\ iomap \in BOOLEAN

Running == Owner[current_thread]
Accessible == IF iomap THEN ioperm ELSE {}

(* The running process can use the ports it was granted, whoever ran       *)
(* before and whoever was granted the same ones ("Enables access to the    *)
(* I/O ports of the process", EnableIOPortsOfProcess).                     *)
PortsUsable == Running # NoProcess => ioports[Running] \subseteq Accessible

(* The bits that are clear are those of the running process. *)
Confined == Running # NoProcess /\ ioperm \subseteq ioports[Running]

(* "Disables access to the I/O ports owned by process p, usually when that *)
(* process is blocked and another process is scheduled"                    *)
(* (DisableIOPortsOfProcess): a process that can use no ports but its own  *)
(* is followed by one that can use no ports but its own, and _DWRequest-   *)
(* Ports takes away what it had before.  Only a switch to a thread without *)
(* a process, the idle thread, leaves the bitmap to whoever comes next.    *)
PortsStayConfined == [][Confined /\ Running' # NoProcess => Confined']_ioVars

(* The inductive form: the bitmap of the running process is on exactly     *)
(* when it has ports, and holds them.                                      *)
PortsInv ==
    Running # NoProcess =>
        ioports[Running] \subseteq ioperm /\ (iomap <=> ioports[Running] # {})
============================================================================
