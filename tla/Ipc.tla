-------------------------------- MODULE Ipc --------------------------------
(***************************************************************************)
(* Message passing on top of the scheduler: _DWIPCSend, the relay of a     *)
(* device interrupt to a port, and the loop in which _DWIPCReceive blocks  *)
(* until its port holds a message.  What waits in a port is its count:     *)
(* that the ring buffer behind it is a FIFO is the business of PortQueue.  *)
(*                                                                         *)
(* Threads are free to send and receive whatever and whenever they like.   *)
(* The port's owner is the thread that created it; any thread of the same  *)
(* process may receive from it.                                            *)
(***************************************************************************)
EXTENDS Scheduler, FiniteSets

CONSTANTS
    Ports,
    PortOwner,              \* Port.owner: the thread that created it
    MAX_MESSAGES_IN_PORT

ASSUME IpcAssumption ==
    /\ PortOwner \in [Ports -> Threads \ {Idle}]
    /\ MAX_MESSAGES_IN_PORT \in Nat \ {0}
    /\ NullPointer \notin Ports
    /\ ~OrphanPorts

VARIABLES
    count,      \* Port.count
    waits       \* the port a thread is inside _DWIPCReceive for, or NullPointer

ipcVars == <<vars, count, waits>>

(* Ports go with their process. *)
Live(p) == Owner[PortOwner[p]] \in processes

Full(p) == count[p] >= MAX_MESSAGES_IN_PORT

(* _DWIPCReceive refuses a port of another process. *)
MayReceive(t, p) == Owner[PortOwner[p]] = Owner[t]

IpcInit ==
    /\ Init
    /\ count = [p \in Ports |-> 0]
    /\ waits = [t \in Threads |-> NullPointer]

-----------------------------------------------------------------------------
(* Here and below: NAME_Fault is NAME with a slip that the properties at   *)
(* the end must notice.                                                    *)
IPCSend_NoWake(p, gate) ==
    /\ InSyscall
    /\ Live(p) /\ PortOwner[p] \in Started
    /\ ~Full(p)
    /\ count' = [count EXCEPT ![p] = @ + 1]
    /\ UNCHANGED <<vars, waits>>

(* _DWIPCSend: a full port refuses the message and wakes nobody. *)
IPCSend(p, gate) ==
    /\ Live(p)
    /\ ~Full(p)
    /\ SendWakes(PortOwner[p], gate)
    /\ count' = [count EXCEPT ![p] = @ + 1]
    /\ UNCHANGED waits

(* A device interrupt relayed to a port on which t subscribed. *)
IRQRelay(p, t) ==
    /\ IF Full(p)
       THEN DeviceInterrupt({}) /\ UNCHANGED count
       ELSE DeviceInterrupt({PortOwner[p], t}) /\ count' = [count EXCEPT ![p] = @ + 1]
    /\ UNCHANGED waits

(* _DWIPCReceive, called. *)
IPCReceive(p) ==
    /\ InSyscall
    /\ MayReceive(current_thread, p)
    /\ IF count[p] = 0
       THEN /\ ReceiveBlocks
            /\ waits' = [waits EXCEPT ![current_thread] = p]
            /\ UNCHANGED count
       ELSE /\ count' = [count EXCEPT ![p] = @ - 1]
            /\ UNCHANGED <<vars, waits>>

IPCReceiveResumed_NeverLooks ==
    /\ pc[current_thread] = "receive"
    /\ ScheduleNext([state EXCEPT ![current_thread] = "READY"], quantum)
    /\ UNCHANGED <<thread_list, list_end, pc, objects, processes, count, waits>>

(* The loop of _DWIPCReceive when ScheduleNext returns to it: whoever woke *)
(* the thread, it looks at the port again.                                 *)
IPCReceiveResumed ==
    /\ pc[current_thread] = "receive"
    /\ LET p == waits[current_thread] IN
       IF count[p] = 0
       THEN ReceiveBlocks /\ UNCHANGED <<count, waits>>
       ELSE /\ ReceiveReturns
            /\ count' = [count EXCEPT ![p] = @ - 1]
            /\ waits' = [waits EXCEPT ![current_thread] = NullPointer]

(* Kernel entries that touch no port. *)
OtherEntry ==
    \/ Yield
    \/ DeviceInterrupt({})
    \/ BootstrapStop
    \/ \E t \in Threads : RunThread(t) \/ DeleteThreadObject(t)
    \/ SyscallExit
    \/ UserException

IpcNext ==
    \/ \E p \in Ports, gate \in BOOLEAN : IPCSend(p, gate)
    \/ \E p \in Ports, t \in Threads : Owner[PortOwner[p]] = Owner[t] /\ IRQRelay(p, t)
    \/ \E p \in Ports : IPCReceive(p)
    \/ IPCReceiveResumed
    \/ TimerInterrupt /\ UNCHANGED <<count, waits>>
    \/ Bootstrap /\ UNCHANGED <<count, waits>>
    \/ OtherEntry /\ UNCHANGED <<count, waits>>

IpcSpec == IpcInit /\ [][IpcNext]_ipcVars

(* The timer keeps interrupting, and a thread inside the kernel goes on. *)
IpcFairness ==
    /\ WF_ipcVars(TimerInterrupt /\ UNCHANGED <<count, waits>>)
    /\ WF_ipcVars(Bootstrap /\ UNCHANGED <<count, waits>>)
    /\ WF_ipcVars(IPCReceiveResumed)

IpcFairSpec == IpcSpec /\ IpcFairness

-----------------------------------------------------------------------------
(* t waits in _DWIPCReceive at a port of its own that holds a message.     *)
(* Other threads of the process may wait there too, and take messages, but *)
(* _DWIPCSend wakes only the owner.                                        *)
HasMessage(t) ==
    waits[t] # NullPointer /\ PortOwner[waits[t]] = t /\ count[waits[t]] > 0

(* The owner of a port sleeps in _DWIPCReceive only while the port is      *)
(* empty, so no wake is lost between the check of count and the switch     *)
(* away, nor when another thread of the process consumed the message it    *)
(* was woken for.                                                          *)
NoLostWakeup ==
    \A t \in Threads : state[t] = "BLOCKED" => ~HasMessage(t)

(* "The process is automatically blocked if there are no messages"         *)
(* (ReceiveMessage), whichever of its threads waits at the port.  It does  *)
(* not hold: _DWIPCSend wakes the thread that created the port.            *)
BlockedWithoutMessages ==
    \A t \in Threads : state[t] = "BLOCKED" /\ waits[t] # NullPointer => count[waits[t]] = 0

(* An owner that waits in _DWIPCReceive while its port holds a message     *)
(* gets the CPU back and takes one, unless another thread of its process   *)
(* takes it first, or the thread or its process is deleted.                *)
MessageDelivered ==
    \A t \in Threads :
        HasMessage(t) ~> \/ ~HasMessage(t)
                         \/ t \notin Listed \/ state[t] = "TERMINATED"
                         \/ Owner[t] \notin processes
=============================================================================
