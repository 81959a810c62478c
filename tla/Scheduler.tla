----------------------------- MODULE Scheduler -----------------------------
(***************************************************************************)
(* The round-robin scheduler of the kernel (sys/sched/schedule.c), the     *)
(* thread operations that drive it (sys/task/task.c, sys/iomgr/thread.c)   *)
(* and the kernel entries that reach it: the timer, the yield, receive and *)
(* exit system calls, device interrupts and user exceptions.               *)
(*                                                                         *)
(* The kernel runs on one CPU with interrupts disabled, so one action is   *)
(* one whole kernel entry, up to the context switch that may end it.  A    *)
(* thread that was switched out inside the kernel (in _DWIPCReceive, or    *)
(* not yet through its trampoline) continues there when it is switched in, *)
(* still with interrupts disabled: pc records which.                       *)
(***************************************************************************)
EXTENDS Integers, Sequences

CONSTANTS
    Threads,        \* every thread that ever exists
    Idle,           \* the thread created first by SystemKernelInit
    BootThreads,    \* main threads of the boot modules, in their list order
    Owner,          \* Owner[t]: the process a user thread belongs to
    Priority,       \* Priority[t]: its ThreadPriorityLevel
    QuantumRange,   \* how many values a quantum has (2^32 in the code)
    OrphanPorts,    \* whether a port of a deleted process can still be reached
    NullPointer

NO_PRIORITY     == -1
PRIORITY_IDLE   == 0
PRIORITY_LOW    == 1
PRIORITY_MEDIUM == 2
PRIORITY_HIGH   == 3
PRIORITY_MAX    == 4

Main == {BootThreads[i] : i \in DOMAIN BootThreads}

ASSUME SchedulerAssumption ==
    /\ Idle \in Threads
    /\ NullPointer \notin Threads
    /\ BootThreads \in Seq(Threads \ {Idle})
    /\ \A i, j \in DOMAIN BootThreads : BootThreads[i] = BootThreads[j] => i = j
    /\ Priority \in [Threads -> Int]
    /\ QuantumRange \in Nat /\ QuantumRange > 61
    /\ OrphanPorts \in BOOLEAN

VARIABLES
    thread_list,    \* place of each thread in the list, 0 when it is not there
    list_end,       \* the place given last
    state,          \* Thread.state
    current_thread,
    NeedsResched,
    quantum,        \* quantum of current_thread; any other is set before it is read
    pc,             \* where a thread continues when it gets the CPU
    objects,        \* threads that have a thread object, and so can be run or deleted
    processes       \* processes that have not been deleted

vars == <<thread_list, list_end, state, current_thread, NeedsResched, quantum, pc, objects, processes>>

Listed == {t \in Threads : thread_list[t] # 0}

InUser == pc[current_thread] = "user"

(* A user thread enters the kernel.  What a thread of a deleted process    *)
(* does is undefined: its page tables are freed.                           *)
InSyscall == InUser /\ current_thread # Idle /\ Owner[current_thread] \in processes

Siblings(t) == {u \in Threads \ {Idle} : Owner[u] = Owner[t]}

(* The threads whose objects are in the current process's handle table. *)
ThreadHandles == objects \cap Siblings(current_thread)

CPUTimeFromThreadPriority(level) ==
    CASE level = NO_PRIORITY     -> 0
      [] level = PRIORITY_LOW    -> 1
      [] level = PRIORITY_MEDIUM -> 12
      [] level = PRIORITY_HIGH   -> 20
      [] level = PRIORITY_MAX    -> 33
      [] OTHER                   -> 60

-----------------------------------------------------------------------------
(* The first of a set of listed threads that the walk meets when it starts *)
(* after current_thread and wraps at the end of the list.                  *)
FirstAfterCurrent(S) ==
    LET here  == thread_list[current_thread]
        after == {t \in S : thread_list[t] > here}
        pool  == IF after # {} THEN after ELSE S
    IN  CHOOSE t \in pool : \A u \in pool : thread_list[t] <= thread_list[u]

(* Here and below: NAME_Fault is NAME with a slip that the properties at   *)
(* the end must notice.                                                    *)
SelectNextThread_NoWrap(st) ==
    LET ready == {t \in Listed : /\ st[t] = "READY"
                                 /\ thread_list[t] > thread_list[current_thread]}
    IN  IF ready # {} THEN FirstAfterCurrent(ready) ELSE NullPointer

SelectNextThread_FromHead(st) ==
    LET ready == {t \in Listed : st[t] = "READY"}
    IN  IF ready = {} THEN NullPointer
        ELSE CHOOSE t \in ready : \A u \in ready : thread_list[t] <= thread_list[u]

(* SelectNextThread under thread states st: idle-priority threads only     *)
(* when nobody else is ready.                                              *)
SelectNextThread(st) ==
    LET ready  == {t \in Listed : st[t] = "READY"}
        normal == {t \in ready : Priority[t] # PRIORITY_IDLE}
    IN  IF normal # {} THEN FirstAfterCurrent(normal)
        ELSE IF ready # {} THEN FirstAfterCurrent(ready)
        ELSE NullPointer

ScheduleNext_KeepsRunning(st, q) ==
    LET next == SelectNextThread(st) IN
    /\ NeedsResched' = FALSE
    /\ next # NullPointer
    /\ quantum' = CPUTimeFromThreadPriority(Priority[next])
    /\ current_thread' = next
    /\ state' = [st EXCEPT ![next] = "RUNNING"]

(* ScheduleNext, entered with thread states st and quantum q. *)
ScheduleNext(st, q) ==
    LET next == SelectNextThread(st) IN
    /\ NeedsResched' = FALSE
    /\ IF next = NullPointer
       THEN /\ state' = st
            /\ quantum' = q
            /\ UNCHANGED current_thread
       ELSE /\ quantum' = CPUTimeFromThreadPriority(Priority[next])
            /\ current_thread' = next
            /\ state' = [t \in Threads |->
                           IF next = current_thread THEN st[t]
                           ELSE IF t = next THEN "RUNNING"
                           ELSE IF t = current_thread /\ st[t] = "RUNNING" THEN "READY"
                           ELSE st[t]]

(* The end of an interrupt (isr.asm): a context switch if one is due. *)
InterruptReturn(st, q, resched) ==
    IF resched
    THEN ScheduleNext(st, q)
    ELSE /\ state' = st
         /\ quantum' = q
         /\ NeedsResched' = FALSE
         /\ UNCHANGED current_thread

(* The states WakeThread leaves when it is called on each thread of W, and *)
(* whether it asks for a context switch.                                   *)
Woken(W) == [t \in Threads |-> IF t \in W /\ state[t] # "RUNNING" THEN "READY" ELSE state[t]]

WakeRequests(W) == \E t \in W : state[t] # "RUNNING"

(* What PITCallback leaves of the quantum: it counts down past zero. *)
Ticked == (quantum - 1) % QuantumRange

-----------------------------------------------------------------------------
Init ==
    /\ thread_list = [t \in Threads |->
                        IF t = Idle THEN 1
                        ELSE IF t \in Main
                             THEN 1 + CHOOSE i \in DOMAIN BootThreads : BootThreads[i] = t
                             ELSE 0]
    /\ list_end = 1 + Len(BootThreads)
    /\ state = [t \in Threads |-> IF t = Idle THEN "RUNNING" ELSE "READY"]
    /\ current_thread = Idle
    /\ NeedsResched = FALSE
    /\ quantum = CPUTimeFromThreadPriority(Priority[Idle]) + 1
    /\ pc = [t \in Threads |-> IF t = Idle THEN "user" ELSE "start"]
    /\ objects = Threads \ ({Idle} \cup Main)
    /\ processes = {Owner[t] : t \in Main}

(* IRQ 0: PITCallback, then a switch when the quantum was used up. *)
TimerInterrupt ==
    /\ InUser
    /\ InterruptReturn(state, Ticked, NeedsResched \/ quantum = 0)
    /\ UNCHANGED <<thread_list, list_end, pc, objects, processes>>

(* SYSCALL_YIELD: int 0x20 enters the timer's handler. *)
Yield ==
    /\ InSyscall
    /\ InterruptReturn(state, Ticked, TRUE)
    /\ UNCHANGED <<thread_list, list_end, pc, objects, processes>>

(* Threads that have run, and so can own a port or subscribe to an IRQ. *)
Started == {t \in Threads \ {Idle} : pc[t] # "start"}

(* A device interrupt.  The relay wakes the owner of the subscribed port   *)
(* and the thread that subscribed, or nobody when there is no subscriber   *)
(* or no room for the message.  A deleted process has no subscriptions.    *)
DeviceInterrupt(W) ==
    /\ InUser
    /\ W \subseteq {t \in Started : Owner[t] \in processes}
    /\ InterruptReturn(Woken(W), quantum, NeedsResched \/ WakeRequests(W))
    /\ UNCHANGED <<thread_list, list_end, pc, objects, processes>>

(* _DWIPCSend wakes the port's owner, also that of a port which outlived   *)
(* its process.  Through sysenter nobody looks at NeedsResched on the way  *)
(* back; through the interrupt gate isr.asm does.                          *)
SendWakes(t, gate) ==
    /\ InSyscall
    /\ t \in Started
    /\ OrphanPorts \/ Owner[t] \in processes
    /\ IF gate
       THEN InterruptReturn(Woken({t}), quantum, NeedsResched \/ WakeRequests({t}))
       ELSE /\ state' = Woken({t})
            /\ NeedsResched' = (NeedsResched \/ WakeRequests({t}))
            /\ UNCHANGED <<current_thread, quantum>>
    /\ UNCHANGED <<thread_list, list_end, pc, objects, processes>>

(* _DWIPCReceive finds its port empty. *)
ReceiveBlocks ==
    /\ InSyscall \/ pc[current_thread] = "receive"
    /\ ScheduleNext([state EXCEPT ![current_thread] = "BLOCKED"], quantum)
    /\ pc' = [pc EXCEPT ![current_thread] = "receive"]
    /\ UNCHANGED <<thread_list, list_end, objects, processes>>

(* A thread switched back into _DWIPCReceive finds a message. *)
ReceiveReturns ==
    /\ pc[current_thread] = "receive"
    /\ pc' = [pc EXCEPT ![current_thread] = "user"]
    /\ UNCHANGED <<thread_list, list_end, state, current_thread, NeedsResched, quantum, objects, processes>>

(* _ThreadBootstrapTrampoline enters user mode. *)
Bootstrap ==
    /\ pc[current_thread] = "start"
    /\ pc' = [pc EXCEPT ![current_thread] = "user"]
    /\ UNCHANGED <<thread_list, list_end, state, current_thread, NeedsResched, quantum, objects, processes>>

(* Its stop label: a thread with an unusable stack deletes itself, then    *)
(* yields.  DeleteThread leaves it in the list, as it is the current one.  *)
BootstrapStop ==
    /\ pc[current_thread] = "start"
    /\ InterruptReturn([state EXCEPT ![current_thread] = "TERMINATED"], Ticked, TRUE)
    /\ UNCHANGED <<thread_list, list_end, pc, objects, processes>>

(* THREAD_RUN on a thread that is not in the list: AddThreadToScheduler    *)
(* appends it.  Nothing in the kernel refuses a thread that is listed      *)
(* already, whose node it would link a second time; processes are taken to *)
(* run a thread once.                                                      *)
RunThread(t) ==
    /\ InSyscall
    /\ t \in ThreadHandles \ Listed
    /\ list_end' = list_end + 1
    /\ thread_list' = [thread_list EXCEPT ![t] = list_end + 1]
    /\ state' = [state EXCEPT ![t] = "READY"]
    /\ UNCHANGED <<current_thread, NeedsResched, quantum, pc, objects, processes>>

(* _DWDeleteObject on a thread object: DeleteThread unlists any thread but *)
(* the running one, which is only marked.                                  *)
DeleteThreadObject(t) ==
    /\ InSyscall
    /\ t \in ThreadHandles
    /\ state' = [state EXCEPT ![t] = "TERMINATED"]
    /\ thread_list' = [thread_list EXCEPT ![t] = IF t = current_thread THEN @ ELSE 0]
    /\ objects' = objects \ {t}
    /\ UNCHANGED <<list_end, current_thread, NeedsResched, quantum, pc, processes>>

(* The thread states DeleteProcess leaves: it deletes the thread objects   *)
(* in the handle table and terminates the main thread.                     *)
AfterDeleteProcess ==
    [t \in Threads |-> IF t \in ThreadHandles \cup (Siblings(current_thread) \cap Main)
                       THEN "TERMINATED" ELSE state[t]]

(* SYSCALL_EXIT.  The walk of ScheduleNext goes through the places the     *)
(* removed threads had: a removed node keeps its next pointer.             *)
SyscallExit ==
    /\ InSyscall
    /\ ScheduleNext([AfterDeleteProcess EXCEPT ![current_thread] = "TERMINATED"], quantum)
    /\ thread_list' = [t \in Threads |->
                         IF t \in ThreadHandles \cup {current_thread} THEN 0 ELSE thread_list[t]]
    /\ objects' = objects \ ThreadHandles
    /\ processes' = processes \ {Owner[current_thread]}
    /\ UNCHANGED <<list_end, pc>>

(* A user exception (_DWUserException): the process is deleted, and the    *)
(* faulting thread stays in the list.                                      *)
UserException ==
    /\ InSyscall
    /\ InterruptReturn(AfterDeleteProcess, quantum, TRUE)
    /\ thread_list' = [t \in Threads |->
                         IF t \in ThreadHandles \ {current_thread} THEN 0 ELSE thread_list[t]]
    /\ objects' = objects \ ThreadHandles
    /\ processes' = processes \ {Owner[current_thread]}
    /\ UNCHANGED <<list_end, pc>>

(* What the kernel does on its own once it has the CPU. *)
KernelStep == ReceiveBlocks \/ ReceiveReturns \/ Bootstrap \/ BootstrapStop

Next ==
    \/ TimerInterrupt
    \/ Yield
    \/ \E W \in {{}} \cup {{t, u} : t, u \in Threads} : DeviceInterrupt(W)
    \/ \E t \in Threads, gate \in BOOLEAN : SendWakes(t, gate)
    \/ KernelStep
    \/ \E t \in Threads : RunThread(t) \/ DeleteThreadObject(t)
    \/ SyscallExit
    \/ UserException

Spec == Init /\ [][Next]_vars

-----------------------------------------------------------------------------
ThreadState == {"TERMINATED", "READY", "RUNNING", "BLOCKED"}

(* The types of the scheduler's state. *)
TypeOK ==
    /\ thread_list \in [Threads -> Nat]
    /\ list_end \in Nat
    /\ state \in [Threads -> ThreadState]
    /\ current_thread \in Threads
    /\ NeedsResched \in BOOLEAN
    /\ quantum \in 0 .. QuantumRange - 1
    /\ pc \in [Threads -> {"start", "user", "receive"}]
    /\ objects \subseteq Threads

(* Only current_thread is marked running, and it is never one that         *)
(* _DWIPCReceive put to sleep: whatever mix of interrupts, wakes, deletions *)
(* and exits came before, a context switch leaves one owner of the CPU.    *)
OneRunner ==
    /\ state[current_thread] # "BLOCKED"
    /\ \A t \in Threads \ {current_thread} : state[t] # "RUNNING"

(* current_thread is in the list, and no two threads share a place: the    *)
(* walk of SelectNextThread starts at a node of the list.                  *)
ListSound ==
    /\ thread_list[current_thread] # 0
    /\ \A t, u \in Listed : thread_list[t] = thread_list[u] => t = u

(* "so that the scheduler always has a task to run" (SystemKernelInit):    *)
(* whenever a user thread has the CPU there is another thread to switch    *)
(* to, so ScheduleNext never returns into the blocking loop of             *)
(* _DWIPCReceive without having switched.                                  *)
AlwaysATask ==
    current_thread # Idle => SelectNextThread(state) # NullPointer

(* A thread leaves the list only by being terminated: no unlinking of a    *)
(* neighbour in RemoveThreadFromScheduler loses it.                        *)
UnlistedIsTerminated ==
    [][\A t \in Listed : thread_list'[t] = 0 => state'[t] = "TERMINATED"]_vars

(* A listed thread that is ready gets the CPU, however the others behave,  *)
(* unless it is terminated first.                                          *)
NoStarvation ==
    \A t \in Threads :
        (state[t] = "READY" /\ t \in Listed)
            ~> (current_thread = t \/ state[t] = "TERMINATED")
=============================================================================
