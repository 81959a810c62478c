----------------------------- MODULE ThreadList -----------------------------
(***************************************************************************)
(* The scheduler's list as schedule.c keeps it: a head and next pointers.  *)
(* Every action of Scheduler is taken together with what it does to the    *)
(* pointers.  A thread that is unlinked keeps its next pointer, and        *)
(* SYSCALL_EXIT lets SelectNextThread start its walk at such a thread.     *)
(***************************************************************************)
EXTENDS Scheduler

CONSTANT
    HandleOrder     \* the threads that have objects, in handle table order

ASSUME ThreadListAssumption ==
    /\ HandleOrder \in Seq(Threads)
    /\ \A t \in Threads \ ({Idle} \cup Main) :
          \E i \in DOMAIN HandleOrder : HandleOrder[i] = t

VARIABLES
    head,       \* thread_list
    next        \* Thread.next

listVars == <<vars, head, next>>

(* The threads a loop over next pointers meets when it starts at t and     *)
(* stops at the first thread of goal: the least set that contains t and    *)
(* the next of each of its members outside goal.                           *)
Met(nx, t, goal) ==
    {u \in Threads : \A S \in SUBSET Threads :
        /\ t # NullPointer => t \in S
        /\ \A v \in S \ goal : nx[v] # NullPointer => nx[v] \in S
        => u \in S}

(* The last thread that the loop of AddThreadToScheduler reaches. *)
LastOf(h, nx) == CHOOSE t \in Met(nx, h, {}) : nx[t] = NullPointer

AddThreadToScheduler(t) ==
    LET cut == [next EXCEPT ![t] = NullPointer]
    IN  /\ next' = [cut EXCEPT ![LastOf(head, cut)] = t]
        /\ UNCHANGED head

(* Here and below: NAME_Fault is NAME with a slip that the properties at   *)
(* the end must notice.                                                    *)
Unlink_SkipsTwo(l, t) ==
    [l EXCEPT !.next = [u \in Threads |->
        IF l.next[u] = t
        THEN IF l.next[t] = NullPointer THEN NullPointer ELSE l.next[l.next[t]]
        ELSE l.next[u]]]

Unlink_ClearsNext(l, t) ==
    [l EXCEPT !.next = [u \in Threads |->
        IF l.next[u] = t THEN l.next[t] ELSE IF u = t THEN NullPointer ELSE l.next[u]]]

(* RemoveThreadFromScheduler on a list given as a record. *)
Unlink(l, t) ==
    IF t = l.head THEN [head |-> l.next[t], next |-> l.next]
    ELSE LET reached == Met(l.next, l.head, {})
         IN  [head |-> l.head,
              next |-> [u \in Threads |->
                IF u \in reached /\ l.next[u] = t THEN l.next[t] ELSE l.next[u]]]

(* DeleteProcess removes the threads of D as it meets them in the handle   *)
(* table.                                                                  *)
UnlinkHandles(l, D) ==
    LET left[i \in 0 .. Len(HandleOrder)] ==
          IF i = 0 THEN l
          ELSE IF HandleOrder[i] \in D THEN Unlink(left[i - 1], HandleOrder[i])
          ELSE left[i - 1]
    IN  left[Len(HandleOrder)]

TheList == [head |-> head, next |-> next]

TheListBecomes(l) == head' = l.head /\ next' = l.next

-----------------------------------------------------------------------------
InitialOrder == <<Idle>> \o BootThreads

ListInit ==
    /\ Init
    /\ head = Idle
    /\ next = [t \in Threads |->
                 IF \E i \in 1 .. Len(InitialOrder) - 1 : InitialOrder[i] = t
                 THEN InitialOrder[1 + CHOOSE i \in DOMAIN InitialOrder : InitialOrder[i] = t]
                 ELSE NullPointer]

ListExit ==
    /\ SyscallExit
    /\ TheListBecomes(UnlinkHandles(Unlink(TheList, current_thread),
                                    ThreadHandles \ {current_thread}))

ListException ==
    /\ UserException
    /\ TheListBecomes(UnlinkHandles(TheList, ThreadHandles \ {current_thread}))

ListDelete(t) ==
    /\ DeleteThreadObject(t)
    /\ TheListBecomes(IF t = current_thread THEN TheList ELSE Unlink(TheList, t))

ListRun(t) == RunThread(t) /\ AddThreadToScheduler(t)

(* Kernel entries that leave the list alone. *)
ListStays ==
    \/ TimerInterrupt
    \/ Yield
    \/ DeviceInterrupt({})
    \/ \E t \in Threads, gate \in BOOLEAN : SendWakes(t, gate)
    \/ KernelStep

ListNext ==
    \/ ListStays /\ UNCHANGED <<head, next>>
    \/ \E t \in Threads : ListRun(t)
    \/ \E t \in Threads : ListDelete(t)
    \/ ListExit
    \/ ListException

ListSpec == ListInit /\ [][ListNext]_listVars

-----------------------------------------------------------------------------
(* The thread of goal that the loop of SelectNextThread comes to first: by *)
(* next pointers from the one after from to the end, then from the head.   *)
FirstMet(h, nx, from, goal) ==
    LET ahead == Met(nx, nx[from], goal) \cap goal
        again == Met(nx, h, goal) \cap goal
    IN  IF ahead # {} THEN CHOOSE t \in ahead : TRUE
        ELSE IF again # {} THEN CHOOSE t \in again : TRUE
        ELSE NullPointer

(* What SelectNextThread returns when the threads of ready are ready. *)
SelectByPointers(h, nx, from, ready) ==
    LET normal == FirstMet(h, nx, from, {t \in ready : Priority[t] # PRIORITY_IDLE})
    IN  IF normal # NullPointer THEN normal ELSE FirstMet(h, nx, from, ready)

(* "Adds a new thread to the list of threads that will be selected for CPU *)
(* time": a walk from the head meets exactly the listed threads, each once *)
(* and in the order they were added, and so comes to an end.               *)
ListIsComplete ==
    /\ Met(next, head, {}) = Listed
    /\ \A t \in Listed : next[t] # NullPointer => thread_list[t] < thread_list[next[t]]

(* The thread that gets the CPU is the one the pointer walk finds, also    *)
(* when it starts at a thread that SYSCALL_EXIT has just unlinked: the     *)
(* scheduler's view of the list as places is right.                        *)
WalkAgrees ==
    [][current_thread' # current_thread =>
          SelectByPointers(head', next', current_thread,
              ({t \in Threads : state'[t] = "READY"} \cup {current_thread'}) \ {current_thread})
            = current_thread']_listVars
=============================================================================
