--------------------------- MODULE ThreadsProofs ---------------------------
(***************************************************************************)
(* For any set of threads, any owners and priorities: the CPU has one      *)
(* owner, the list stays sound, and while a user thread runs there is      *)
(* always another thread to switch to.  For any ports and capacities       *)
(* besides: message passing schedules threads only as the scheduler does,  *)
(* and the owner of a port never sleeps in _DWIPCReceive while the port    *)
(* holds a message.                                                        *)
(***************************************************************************)
EXTENDS Ipc, WellFoundedInduction, TLAPS

-----------------------------------------------------------------------------
(* The scheduler *)

(* The idle thread is never blocked, terminated or unlisted, which is what *)
(* makes the other invariants inductive.                                   *)
IdleSound ==
    /\ thread_list[Idle] # 0
    /\ state[Idle] = IF current_thread = Idle THEN "RUNNING" ELSE "READY"
    /\ pc[Idle] = "user"
    /\ Idle \notin objects

(* No place was given twice: the next one is larger than all. *)
PlacesGiven == \A t \in Threads : thread_list[t] <= list_end

IInv == TypeOK /\ OneRunner /\ ListSound /\ IdleSound /\ PlacesGiven

(* Among any threads one has the least place. *)
LEMMA LeastPlace ==
    ASSUME NEW f \in [Threads -> Nat], NEW S, S \subseteq Threads, S # {}
    PROVE  \E t \in S : \A u \in S : f[t] <= f[u]
  <1> DEFINE P == {f[t] : t \in S}
             R == OpToRel(<, Nat)
  <1>1. PICK p \in P : \A q \in P : ~(<<q, p>> \in R)
    <2>1. P \subseteq Nat /\ P # {} OBVIOUS
    <2>2. IsWellFoundedOn(R, Nat) BY NatLessThanWellFounded
    <2> HIDE DEF P, R
    <2>3. QED BY <2>1, <2>2, WFMin
  <1>2. ASSUME NEW q \in P PROVE p <= q
    <2>1. p \in Nat /\ q \in Nat OBVIOUS
    <2>2. q < p => <<q, p>> \in R BY <2>1 DEF OpToRel
    <2>3. ~(q < p) BY <1>1, <2>2
    <2>4. QED BY <2>1, <2>3
  <1>3. PICK t \in S : f[t] = p OBVIOUS
  <1>4. QED BY <1>2, <1>3

(* The walk ends on a thread of the set it searches. *)
LEMMA FirstIsMember ==
    ASSUME TypeOK, NEW S, S \subseteq Listed, S # {}
    PROVE  FirstAfterCurrent(S) \in S
  <1> DEFINE after == {t \in S : thread_list[t] > thread_list[current_thread]}
             pool  == IF after # {} THEN after ELSE S
  <1>1. pool \subseteq S /\ pool # {} OBVIOUS
  <1>2. S \subseteq Threads BY DEF Listed
  <1> HIDE DEF pool
  <1>3. \E t \in pool : \A u \in pool : thread_list[t] <= thread_list[u]
    BY <1>1, <1>2, LeastPlace DEF TypeOK
  <1>4. (CHOOSE t \in pool : \A u \in pool : thread_list[t] <= thread_list[u]) \in pool
    BY <1>3
  <1>5. QED BY <1>1, <1>4 DEF FirstAfterCurrent, pool

(* SelectNextThread returns a listed ready thread, and does so whenever    *)
(* there is one.                                                           *)
LEMMA SelectIsReady ==
    ASSUME TypeOK, NEW st
    PROVE  /\ SelectNextThread(st) # NullPointer =>
                 /\ SelectNextThread(st) \in Listed
                 /\ st[SelectNextThread(st)] = "READY"
           /\ (\E t \in Listed : st[t] = "READY") =>
                 SelectNextThread(st) # NullPointer
  <1> DEFINE ready  == {t \in Listed : st[t] = "READY"}
             normal == {t \in ready : Priority[t] # PRIORITY_IDLE}
  <1>1. ready \subseteq Listed /\ normal \subseteq Listed /\ normal \subseteq ready
    OBVIOUS
  <1>2. ready # {} => FirstAfterCurrent(ready) \in ready BY <1>1, FirstIsMember
  <1>3. normal # {} => FirstAfterCurrent(normal) \in normal BY <1>1, FirstIsMember
  <1>4. NullPointer \notin Listed BY SchedulerAssumption DEF Listed
  <1>5. SelectNextThread(st) = IF normal # {} THEN FirstAfterCurrent(normal)
                               ELSE IF ready # {} THEN FirstAfterCurrent(ready)
                               ELSE NullPointer
    BY DEF SelectNextThread
  <1>6. (\E t \in Listed : st[t] = "READY") => ready # {} OBVIOUS
  <1>7. \A t \in ready : t \in Listed /\ st[t] = "READY" OBVIOUS
  <1> HIDE DEF ready, normal
  <1>8. QED BY <1>1, <1>2, <1>3, <1>4, <1>5, <1>6, <1>7

LEMMA QuantumFits ==
    \A level \in Int : CPUTimeFromThreadPriority(level) \in 0 .. QuantumRange - 2
  BY SchedulerAssumption DEF CPUTimeFromThreadPriority, NO_PRIORITY, PRIORITY_LOW,
     PRIORITY_MEDIUM, PRIORITY_HIGH, PRIORITY_MAX

LEMMA TickedFits == TypeOK => Ticked \in 0 .. QuantumRange - 1
  BY SchedulerAssumption DEF TypeOK, Ticked

(* The thread states a kernel entry may hand to ScheduleNext. *)
Proper(st) ==
    /\ st \in [Threads -> ThreadState]
    /\ \A t \in Threads \ {current_thread} : st[t] # "RUNNING"
    /\ st[Idle] = IF current_thread = Idle THEN "RUNNING" ELSE "READY"

(* A context switch: the thread chosen was ready and listed; only the idle *)
(* thread can find nobody to switch to.                                    *)
LEMMA Switch ==
    ASSUME TypeOK, thread_list[Idle] # 0, thread_list[current_thread] # 0,
           NEW st, Proper(st), NEW q \in 0 .. QuantumRange - 1, ScheduleNext(st, q)
    PROVE  /\ state' \in [Threads -> ThreadState]
           /\ current_thread' \in Listed
           /\ quantum' \in 0 .. QuantumRange - 1
           /\ NeedsResched' = FALSE
           /\ state'[current_thread'] # "BLOCKED"
           /\ \A t \in Threads \ {current_thread'} : state'[t] # "RUNNING"
           /\ state'[Idle] = IF current_thread' = Idle THEN "RUNNING" ELSE "READY"
           /\ st[current_thread'] = "READY" \/ (current_thread' = Idle /\ current_thread = Idle)
           /\ \A t \in Threads : st[t] = "TERMINATED" => state'[t] = "TERMINATED"
  <1> DEFINE chosen == SelectNextThread(st)
  <1> USE SchedulerAssumption
  <1>1. /\ chosen # NullPointer => chosen \in Listed /\ st[chosen] = "READY"
        /\ current_thread # Idle => chosen # NullPointer
    BY SelectIsReady DEF Proper, Listed
  <1>2. CASE chosen = NullPointer
    <2>1. /\ current_thread = Idle
          /\ state' = st
          /\ quantum' = q
          /\ current_thread' = current_thread
          /\ NeedsResched' = FALSE
      BY <1>1, <1>2 DEF ScheduleNext
    <2>2. QED BY <2>1 DEF Proper, Listed, ThreadState
  <1>3. CASE chosen # NullPointer
    <2>1. /\ chosen \in Threads
          /\ chosen \in Listed
          /\ st[chosen] = "READY"
      BY <1>1, <1>3 DEF Listed
    <2>2. quantum' \in 0 .. QuantumRange - 1
      <3>1. quantum' = CPUTimeFromThreadPriority(Priority[chosen])
        BY <1>3 DEF ScheduleNext
      <3>2. Priority[chosen] \in Int BY <2>1
      <3> HIDE DEF chosen
      <3>3. CPUTimeFromThreadPriority(Priority[chosen]) \in 0 .. QuantumRange - 2
        BY <3>2, QuantumFits
      <3>4. QED BY <3>1, <3>3
    <2>3. /\ current_thread' = chosen
          /\ NeedsResched' = FALSE
          /\ state' = [t \in Threads |->
                           IF chosen = current_thread THEN st[t]
                           ELSE IF t = chosen THEN "RUNNING"
                           ELSE IF t = current_thread /\ st[t] = "RUNNING" THEN "READY"
                           ELSE st[t]]
      BY <1>3 DEF ScheduleNext
    <2> HIDE DEF chosen
    <2>4. CASE chosen = current_thread
      <3>1. state' = st BY <2>3, <2>4 DEF Proper
      <3>2. current_thread # Idle BY <2>1, <2>4 DEF Proper
      <3>3. QED BY <2>1, <2>2, <2>3, <2>4, <3>1, <3>2 DEF Proper
    <2>5. CASE chosen # current_thread
      <3>1. /\ state'[chosen] = "RUNNING"
            /\ \A t \in Threads \ {chosen} :
                  state'[t] = IF t = current_thread /\ st[t] = "RUNNING" THEN "READY"
                              ELSE st[t]
        BY <2>1, <2>3, <2>5
      <3>2. state' \in [Threads -> ThreadState]
        <4>1. \A t \in Threads : state'[t] \in ThreadState
          BY <3>1 DEF Proper, ThreadState
        <4>2. QED BY <2>3, <4>1
      <3>3. \A t \in Threads \ {chosen} : state'[t] # "RUNNING"
        BY <3>1 DEF Proper
      <3>4. state'[Idle] = IF chosen = Idle THEN "RUNNING" ELSE "READY"
        BY <3>1 DEF Proper
      <3>5. \A t \in Threads : st[t] = "TERMINATED" => state'[t] = "TERMINATED"
        BY <2>1, <3>1
      <3>6. QED BY <2>1, <2>2, <2>3, <3>1, <3>2, <3>3, <3>4, <3>5
    <2>6. QED BY <2>4, <2>5
  <1>4. QED BY <1>2, <1>3

(* What a kernel entry that keeps the list establishes. *)
Settled ==
    /\ state' \in [Threads -> ThreadState]
    /\ current_thread' \in Listed
    /\ quantum' \in 0 .. QuantumRange - 1
    /\ NeedsResched' = FALSE
    /\ state'[current_thread'] # "BLOCKED"
    /\ \A t \in Threads \ {current_thread'} : state'[t] # "RUNNING"
    /\ state'[Idle] = IF current_thread' = Idle THEN "RUNNING" ELSE "READY"

LEMMA InterruptSettles ==
    ASSUME IInv, NEW st, Proper(st), st[current_thread] # "BLOCKED",
           NEW q \in 0 .. QuantumRange - 1, NEW r, InterruptReturn(st, q, r)
    PROVE  Settled
  <1>1. CASE r
    BY <1>1, Switch DEF IInv, ListSound, IdleSound, InterruptReturn, Settled
  <1>2. CASE ~r
    <2>1. /\ state' = st
          /\ quantum' = q
          /\ NeedsResched' = FALSE
          /\ current_thread' = current_thread
      BY <1>2 DEF InterruptReturn
    <2>2. current_thread \in Listed BY DEF IInv, TypeOK, ListSound, Listed
    <2>3. QED BY <2>1, <2>2 DEF Settled, Proper
  <1>3. QED BY <1>1, <1>2

(* A settled kernel entry that keeps list and objects preserves the        *)
(* invariant.                                                              *)
LEMMA SettledIInv ==
    ASSUME IInv, Settled, pc' \in [Threads -> {"start", "user", "receive"}],
           pc'[Idle] = "user", UNCHANGED <<thread_list, list_end, objects>>
    PROVE  IInv'
  <1>1. Listed' = Listed BY DEF Listed
  <1>2. current_thread' \in Threads /\ thread_list[current_thread'] # 0
    BY DEF Settled, Listed
  <1>3. TypeOK' BY <1>2 DEF IInv, TypeOK, Settled
  <1>4. OneRunner' BY DEF Settled, OneRunner
  <1>5. ListSound' BY <1>1, <1>2 DEF IInv, ListSound
  <1>6. IdleSound' BY DEF IInv, IdleSound, Settled
  <1>7. PlacesGiven' BY DEF IInv, PlacesGiven
  <1>8. QED BY <1>3, <1>4, <1>5, <1>6, <1>7 DEF IInv

LEMMA InitIInv == Init => IInv
  <1> SUFFICES ASSUME Init PROVE IInv OBVIOUS
  <1> USE SchedulerAssumption
  <1>1. DOMAIN BootThreads = 1 .. Len(BootThreads) /\ Len(BootThreads) \in Nat
    OBVIOUS
  <1>2. Main \subseteq Threads \ {Idle} BY <1>1 DEF Main
  <1> DEFINE place(t) == CHOOSE i \in DOMAIN BootThreads : BootThreads[i] = t
  <1>3. \A t \in Main : place(t) \in 1 .. Len(BootThreads) /\ BootThreads[place(t)] = t
    BY <1>1 DEF Main
  <1> HIDE DEF place
  <1>4. thread_list = [t \in Threads |-> IF t = Idle THEN 1
                                         ELSE IF t \in Main THEN 1 + place(t) ELSE 0]
    BY DEF Init, place
  <1>5. \A t \in Main : 1 + place(t) \in Nat \ {0, 1} /\ 1 + place(t) <= 1 + Len(BootThreads)
    BY <1>1, <1>3
  <1>6. thread_list \in [Threads -> Nat] BY <1>4, <1>5
  <1>7. CPUTimeFromThreadPriority(Priority[Idle]) \in 0 .. QuantumRange - 2
    <2>1. Priority[Idle] \in Int OBVIOUS
    <2>2. QED BY <2>1, QuantumFits
  <1>8. quantum \in 0 .. QuantumRange - 1 BY <1>7 DEF Init
  <1>9. TypeOK
    <2>1. state \in [Threads -> ThreadState] BY DEF Init, ThreadState
    <2>2. pc \in [Threads -> {"start", "user", "receive"}] BY DEF Init
    <2>3. list_end \in Nat BY <1>1 DEF Init
    <2>4. current_thread \in Threads /\ NeedsResched \in BOOLEAN /\ objects \subseteq Threads
      BY DEF Init
    <2>5. QED BY <1>6, <1>8, <2>1, <2>2, <2>3, <2>4 DEF TypeOK
  <1>10. OneRunner BY DEF Init, OneRunner
  <1>11. ListSound
    <2>1. thread_list[current_thread] # 0 BY <1>4 DEF Init
    <2>2. ASSUME NEW t \in Listed, NEW u \in Listed, thread_list[t] = thread_list[u]
          PROVE  t = u
      <3>1. t \in {Idle} \cup Main /\ u \in {Idle} \cup Main BY <1>4 DEF Listed
      <3>2. CASE t = Idle \/ u = Idle BY <1>4, <1>5, <2>2, <3>1, <3>2, <1>2 DEF Listed
      <3>3. CASE t \in Main /\ u \in Main
        <4>1. thread_list[t] = 1 + place(t) /\ thread_list[u] = 1 + place(u)
          BY <1>2, <1>4, <3>3
        <4>2. place(t) \in Nat /\ place(u) \in Nat BY <1>1, <1>3, <3>3
        <4>a. 1 + place(t) = 1 + place(u) BY <2>2, <4>1
        <4>3. place(t) = place(u)
          <5>1. ASSUME NEW a \in Nat, NEW b \in Nat, 1 + a = 1 + b PROVE a = b BY <5>1
          <5>2. QED BY <4>a, <4>2, <5>1
        <4>4. BootThreads[place(t)] = t /\ BootThreads[place(u)] = u BY <1>3, <3>3
        <4>5. QED BY <4>3, <4>4
      <3>4. QED BY <3>1, <3>2, <3>3
    <2>3. QED BY <2>1, <2>2 DEF ListSound
  <1>12. IdleSound BY <1>4 DEF Init, IdleSound
  <1>13. PlacesGiven
    <2>1. ASSUME NEW t \in Threads PROVE thread_list[t] <= 1 + Len(BootThreads)
      <3>1. CASE t = Idle BY <1>1, <1>4, <3>1
      <3>2. CASE t # Idle /\ t \in Main
        <4>1. thread_list[t] = 1 + place(t) BY <1>4, <3>2
        <4>2. QED BY <1>5, <3>2, <4>1
      <3>3. CASE t # Idle /\ t \notin Main BY <1>1, <1>4, <3>3
      <3>4. QED BY <3>1, <3>2, <3>3
    <2>2. QED BY <2>1 DEF Init, PlacesGiven
  <1>14. QED BY <1>9, <1>10, <1>11, <1>12, <1>13 DEF IInv

-----------------------------------------------------------------------------
(* Changing the state of one thread that is neither idle nor made running, *)
(* or of several, leaves states that ScheduleNext may be entered with.     *)
LEMMA ProperState == IInv => Proper(state)
  BY DEF IInv, TypeOK, OneRunner, IdleSound, Proper

LEMMA ProperExcept ==
    ASSUME IInv, NEW t \in Threads \ {Idle}, NEW s \in ThreadState \ {"RUNNING"}
    PROVE  Proper([state EXCEPT ![t] = s])
  BY SchedulerAssumption DEF IInv, TypeOK, OneRunner, IdleSound, Proper, ThreadState

LEMMA ProperWoken ==
    ASSUME IInv, NEW W, Idle \notin W
    PROVE  Proper(Woken(W)) /\ Woken(W)[current_thread] # "BLOCKED"
  <1>1. Woken(W) \in [Threads -> ThreadState]
    BY DEF Woken, IInv, TypeOK, ThreadState
  <1>2. \A t \in Threads : Woken(W)[t] \in {"READY", state[t]}
    BY DEF Woken
  <1>3. Woken(W)[Idle] = state[Idle] BY SchedulerAssumption DEF Woken
  <1>4. QED BY <1>1, <1>2, <1>3 DEF Proper, IInv, TypeOK, OneRunner, IdleSound

LEMMA ProperAfterDelete ==
    ASSUME IInv, current_thread # Idle
    PROVE  /\ Proper(AfterDeleteProcess)
           /\ AfterDeleteProcess[current_thread] # "BLOCKED"
           /\ Idle \notin ThreadHandles
           /\ \A t \in ThreadHandles : AfterDeleteProcess[t] = "TERMINATED"
  <1>1. Idle \notin Siblings(current_thread) BY DEF Siblings
  <1>2. AfterDeleteProcess \in [Threads -> ThreadState]
    BY DEF AfterDeleteProcess, IInv, TypeOK, ThreadState
  <1>3. \A t \in Threads : \/ AfterDeleteProcess[t] = "TERMINATED"
                            \/ AfterDeleteProcess[t] = state[t]
    BY DEF AfterDeleteProcess
  <1>4. AfterDeleteProcess[Idle] = state[Idle]
    BY <1>1, SchedulerAssumption DEF AfterDeleteProcess, ThreadHandles
  <1>5. Proper(AfterDeleteProcess)
    BY <1>2, <1>3, <1>4 DEF Proper, IInv, OneRunner, IdleSound
  <1>6. AfterDeleteProcess[current_thread] # "BLOCKED"
    BY <1>3 DEF IInv, TypeOK, OneRunner
  <1>7. \A t \in ThreadHandles : AfterDeleteProcess[t] = "TERMINATED"
    BY DEF AfterDeleteProcess, ThreadHandles, IInv, TypeOK
  <1>8. QED BY <1>1, <1>5, <1>6, <1>7 DEF ThreadHandles

(* Unlisting threads other than the idle and the chosen one. *)
LEMMA UnlistIInv ==
    ASSUME IInv, Settled, NEW D, Idle \notin D, current_thread' \notin D,
           thread_list' = [t \in Threads |-> IF t \in D THEN 0 ELSE thread_list[t]],
           objects' \subseteq objects, UNCHANGED <<list_end, pc>>
    PROVE  IInv'
  <1> USE SchedulerAssumption
  <1>1. current_thread' \in Threads /\ thread_list'[current_thread'] # 0
    BY DEF Settled, Listed
  <1>2. thread_list' \in [Threads -> Nat] BY DEF IInv, TypeOK
  <1>3. TypeOK' BY <1>1, <1>2 DEF IInv, TypeOK, Settled
  <1>4. OneRunner' BY DEF Settled, OneRunner
  <1>5. ListSound'
    <2>1. \A t \in Listed' : t \in Listed /\ thread_list'[t] = thread_list[t]
      BY DEF Listed
    <2>2. \A t, u \in Listed : thread_list[t] = thread_list[u] => t = u
      BY DEF IInv, ListSound
    <2>3. \A t, u \in Listed' : thread_list'[t] = thread_list'[u] => t = u
      BY <2>1, <2>2
    <2>4. QED BY <1>1, <2>3 DEF ListSound
  <1>6. IdleSound' BY DEF IInv, IdleSound, Settled
  <1>7. PlacesGiven' BY DEF IInv, TypeOK, PlacesGiven
  <1>8. QED BY <1>3, <1>4, <1>5, <1>6, <1>7 DEF IInv

LEMMA NextIInv == IInv /\ [Next]_vars => IInv'
  <1> SUFFICES ASSUME IInv, [Next]_vars PROVE IInv' OBVIOUS
  <1> USE SchedulerAssumption
  <1>i. /\ current_thread \in Threads
        /\ pc \in [Threads -> {"start", "user", "receive"}]
        /\ pc[Idle] = "user"
        /\ quantum \in 0 .. QuantumRange - 1
        /\ Ticked \in 0 .. QuantumRange - 1
        /\ state[current_thread] # "BLOCKED"
    BY TickedFits DEF IInv, TypeOK, IdleSound, OneRunner
  <1>1. CASE TimerInterrupt
    BY <1>1, <1>i, ProperState, InterruptSettles, SettledIInv DEF TimerInterrupt
  <1>2. CASE Yield
    BY <1>2, <1>i, ProperState, InterruptSettles, SettledIInv DEF Yield
  <1>3. ASSUME NEW W \in {{}} \cup {{t, u} : t, u \in Threads}, DeviceInterrupt(W) PROVE IInv'
    <2>1. Idle \notin W BY <1>3 DEF DeviceInterrupt, Started
    <2>2. QED
      BY <1>3, <1>i, <2>1, ProperWoken, InterruptSettles, SettledIInv DEF DeviceInterrupt
  <1>4. ASSUME NEW t \in Threads, NEW gate \in BOOLEAN, SendWakes(t, gate) PROVE IInv'
    <2>1. Idle \notin {t} BY <1>4 DEF SendWakes, Started
    <2>2. CASE gate
      BY <1>4, <1>i, <2>1, <2>2, ProperWoken, InterruptSettles, SettledIInv DEF SendWakes
    <2>3. CASE ~gate
      <3>1. /\ state' = Woken({t})
            /\ UNCHANGED <<thread_list, list_end, pc, objects, current_thread, quantum>>
            /\ NeedsResched' \in BOOLEAN
        BY <1>4, <2>3 DEF SendWakes, WakeRequests, IInv, TypeOK
      <3>2. Proper(Woken({t})) /\ Woken({t})[current_thread] # "BLOCKED"
        BY <2>1, ProperWoken
      <3>3. TypeOK' BY <3>1, <3>2 DEF IInv, TypeOK, Proper
      <3>4. OneRunner' BY <3>1, <3>2 DEF OneRunner, Proper
      <3>5. ListSound' BY <3>1 DEF IInv, ListSound, Listed
      <3>6. IdleSound' BY <3>1, <3>2 DEF IInv, IdleSound, Proper
      <3>7. PlacesGiven' BY <3>1 DEF IInv, PlacesGiven
      <3>8. QED BY <3>3, <3>4, <3>5, <3>6, <3>7 DEF IInv
    <2>4. QED BY <2>2, <2>3
  <1>5. CASE ReceiveBlocks
    <2>1. current_thread # Idle BY <1>5, <1>i DEF ReceiveBlocks, InSyscall
    <2>2. Proper([state EXCEPT ![current_thread] = "BLOCKED"])
      BY <1>i, <2>1, ProperExcept DEF ThreadState
    <2>3. Settled
      BY <1>5, <1>i, <2>2, Switch DEF ReceiveBlocks, Settled, IInv, ListSound, IdleSound
    <2>4. pc' \in [Threads -> {"start", "user", "receive"}] /\ pc'[Idle] = "user"
      BY <1>5, <1>i, <2>1 DEF ReceiveBlocks
    <2>5. QED BY <1>5, <2>3, <2>4, SettledIInv DEF ReceiveBlocks
  <1>6. CASE ReceiveReturns \/ Bootstrap
    <2>1. /\ UNCHANGED <<thread_list, list_end, state, current_thread, NeedsResched, quantum, objects>>
          /\ pc' = [pc EXCEPT ![current_thread] = "user"]
      BY <1>6 DEF ReceiveReturns, Bootstrap
    <2>2. TypeOK' BY <1>i, <2>1 DEF IInv, TypeOK
    <2>3. OneRunner' BY <2>1 DEF IInv, OneRunner
    <2>4. ListSound' BY <2>1 DEF IInv, ListSound, Listed
    <2>5. IdleSound' BY <1>i, <2>1 DEF IInv, IdleSound
    <2>6. PlacesGiven' BY <2>1 DEF IInv, PlacesGiven
    <2>7. QED BY <2>2, <2>3, <2>4, <2>5, <2>6 DEF IInv
  <1>7. CASE BootstrapStop
    <2> DEFINE st == [state EXCEPT ![current_thread] = "TERMINATED"]
    <2>1. current_thread # Idle BY <1>7, <1>i DEF BootstrapStop
    <2>2. Proper(st) BY <1>i, <2>1, ProperExcept DEF ThreadState
    <2>3. st[current_thread] # "BLOCKED" BY <1>i DEF IInv, TypeOK
    <2>4. InterruptReturn(st, Ticked, TRUE) BY <1>7 DEF BootstrapStop
    <2> HIDE DEF st
    <2>5. Settled BY <1>i, <2>2, <2>3, <2>4, InterruptSettles
    <2>6. QED BY <1>7, <1>i, <2>5, SettledIInv DEF BootstrapStop
  <1>8. ASSUME NEW t \in Threads, RunThread(t) PROVE IInv'
    <2>1. t # Idle /\ t \notin Listed /\ t # current_thread
      BY <1>8 DEF RunThread, ThreadHandles, Siblings, IInv, ListSound, Listed
    <2>2. /\ list_end' = list_end + 1
          /\ thread_list' = [thread_list EXCEPT ![t] = list_end + 1]
          /\ state' = [state EXCEPT ![t] = "READY"]
          /\ UNCHANGED <<current_thread, NeedsResched, quantum, pc, objects>>
      BY <1>8 DEF RunThread
    <2>3. TypeOK' BY <2>2 DEF IInv, TypeOK, ThreadState
    <2>4. OneRunner' BY <2>1, <2>2 DEF IInv, TypeOK, OneRunner
    <2>5. ListSound'
      <3>1. thread_list'[current_thread'] # 0 BY <2>1, <2>2 DEF IInv, ListSound, TypeOK
      <3>2. ASSUME NEW u \in Listed', NEW v \in Listed', thread_list'[u] = thread_list'[v]
            PROVE  u = v
        <4>1. u \in Threads /\ v \in Threads BY DEF Listed
        <4>2. \A w \in Threads : w # t => thread_list'[w] = thread_list[w]
          BY <2>2 DEF IInv, TypeOK
        <4>3. thread_list'[t] = list_end + 1 BY <2>2 DEF IInv, TypeOK
        <4>4. \A w \in Threads : thread_list[w] <= list_end /\ thread_list[w] \in Nat
          BY DEF IInv, TypeOK, PlacesGiven
        <4>5. list_end \in Nat BY DEF IInv, TypeOK
        <4>6. CASE u = t BY <3>2, <4>1, <4>2, <4>3, <4>4, <4>5, <4>6
        <4>7. CASE v = t BY <3>2, <4>1, <4>2, <4>3, <4>4, <4>5, <4>7
        <4>8. CASE u # t /\ v # t
          <5>1. u \in Listed /\ v \in Listed BY <4>1, <4>2, <4>8 DEF Listed
          <5>2. QED BY <3>2, <4>1, <4>2, <4>8, <5>1 DEF IInv, ListSound
        <4>9. QED BY <4>6, <4>7, <4>8
      <3>3. QED BY <3>1, <3>2 DEF ListSound
    <2>6. IdleSound' BY <2>1, <2>2 DEF IInv, TypeOK, IdleSound
    <2>7. PlacesGiven' BY <2>2 DEF IInv, TypeOK, PlacesGiven
    <2>8. QED BY <2>3, <2>4, <2>5, <2>6, <2>7 DEF IInv
  <1>9. ASSUME NEW t \in Threads, DeleteThreadObject(t) PROVE IInv'
    <2>1. t # Idle BY <1>9 DEF DeleteThreadObject, ThreadHandles, Siblings
    <2>2. /\ state' = [state EXCEPT ![t] = "TERMINATED"]
          /\ thread_list' = [thread_list EXCEPT ![t] = IF t = current_thread THEN @ ELSE 0]
          /\ objects' = objects \ {t}
          /\ UNCHANGED <<list_end, current_thread, NeedsResched, quantum, pc>>
      BY <1>9 DEF DeleteThreadObject
    <2>3. TypeOK' BY <2>2 DEF IInv, TypeOK, ThreadState
    <2>4. OneRunner' BY <2>2 DEF IInv, TypeOK, OneRunner
    <2>5. ListSound'
      <3>1. \A u \in Listed' : u \in Listed /\ thread_list'[u] = thread_list[u]
        BY <2>2 DEF Listed, IInv, TypeOK
      <3>2. thread_list'[current_thread'] # 0 BY <2>2 DEF IInv, TypeOK, ListSound
      <3>3. QED BY <3>1, <3>2 DEF IInv, ListSound
    <2>6. IdleSound' BY <2>1, <2>2 DEF IInv, TypeOK, IdleSound
    <2>7. PlacesGiven' BY <2>2 DEF IInv, TypeOK, PlacesGiven
    <2>8. QED BY <2>3, <2>4, <2>5, <2>6, <2>7 DEF IInv
  <1>10. CASE SyscallExit
    <2> DEFINE st == [AfterDeleteProcess EXCEPT ![current_thread] = "TERMINATED"]
               D  == ThreadHandles \cup {current_thread}
    <2>1. current_thread # Idle BY <1>10 DEF SyscallExit, InSyscall
    <2>2. Proper(st)
      BY <1>i, <2>1, ProperAfterDelete DEF Proper, ThreadState
    <2>3. \A t \in D : st[t] = "TERMINATED"
      BY <1>i, <2>1, ProperAfterDelete DEF Proper, ThreadHandles, IInv, TypeOK
    <2>4. /\ ScheduleNext(st, quantum)
          /\ thread_list' = [t \in Threads |-> IF t \in D THEN 0 ELSE thread_list[t]]
          /\ objects' \subseteq objects
          /\ UNCHANGED <<list_end, pc>>
      BY <1>10 DEF SyscallExit
    <2>5. Idle \notin D BY <2>1, ProperAfterDelete
    <2> HIDE DEF st, D
    <2>6. Settled /\ st[current_thread'] = "READY"
      BY <1>i, <2>1, <2>2, <2>4, Switch DEF Settled, IInv, ListSound, IdleSound
    <2>7. current_thread' \notin D BY <2>3, <2>6
    <2>8. QED BY <2>4, <2>5, <2>6, <2>7, UnlistIInv
  <1>11. CASE UserException
    <2> DEFINE D == ThreadHandles \ {current_thread}
    <2>1. current_thread # Idle BY <1>11 DEF UserException, InSyscall
    <2>2. /\ ScheduleNext(AfterDeleteProcess, quantum)
          /\ thread_list' = [t \in Threads |-> IF t \in D THEN 0 ELSE thread_list[t]]
          /\ objects' \subseteq objects
          /\ UNCHANGED <<list_end, pc>>
      BY <1>11 DEF UserException, InterruptReturn
    <2>3. Settled /\ AfterDeleteProcess[current_thread'] = "READY"
      BY <1>i, <2>1, <2>2, ProperAfterDelete, Switch DEF Settled, IInv, ListSound, IdleSound
    <2>4. Idle \notin D /\ current_thread' \notin D
      BY <2>1, <2>3, ProperAfterDelete
    <2> HIDE DEF D
    <2>5. QED BY <2>2, <2>3, <2>4, UnlistIInv
  <1>12. CASE UNCHANGED vars
    BY <1>12 DEF vars, IInv, TypeOK, OneRunner, ListSound, Listed, IdleSound, PlacesGiven
  <1>13. QED
    BY <1>1, <1>2, <1>3, <1>4, <1>5, <1>6, <1>7, <1>8, <1>9, <1>10, <1>11, <1>12
       DEF Next, KernelStep

-----------------------------------------------------------------------------
THEOREM SchedulerInductive == Spec => []IInv
  <1>1. Init => IInv BY InitIInv
  <1>2. IInv /\ [Next]_vars => IInv' BY NextIInv
  <1>3. QED BY <1>1, <1>2, PTL DEF Spec

(* Whatever the threads do, the scheduler's state keeps its types: the     *)
(* quantum PITCallback counts down stays a quantum, current_thread a thread.*)
THEOREM SchedulerTypeCorrect == Spec => []TypeOK
  <1>1. IInv => TypeOK BY DEF IInv
  <1>2. QED BY <1>1, SchedulerInductive, PTL

(* For any number of threads a context switch leaves one owner of the CPU, *)
(* and it is not one that _DWIPCReceive put to sleep.                      *)
THEOREM SchedulerOneRunner == Spec => []OneRunner
  <1>1. IInv => OneRunner BY DEF IInv
  <1>2. QED BY <1>1, SchedulerInductive, PTL

(* The walk of SelectNextThread always starts at a node of the list.       *)
THEOREM SchedulerListSound == Spec => []ListSound
  <1>1. IInv => ListSound BY DEF IInv
  <1>2. QED BY <1>1, SchedulerInductive, PTL

(* A user thread that gives up the CPU always has somebody to give it to:  *)
(* the idle thread is ready whenever it does not run.                      *)
THEOREM SchedulerAlwaysATask == Spec => []AlwaysATask
  <1>1. IInv => AlwaysATask
    <2> SUFFICES ASSUME IInv, current_thread # Idle
                 PROVE  SelectNextThread(state) # NullPointer
      BY DEF AlwaysATask
    <2>1. Idle \in Listed /\ state[Idle] = "READY"
      BY SchedulerAssumption DEF IInv, IdleSound, Listed
    <2>2. TypeOK BY DEF IInv
    <2>3. QED BY <2>1, <2>2, SelectIsReady
  <1>2. QED BY <1>1, SchedulerInductive, PTL

(* A thread leaves the list only by being terminated.                      *)
LEMMA StepUnlists ==
    IInv /\ [Next]_vars => [\A t \in Listed : thread_list'[t] = 0 => state'[t] = "TERMINATED"]_vars
  <1> SUFFICES ASSUME IInv, Next, NEW t \in Listed, thread_list'[t] = 0
               PROVE  state'[t] = "TERMINATED"
    OBVIOUS
  <1> USE SchedulerAssumption
  <1>i. /\ t \in Threads /\ thread_list[t] # 0
        /\ quantum \in 0 .. QuantumRange - 1
        /\ TypeOK /\ thread_list[Idle] # 0 /\ thread_list[current_thread] # 0
    BY DEF IInv, TypeOK, Listed, IdleSound, ListSound
  <1>1. ASSUME UNCHANGED thread_list PROVE FALSE BY <1>1, <1>i
  <1>2. ASSUME NEW u \in Threads, RunThread(u) PROVE FALSE
    BY <1>2, <1>i DEF RunThread, TypeOK
  <1>3. ASSUME NEW u \in Threads, DeleteThreadObject(u) PROVE state'[t] = "TERMINATED"
    BY <1>3, <1>i DEF DeleteThreadObject, TypeOK
  <1>4. CASE SyscallExit
    <2> DEFINE st == [AfterDeleteProcess EXCEPT ![current_thread] = "TERMINATED"]
    <2>1. current_thread # Idle BY <1>4 DEF SyscallExit, InSyscall
    <2>2. Proper(st)
      BY <1>i, <2>1, ProperAfterDelete DEF Proper, ThreadState, TypeOK
    <2>3. st[t] = "TERMINATED"
      BY <1>4, <1>i, <2>1, ProperAfterDelete DEF SyscallExit, Proper, TypeOK
    <2>4. ScheduleNext(st, quantum) BY <1>4 DEF SyscallExit
    <2> HIDE DEF st
    <2>5. QED BY <1>i, <2>2, <2>3, <2>4, Switch
  <1>5. CASE UserException
    <2>1. current_thread # Idle BY <1>5 DEF UserException, InSyscall
    <2>2. Proper(AfterDeleteProcess) BY <2>1, ProperAfterDelete
    <2>3. AfterDeleteProcess[t] = "TERMINATED"
      BY <1>5, <1>i, <2>1, ProperAfterDelete DEF UserException
    <2>4. ScheduleNext(AfterDeleteProcess, quantum)
      BY <1>5 DEF UserException, InterruptReturn
    <2>5. QED BY <1>i, <2>2, <2>3, <2>4, Switch
  <1>6. ASSUME NEW W, DeviceInterrupt(W) PROVE FALSE BY <1>1, <1>6 DEF DeviceInterrupt
  <1>7. ASSUME NEW u, NEW gate, SendWakes(u, gate) PROVE FALSE BY <1>1, <1>7 DEF SendWakes
  <1>8. ASSUME TimerInterrupt \/ Yield \/ KernelStep PROVE FALSE
    BY <1>1, <1>8 DEF KernelStep, TimerInterrupt, Yield, ReceiveBlocks, ReceiveReturns,
                      Bootstrap, BootstrapStop
  <1> HIDE SchedulerAssumption
  <1>9. QED BY <1>2, <1>3, <1>4, <1>5, <1>6, <1>7, <1>8 DEF Next

(* Unlinking a thread (RemoveThreadFromScheduler) loses no other: only one *)
(* that the same kernel entry terminates leaves the list.                  *)
THEOREM SchedulerUnlistedIsTerminated == Spec => UnlistedIsTerminated
  <1>1. IInv /\ [Next]_vars
          => [\A t \in Listed : thread_list'[t] = 0 => state'[t] = "TERMINATED"]_vars
    BY StepUnlists
  <1>2. QED BY <1>1, SchedulerInductive, PTL DEF Spec, UnlistedIsTerminated

-----------------------------------------------------------------------------
(* Message passing *)

(* The types of the ports' state; a thread inside _DWIPCReceive is there   *)
(* for some port.                                                          *)
IpcTypeOK ==
    /\ count \in [Ports -> Nat]
    /\ waits \in [Threads -> Ports \cup {NullPointer}]
    /\ \A t \in Threads : pc[t] = "receive" => waits[t] \in Ports

IpcIInv == IInv /\ IpcTypeOK /\ NoLostWakeup

(* Every step of message passing is a step of the scheduler. *)
LEMMA IpcStepSchedules == [IpcNext]_ipcVars => [Next]_vars
  <1> SUFFICES ASSUME [IpcNext]_ipcVars PROVE [Next]_vars OBVIOUS
  <1> USE IpcAssumption
  <1>1. ASSUME NEW p \in Ports, NEW gate \in BOOLEAN, IPCSend(p, gate) PROVE Next
    BY <1>1 DEF IPCSend, Next
  <1>2. ASSUME NEW p \in Ports, NEW t \in Threads, IRQRelay(p, t) PROVE Next
    <2>1. PICK W \in {{}} \cup {{u, v} : u, v \in Threads} : DeviceInterrupt(W)
      <3>1. CASE Full(p) BY <1>2, <3>1 DEF IRQRelay
      <3>2. CASE ~Full(p)
        <4>1. DeviceInterrupt({PortOwner[p], t}) BY <1>2, <3>2 DEF IRQRelay
        <4>2. PortOwner[p] \in Threads OBVIOUS
        <4>3. QED BY <4>1, <4>2
      <3>3. QED BY <3>1, <3>2
    <2>2. QED BY <2>1 DEF Next
  <1>3. ASSUME NEW p \in Ports, IPCReceive(p) PROVE [Next]_vars
    BY <1>3 DEF IPCReceive, Next, KernelStep
  <1>4. CASE IPCReceiveResumed BY <1>4 DEF IPCReceiveResumed, Next, KernelStep
  <1>5. CASE TimerInterrupt BY <1>5 DEF Next
  <1>6. CASE Bootstrap BY <1>6 DEF Next, KernelStep
  <1>7. CASE OtherEntry
    <2>1. DeviceInterrupt({}) => Next BY DEF Next
    <2>2. QED BY <1>7, <2>1 DEF OtherEntry, Next, KernelStep
  <1>8. CASE UNCHANGED ipcVars BY <1>8 DEF ipcVars, vars
  <1>9. QED BY <1>1, <1>2, <1>3, <1>4, <1>5, <1>6, <1>7, <1>8 DEF IpcNext

-----------------------------------------------------------------------------
(* A context switch puts nobody to sleep: who sleeps after it slept in the *)
(* states it was entered with.                                             *)
LEMMA SwitchBlocksNobody ==
    ASSUME NEW st \in [Threads -> ThreadState], NEW q, ScheduleNext(st, q),
           NEW t \in Threads, state'[t] = "BLOCKED"
    PROVE  st[t] = "BLOCKED"
  <1> DEFINE chosen == SelectNextThread(st)
  <1>1. CASE chosen = NullPointer BY <1>1 DEF ScheduleNext
  <1>2. CASE chosen # NullPointer
    <2>1. state' = [u \in Threads |->
                      IF chosen = current_thread THEN st[u]
                      ELSE IF u = chosen THEN "RUNNING"
                      ELSE IF u = current_thread /\ st[u] = "RUNNING" THEN "READY"
                      ELSE st[u]]
      BY <1>2 DEF ScheduleNext
    <2> HIDE DEF chosen
    <2>2. QED BY <2>1
  <1>3. QED BY <1>1, <1>2

LEMMA InterruptBlocksNobody ==
    ASSUME NEW st \in [Threads -> ThreadState], NEW q, NEW r, InterruptReturn(st, q, r),
           NEW t \in Threads, state'[t] = "BLOCKED"
    PROVE  st[t] = "BLOCKED"
  <1>1. CASE r BY <1>1, SwitchBlocksNobody DEF InterruptReturn
  <1>2. CASE ~r BY <1>2 DEF InterruptReturn
  <1>3. QED BY <1>1, <1>2

(* Whom WakeThread was called on does not sleep, nor does anybody who did  *)
(* not before.                                                             *)
LEMMA WokenAreAwake ==
    ASSUME TypeOK, NEW W
    PROVE  /\ Woken(W) \in [Threads -> ThreadState]
           /\ \A t \in Threads : Woken(W)[t] = "BLOCKED" => t \notin W /\ state[t] = "BLOCKED"
  BY DEF TypeOK, Woken, ThreadState

(* Only a wait in _DWIPCReceive puts a thread to sleep, and only the       *)
(* running one.                                                            *)
Sleepers == {t \in Threads : state[t] = "BLOCKED"}

LEMMA SendBlocksNobody ==
    ASSUME TypeOK, NEW t, NEW gate \in BOOLEAN, SendWakes(t, gate)
    PROVE  Sleepers' \subseteq Sleepers \ {t}
  <1> SUFFICES ASSUME NEW u \in Threads, state'[u] = "BLOCKED"
               PROVE  u # t /\ state[u] = "BLOCKED"
    BY DEF Sleepers
  <1>1. Woken({t})[u] = "BLOCKED"
    <2>1. CASE gate
      BY <2>1, WokenAreAwake, InterruptBlocksNobody DEF SendWakes
    <2>2. CASE ~gate BY <2>2 DEF SendWakes
    <2>3. QED BY <2>1, <2>2
  <1>2. QED BY <1>1, WokenAreAwake

LEMMA RelayBlocksNobody ==
    ASSUME TypeOK, NEW W, DeviceInterrupt(W)
    PROVE  Sleepers' \subseteq Sleepers \ W
  <1> SUFFICES ASSUME NEW u \in Threads, state'[u] = "BLOCKED"
               PROVE  u \notin W /\ state[u] = "BLOCKED"
    BY DEF Sleepers
  <1>1. Woken(W)[u] = "BLOCKED"
    BY WokenAreAwake, InterruptBlocksNobody DEF DeviceInterrupt
  <1>2. QED BY <1>1, WokenAreAwake

LEMMA ReceiveBlocksCurrent ==
    ASSUME TypeOK, ReceiveBlocks
    PROVE  Sleepers' \subseteq Sleepers \cup {current_thread}
  <1> SUFFICES ASSUME NEW u \in Threads, state'[u] = "BLOCKED"
               PROVE  u = current_thread \/ state[u] = "BLOCKED"
    BY DEF Sleepers
  <1> DEFINE st == [state EXCEPT ![current_thread] = "BLOCKED"]
  <1>1. st \in [Threads -> ThreadState] BY DEF TypeOK, ThreadState
  <1>2. ScheduleNext(st, quantum) BY DEF ReceiveBlocks
  <1> HIDE DEF st
  <1>3. st[u] = "BLOCKED" BY <1>1, <1>2, SwitchBlocksNobody
  <1>4. QED BY <1>3 DEF st, TypeOK

LEMMA OthersBlockNobody ==
    ASSUME TypeOK, TimerInterrupt \/ Bootstrap \/ OtherEntry
    PROVE  Sleepers' \subseteq Sleepers
  <1> SUFFICES ASSUME NEW u \in Threads, state'[u] = "BLOCKED" PROVE state[u] = "BLOCKED"
    BY DEF Sleepers
  <1>t. state \in [Threads -> ThreadState] /\ current_thread \in Threads BY DEF TypeOK
  <1>1. CASE TimerInterrupt BY <1>1, <1>t, InterruptBlocksNobody DEF TimerInterrupt
  <1>2. CASE Bootstrap BY <1>2 DEF Bootstrap
  <1>3. CASE Yield BY <1>3, <1>t, InterruptBlocksNobody DEF Yield
  <1>4. CASE DeviceInterrupt({}) BY <1>4, RelayBlocksNobody DEF Sleepers
  <1>5. CASE BootstrapStop
    <2> DEFINE st == [state EXCEPT ![current_thread] = "TERMINATED"]
    <2>1. st \in [Threads -> ThreadState] BY <1>t DEF ThreadState
    <2>2. InterruptReturn(st, Ticked, TRUE) BY <1>5 DEF BootstrapStop
    <2> HIDE DEF st
    <2>3. st[u] = "BLOCKED" BY <2>1, <2>2, InterruptBlocksNobody
    <2>4. QED BY <1>t, <2>3 DEF st
  <1>6. ASSUME NEW t \in Threads, RunThread(t) \/ DeleteThreadObject(t)
        PROVE  state[u] = "BLOCKED"
    BY <1>6, <1>t DEF RunThread, DeleteThreadObject
  <1>7. AfterDeleteProcess \in [Threads -> ThreadState]
    BY <1>t DEF AfterDeleteProcess, ThreadState
  <1>8. AfterDeleteProcess[u] = "BLOCKED" => state[u] = "BLOCKED"
    BY DEF AfterDeleteProcess
  <1>9. CASE SyscallExit
    <2> DEFINE st == [AfterDeleteProcess EXCEPT ![current_thread] = "TERMINATED"]
    <2>1. st \in [Threads -> ThreadState] BY <1>7 DEF ThreadState
    <2>2. ScheduleNext(st, quantum) BY <1>9 DEF SyscallExit
    <2> HIDE DEF st
    <2>3. st[u] = "BLOCKED" BY <2>1, <2>2, SwitchBlocksNobody
    <2>4. AfterDeleteProcess[u] = "BLOCKED" BY <1>7, <2>3 DEF st
    <2>5. QED BY <1>8, <2>4
  <1>10. CASE UserException
    BY <1>7, <1>8, <1>10, InterruptBlocksNobody DEF UserException
  <1>11. QED BY <1>1, <1>2, <1>3, <1>4, <1>5, <1>6, <1>9, <1>10 DEF OtherEntry

-----------------------------------------------------------------------------
LEMMA InitIpcIInv == IpcInit => IpcIInv
  <1> SUFFICES ASSUME IpcInit PROVE IpcIInv OBVIOUS
  <1>1. IInv BY InitIInv DEF IpcInit
  <1>2. IpcTypeOK BY SchedulerAssumption DEF IpcInit, Init, IpcTypeOK
  <1>3. NoLostWakeup BY DEF IpcInit, Init, NoLostWakeup
  <1>4. QED BY <1>1, <1>2, <1>3 DEF IpcIInv

(* Who sleeps after the step slept before it, and was given no message. *)
LEMMA SleepersKeepWaiting ==
    ASSUME NoLostWakeup,
           \A t \in Sleepers' : t \in Sleepers /\ (HasMessage(t)' => HasMessage(t))
    PROVE  NoLostWakeup'
  BY DEF NoLostWakeup, Sleepers

LEMMA NextIpcIInv == IpcIInv /\ [IpcNext]_ipcVars => IpcIInv'
  <1> SUFFICES ASSUME IpcIInv, [IpcNext]_ipcVars PROVE IpcIInv' OBVIOUS
  <1> USE IpcAssumption
  <1>i. /\ TypeOK
        /\ current_thread \in Threads
        /\ pc \in [Threads -> {"start", "user", "receive"}]
        /\ count \in [Ports -> Nat]
        /\ waits \in [Threads -> Ports \cup {NullPointer}]
        /\ \A t \in Threads : pc[t] = "receive" => waits[t] \in Ports
        /\ NoLostWakeup
        /\ Sleepers \subseteq Threads
        /\ current_thread \notin Sleepers
    BY DEF IpcIInv, IInv, TypeOK, IpcTypeOK, OneRunner, Sleepers
  <1>s. IInv' BY IpcStepSchedules, NextIInv DEF IpcIInv
  <1> SUFFICES IpcTypeOK' /\ NoLostWakeup' BY <1>s DEF IpcIInv
  (* A message more in p wakes the owner of p. *)
  <1>1. ASSUME NEW p \in Ports, count' = [count EXCEPT ![p] = @ + 1], waits' = waits,
               Sleepers' \subseteq Sleepers \ {PortOwner[p]}, pc' = pc
        PROVE  IpcTypeOK' /\ NoLostWakeup'
    <2>1. IpcTypeOK' BY <1>1, <1>i DEF IpcTypeOK
    <2>2. ASSUME NEW t \in Sleepers', HasMessage(t)' PROVE HasMessage(t)
      <3>1. waits[t] # NullPointer /\ PortOwner[waits[t]] = t /\ count'[waits[t]] > 0
        BY <1>1, <2>2 DEF HasMessage
      <3>2. waits[t] \in Ports /\ waits[t] # p BY <1>1, <1>i, <3>1
      <3>3. count'[waits[t]] = count[waits[t]] BY <1>1, <1>i, <3>2
      <3>4. QED BY <3>1, <3>3 DEF HasMessage
    <2>3. NoLostWakeup' BY <1>1, <1>i, <2>2, SleepersKeepWaiting
    <2>4. QED BY <2>1, <2>3
  <1>2. ASSUME NEW p \in Ports, NEW gate \in BOOLEAN, IPCSend(p, gate)
        PROVE  IpcTypeOK' /\ NoLostWakeup'
    BY <1>1, <1>2, <1>i, SendBlocksNobody DEF IPCSend, SendWakes
  (* The ports are left alone and nobody is put to sleep. *)
  <1>3. ASSUME UNCHANGED <<count, waits>>, Sleepers' \subseteq Sleepers,
               \A t \in Threads : pc'[t] = "receive" => pc[t] = "receive"
        PROVE  IpcTypeOK' /\ NoLostWakeup'
    <2>1. IpcTypeOK' BY <1>3, <1>i DEF IpcTypeOK
    <2>2. NoLostWakeup' BY <1>3, <1>i, SleepersKeepWaiting DEF HasMessage
    <2>3. QED BY <2>1, <2>2
  <1>4. ASSUME NEW p \in Ports, NEW t \in Threads, IRQRelay(p, t)
        PROVE  IpcTypeOK' /\ NoLostWakeup'
    <2>1. CASE Full(p)
      <3>1. DeviceInterrupt({}) /\ UNCHANGED <<count, waits>> BY <1>4, <2>1 DEF IRQRelay
      <3>2. Sleepers' \subseteq Sleepers BY <1>i, <3>1, RelayBlocksNobody
      <3>3. pc' = pc BY <3>1 DEF DeviceInterrupt
      <3>4. QED BY <1>3, <3>1, <3>2, <3>3
    <2>2. CASE ~Full(p)
      <3>1. /\ DeviceInterrupt({PortOwner[p], t})
            /\ count' = [count EXCEPT ![p] = @ + 1]
            /\ waits' = waits
        BY <1>4, <2>2 DEF IRQRelay
      <3>2. Sleepers' \subseteq Sleepers \ {PortOwner[p]} BY <1>i, <3>1, RelayBlocksNobody
      <3>3. pc' = pc BY <3>1 DEF DeviceInterrupt
      <3>4. QED BY <1>1, <3>1, <3>2, <3>3
    <2>3. QED BY <2>1, <2>2
  (* A message taken from p: no port holds more than before. *)
  <1>5. ASSUME NEW p \in Ports, count[p] # 0, count' = [count EXCEPT ![p] = @ - 1],
               Sleepers' = Sleepers,
               \A t \in Threads : waits'[t] \in {waits[t], NullPointer},
               waits' \in [Threads -> Ports \cup {NullPointer}],
               \A t \in Threads : pc'[t] = "receive" => waits'[t] \in Ports
        PROVE  IpcTypeOK' /\ NoLostWakeup'
    <2>1. count' \in [Ports -> Nat] BY <1>5, <1>i
    <2>2. \A q \in Ports : count'[q] <= count[q] BY <1>5, <1>i
    <2>3. ASSUME NEW t \in Sleepers', HasMessage(t)' PROVE HasMessage(t)
      <3>1. t \in Threads BY <1>5, <1>i
      <3>2. /\ waits'[t] # NullPointer
            /\ PortOwner[waits'[t]] = t
            /\ count'[waits'[t]] > 0
        BY <2>3 DEF HasMessage
      <3>3. waits'[t] = waits[t] /\ waits[t] \in Ports BY <1>5, <1>i, <3>1, <3>2
      <3>4. count[waits[t]] > 0 BY <1>i, <2>1, <2>2, <3>2, <3>3
      <3>5. QED BY <3>2, <3>3, <3>4 DEF HasMessage
    <2>4. NoLostWakeup' BY <1>5, <1>i, <2>3, SleepersKeepWaiting
    <2>5. QED BY <1>5, <2>1, <2>4 DEF IpcTypeOK
  (* The running thread goes to sleep for an empty port. *)
  <1>6. ASSUME NEW p \in Ports, count[p] = 0, ReceiveBlocks, count' = count,
               waits' = [waits EXCEPT ![current_thread] = p]
        PROVE  IpcTypeOK' /\ NoLostWakeup'
    <2>1. pc' = [pc EXCEPT ![current_thread] = "receive"] BY <1>6 DEF ReceiveBlocks
    <2>2. IpcTypeOK' BY <1>6, <1>i, <2>1 DEF IpcTypeOK
    <2>3. ASSUME NEW t \in Threads, state'[t] = "BLOCKED" PROVE ~HasMessage(t)'
      <3>1. CASE t = current_thread
        <4>1. waits'[t] = p /\ count'[p] = 0 BY <1>6, <1>i, <3>1
        <4>2. QED BY <4>1 DEF HasMessage
      <3>2. CASE t # current_thread
        <4>1. state[t] = "BLOCKED"
          BY <1>6, <1>i, <2>3, <3>2, ReceiveBlocksCurrent DEF Sleepers
        <4>2. waits'[t] = waits[t] /\ count' = count BY <1>6, <1>i, <3>2
        <4>3. QED BY <1>i, <4>1, <4>2 DEF NoLostWakeup, HasMessage
      <3>3. QED BY <3>1, <3>2
    <2>4. QED BY <2>2, <2>3 DEF NoLostWakeup
  <1>7. ASSUME NEW p \in Ports, IPCReceive(p) PROVE IpcTypeOK' /\ NoLostWakeup'
    <2>1. CASE count[p] = 0 BY <1>6, <1>7, <2>1 DEF IPCReceive
    <2>2. CASE count[p] # 0
      <3>1. UNCHANGED <<vars, waits>> /\ count' = [count EXCEPT ![p] = @ - 1]
        BY <1>7, <2>2 DEF IPCReceive
      <3>2. Sleepers' = Sleepers /\ pc' = pc BY <3>1 DEF Sleepers, vars
      <3>3. QED BY <1>5, <1>i, <2>2, <3>1, <3>2
    <2>3. QED BY <2>1, <2>2
  <1>8. CASE IPCReceiveResumed
    <2> DEFINE p == waits[current_thread]
    <2>1. p \in Ports BY <1>8, <1>i DEF IPCReceiveResumed
    <2>2. CASE count[p] = 0
      <3>1. ReceiveBlocks /\ count' = count /\ waits' = waits
        BY <1>8, <2>2 DEF IPCReceiveResumed
      <3>2. waits' = [waits EXCEPT ![current_thread] = p] BY <1>i, <3>1
      <3> HIDE DEF p
      <3>3. QED BY <1>6, <2>1, <2>2, <3>1, <3>2
    <2>3. CASE count[p] # 0
      <3>1. /\ ReceiveReturns
            /\ count' = [count EXCEPT ![p] = @ - 1]
            /\ waits' = [waits EXCEPT ![current_thread] = NullPointer]
        BY <1>8, <2>3 DEF IPCReceiveResumed
      <3> HIDE DEF p
      <3>2. /\ Sleepers' = Sleepers
            /\ pc' = [pc EXCEPT ![current_thread] = "user"]
        BY <3>1 DEF ReceiveReturns, Sleepers
      <3>3. \A t \in Threads : pc'[t] = "receive" => waits'[t] \in Ports
        BY <1>i, <3>1, <3>2
      <3>4. /\ waits' \in [Threads -> Ports \cup {NullPointer}]
            /\ \A t \in Threads : waits'[t] \in {waits[t], NullPointer}
        BY <1>i, <3>1
      <3>5. QED BY <1>5, <2>1, <2>3, <3>1, <3>2, <3>3, <3>4
    <2>4. QED BY <2>2, <2>3
  <1>9. CASE (TimerInterrupt \/ Bootstrap \/ OtherEntry) /\ UNCHANGED <<count, waits>>
    <2>1. Sleepers' \subseteq Sleepers BY <1>9, <1>i, OthersBlockNobody
    <2>2. pc' = pc \/ pc' = [pc EXCEPT ![current_thread] = "user"]
      BY <1>9 DEF TimerInterrupt, Bootstrap, OtherEntry, Yield, DeviceInterrupt,
         BootstrapStop, RunThread, DeleteThreadObject, SyscallExit, UserException
    <2>3. \A t \in Threads : pc'[t] = "receive" => pc[t] = "receive" BY <1>i, <2>2
    <2>4. QED BY <1>3, <1>9, <2>1, <2>3
  <1>10. CASE UNCHANGED ipcVars
    <2>1. UNCHANGED <<count, waits>> /\ Sleepers' = Sleepers /\ pc' = pc
      BY <1>10 DEF ipcVars, vars, Sleepers
    <2>2. QED BY <1>3, <2>1
  <1>11. QED BY <1>2, <1>4, <1>7, <1>8, <1>9, <1>10 DEF IpcNext

-----------------------------------------------------------------------------
(* Whatever messages are sent, relayed and received, threads are scheduled *)
(* as Scheduler allows: what is proved of ScheduleNext and of the thread   *)
(* list holds while _DWIPCSend and _DWIPCReceive drive them.               *)
THEOREM IpcImplementsScheduler == IpcSpec => Spec
  <1>1. IpcInit => Init BY DEF IpcInit
  <1>2. QED BY <1>1, IpcStepSchedules, PTL DEF IpcSpec, Spec

(* The owner of a port never sleeps in _DWIPCReceive while the port holds  *)
(* a message, for any number of threads, ports and messages: the wake of   *)
(* _DWIPCSend or of a relayed interrupt is never lost.                     *)
THEOREM IpcNoLostWakeup == IpcSpec => []NoLostWakeup
  <1>1. IpcIInv => NoLostWakeup BY DEF IpcIInv
  <1>2. QED BY <1>1, InitIpcIInv, NextIpcIInv, PTL DEF IpcSpec
=============================================================================
