--------------------------- MODULE DriversProofs ---------------------------
(***************************************************************************)
(* What the kernel grants a driver, whatever the processes, threads, ports *)
(* and clients: the running process can use its I/O ports and no others,   *)
(* an interrupt is relayed once until it is acknowledged, and the keys of  *)
(* ps2kbd reach one listener in order.                                     *)
(***************************************************************************)
EXTENDS IOPorts, Keyboard, TLAPS

-----------------------------------------------------------------------------
(* I/O ports. *)

(* The state of the bitmap is well typed (ScheduleNext, _DWRequestPorts). *)
THEOREM IOPortsTypeCorrect == IOPortsSpec => []TypeOK
<1>1. IOPortsInit => TypeOK
  BY DEF IOPortsInit, TypeOK
<1>2. TypeOK /\ [IOPortsNext]_ioVars => TypeOK'
  <2> SUFFICES ASSUME TypeOK, [IOPortsNext]_ioVars PROVE TypeOK'
    OBVIOUS
  <2> USE IOPortsAssumption DEF TypeOK
  <2>1. ASSUME NEW t \in Threads, ScheduleNext(t) PROVE TypeOK'
    BY <2>1 DEF ScheduleNext, Disabled, Enabled
  <2>2. ASSUME NEW ports \in SUBSET Ports, _DWRequestPorts(ports) PROVE TypeOK'
    BY <2>2 DEF _DWRequestPorts, Disabled, Enabled
  <2>3. CASE UNCHANGED ioVars
    BY <2>3 DEF ioVars
  <2> QED BY <2>1, <2>2, <2>3 DEF IOPortsNext
<1> QED BY <1>1, <1>2, PTL DEF IOPortsSpec

(* PortsInv is preserved by every step: a switch between threads of one    *)
(* process, or to a thread without a process, changes nothing that the     *)
(* next process relies on, since its own ports are enabled last.           *)
LEMMA PortsInvStep == TypeOK /\ PortsInv /\ [IOPortsNext]_ioVars => PortsInv'
<1> SUFFICES ASSUME TypeOK, PortsInv, [IOPortsNext]_ioVars PROVE PortsInv'
  OBVIOUS
<1> USE IOPortsAssumption DEF TypeOK, PortsInv, Running
<1>1. ASSUME NEW t \in Threads, ScheduleNext(t) PROVE PortsInv'
  <2>1. CASE Owner[t] = NoProcess
    BY <1>1, <2>1 DEF ScheduleNext
  <2>2. CASE Owner[t] = Owner[current_thread]
    BY <1>1, <2>2 DEF ScheduleNext
  <2>3. CASE Owner[t] # NoProcess /\ Owner[t] # Owner[current_thread]
    BY <1>1, <2>3 DEF ScheduleNext, Enabled
  <2> QED BY <2>1, <2>2, <2>3
<1>2. ASSUME NEW ports \in SUBSET Ports, _DWRequestPorts(ports) PROVE PortsInv'
  BY <1>2 DEF _DWRequestPorts, Enabled
<1>3. CASE UNCHANGED ioVars
  BY <1>3 DEF ioVars
<1> QED BY <1>1, <1>2, <1>3 DEF IOPortsNext

(* The running process can use the ports _DWRequestPorts granted to it,    *)
(* however ScheduleNext interleaves the threads.                           *)
THEOREM IOPortsUsable == IOPortsSpec => []PortsUsable
<1>1. IOPortsInit => PortsInv
  BY IOPortsAssumption DEF IOPortsInit, PortsInv, Running
<1>2. PortsInv => PortsUsable
  BY DEF PortsInv, PortsUsable, Accessible
<1>3. TypeOK /\ PortsInv /\ [IOPortsNext]_ioVars => PortsInv'
  BY PortsInvStep
<1> QED BY <1>1, <1>2, <1>3, IOPortsTypeCorrect, PTL DEF IOPortsSpec

(* ScheduleNext takes the ports of one process away before it gives the    *)
(* next one its own, and _DWRequestPorts those the process had before.     *)
THEOREM IOPortsStayConfined == IOPortsSpec => PortsStayConfined
<1>1. TypeOK /\ [IOPortsNext]_ioVars => [Confined /\ Running' # NoProcess => Confined']_ioVars
  <2> SUFFICES ASSUME TypeOK, IOPortsNext, Confined, Running' # NoProcess PROVE Confined'
    OBVIOUS
  <2> USE IOPortsAssumption DEF TypeOK, Confined, Running
  <2>1. ASSUME NEW t \in Threads, ScheduleNext(t) PROVE Confined'
    <3>1. Owner[t] # NoProcess /\ current_thread' = t /\ ioports' = ioports
      BY <2>1 DEF ScheduleNext
    <3>2. CASE Owner[t] = Owner[current_thread]
      BY <2>1, <3>1, <3>2 DEF ScheduleNext
    <3>3. CASE Owner[t] # Owner[current_thread]
      <4>1. ioperm' = (ioperm \ ioports[Owner[current_thread]]) \cup ioports[Owner[t]]
        BY <2>1, <3>1, <3>3 DEF ScheduleNext, Disabled, Enabled
      <4> QED BY <3>1, <4>1
    <3> QED BY <3>2, <3>3
  <2>2. ASSUME NEW ports \in SUBSET Ports, _DWRequestPorts(ports) PROVE Confined'
    BY <2>2 DEF _DWRequestPorts, Disabled, Enabled
  <2> QED BY <2>1, <2>2 DEF IOPortsNext
<1> QED BY <1>1, IOPortsTypeCorrect, PTL DEF IOPortsSpec, PortsStayConfined

-----------------------------------------------------------------------------
(* The keyboard.  Where ps2kbd is before and after it has bound IRQ 1. *)
Starting == {"probe", "reset", "response", "pass", "scan", "flush", "create", "bind", "gone"}
Serving == {"receive", "drain", "acknowledge", "request"}

KeyboardTypeOK ==
    /\ pressed \in Nat /\ buffer \in Seq(Int)
    /\ masked \in BOOLEAN /\ active \in BOOLEAN
    /\ port \in Seq(Clients \cup {Kernel})
    /\ pc \in Starting \cup Serving
    /\ message \in Clients \cup {Kernel, NullPointer}
    /\ listener \in Clients \cup {NullPointer}
    /\ inbox \in [Clients -> Seq(Int)]

(* One relayed interrupt at most, in the port or in the hands of ps2kbd,   *)
(* and a masked line while there is one; none before ps2kbd binds the IRQ, *)
(* which unmasks the line.                                                 *)
RelayInv ==
    /\ active => pc \in Serving
    /\ message = Kernel <=> pc \in {"drain", "acknowledge"}
    /\ pc = "request" => message \in Clients
    /\ \A i \in DOMAIN port : port[i] = Kernel =>
          /\ masked /\ active /\ message # Kernel
          /\ \A j \in DOMAIN port : port[j] = Kernel => i = j
    /\ message = Kernel => masked /\ active

(* Once the answers to its commands are flushed, only keys are in the      *)
(* controller, oldest first and newer than any that a client holds.        *)
KeysInv ==
    /\ \A c \in Clients : \A i \in DOMAIN inbox[c] : inbox[c][i] <= pressed
    /\ pc \in Serving \cup {"create", "bind"} =>
          \A k \in DOMAIN buffer :
             /\ buffer[k] >= 1 /\ buffer[k] <= pressed
             /\ \A l \in DOMAIN buffer : k < l => buffer[k] < buffer[l]
             /\ \A c \in Clients : \A i \in DOMAIN inbox[c] : inbox[c][i] < buffer[k]

KeyboardIInv == KeyboardTypeOK /\ RelayInv /\ KeysInv /\ OneListener

(* What a message or a byte adds to a queue, and what reading one leaves. *)
LEMMA EnqueuedFacts ==
    ASSUME NEW S, NEW q \in Seq(S), NEW m \in S
    PROVE  /\ Enqueued(q, m) \in Seq(S)
           /\ \A i \in DOMAIN Enqueued(q, m) :
                 \/ i \in DOMAIN q /\ Enqueued(q, m)[i] = q[i]
                 \/ i = Len(q) + 1 /\ Enqueued(q, m)[i] = m
  BY DEF Enqueued

LEMMA AppendFacts ==
    ASSUME NEW S, NEW q \in Seq(S), NEW m \in S
    PROVE  /\ Append(q, m) \in Seq(S)
           /\ \A i \in DOMAIN Append(q, m) :
                 \/ i \in DOMAIN q /\ Append(q, m)[i] = q[i]
                 \/ i = Len(q) + 1 /\ Append(q, m)[i] = m
  OBVIOUS

LEMMA TailFacts ==
    ASSUME NEW S, NEW q \in Seq(S), q # << >>
    PROVE  /\ Tail(q) \in Seq(S)
           /\ Head(q) \in S /\ 1 \in DOMAIN q /\ Head(q) = q[1]
           /\ \A i \in DOMAIN Tail(q) : i \in Nat /\ i >= 1 /\ i + 1 \in DOMAIN q /\ Tail(q)[i] = q[i + 1]
  OBVIOUS

LEMMA DomainFacts == ASSUME NEW S, NEW q \in Seq(S)
                     PROVE  \A i \in DOMAIN q : i \in Nat /\ i >= 1 /\ i <= Len(q) /\ q[i] \in S
  OBVIOUS

(* The controllers and ps2kbd before it has bound the IRQ touch neither    *)
(* the port nor an inbox.                                                  *)
LEMMA StartKeeps ==
    ASSUME KeyboardIInv,
           \/ Probe8042Controller \/ ResetKeyboard
           \/ Expect("response", Ack, "pass") \/ Expect("pass", Passed, "scan")
           \/ EnableScanning \/ Flush \/ CreatePort
    PROVE  KeyboardIInv'
  <1> USE DEF KeyboardIInv, KeyboardTypeOK, Starting, Serving
  <1>1. /\ UNCHANGED <<pressed, masked, active, port, message, listener, inbox>>
        /\ ~active /\ message # Kernel
        /\ pc' \in Starting
        /\ pc' \in {"create", "bind"} => buffer' = buffer /\ (buffer = << >> \/ pc = "create")
        /\ pc # "bind"
    BY DEF Probe8042Controller, ResetKeyboard, Expect, EnableScanning, Flush, CreatePort,
       ReadData, hardware, RelayInv
  <1>2. buffer' \in Seq(Int)
    <2>1. ReadData /\ buffer # << >> => buffer' \in Seq(Int)
      BY TailFacts DEF ReadData
    <2>2. CASE ResetKeyboard
      <3>1. PICK answer \in {<<Ack, Passed>>, << >>} :
               buffer' = (IF buffer = << >> THEN << >> ELSE <<Head(buffer)>>) \o answer
        BY <2>2 DEF ResetKeyboard
      <3>2. <<Ack, Passed>> \in Seq(Int) /\ << >> \in Seq(Int) BY DEF Ack, Passed
      <3>5. answer \in Seq(Int) BY <3>2
      <3>3. (IF buffer = << >> THEN << >> ELSE <<Head(buffer)>>) \in Seq(Int) OBVIOUS
      <3>4. QED BY <3>1, <3>3, <3>5
    <2>3. CASE EnableScanning BY <2>3 DEF EnableScanning, Ack
    <2>4. CASE Probe8042Controller BY <2>4 DEF Probe8042Controller
    <2>5. CASE Flush \/ CreatePort BY <2>1, <2>5 DEF Flush, CreatePort, hardware
    <2>6. CASE Expect("response", Ack, "pass") \/ Expect("pass", Passed, "scan")
      BY <2>1, <2>6 DEF Expect, hardware
    <2>7. QED BY <2>2, <2>3, <2>4, <2>5, <2>6
  <1>3. KeyboardTypeOK' BY <1>1, <1>2
  <1>4. RelayInv'
    BY <1>1 DEF RelayInv
  <1>5. KeysInv'
    BY <1>1 DEF KeysInv
  <1>6. OneListener' BY <1>1 DEF OneListener
  <1>7. QED BY <1>3, <1>4, <1>5, <1>6

LEMMA PressKeyKeeps == KeyboardIInv /\ PressKey => KeyboardIInv'
  <1> SUFFICES ASSUME KeyboardIInv, PressKey PROVE KeyboardIInv'
    OBVIOUS
  <1> USE DEF KeyboardIInv, KeyboardTypeOK
  <1>1. /\ pressed' = pressed + 1 /\ buffer' = Append(buffer, pressed + 1)
        /\ UNCHANGED <<masked, active, port, inbox, pc, message, listener>>
    BY DEF PressKey, server
  <1>2. KeyboardTypeOK' BY <1>1, AppendFacts
  <1>3. RelayInv' BY <1>1 DEF RelayInv
  <1>4. OneListener' BY <1>1 DEF OneListener
  <1>5. KeysInv'
    <2>1. \A c \in Clients : \A i \in DOMAIN inbox[c] : inbox[c][i] \in Int
      BY DomainFacts
    <2>2. \A i \in DOMAIN buffer : i \in Nat /\ i <= Len(buffer) /\ buffer[i] \in Int
      BY DomainFacts
    <2>3. \A i \in DOMAIN buffer' :
             \/ i \in DOMAIN buffer /\ buffer'[i] = buffer[i]
             \/ i = Len(buffer) + 1 /\ buffer'[i] = pressed + 1
      BY <1>1, AppendFacts
    <2>4. Len(buffer) \in Nat OBVIOUS
    <2>5. \A c \in Clients : \A i \in DOMAIN inbox[c] : inbox[c][i] <= pressed
      BY DEF KeysInv
    <2>6. \A c \in Clients : \A i \in DOMAIN inbox[c] : inbox[c][i] < pressed + 1
      BY <2>1, <2>5
    <2>7. ASSUME pc \in Serving \cup {"create", "bind"}, NEW k \in DOMAIN buffer'
          PROVE  /\ buffer'[k] >= 1 /\ buffer'[k] <= pressed + 1
                 /\ \A l \in DOMAIN buffer' : k < l => buffer'[k] < buffer'[l]
                 /\ \A c \in Clients : \A i \in DOMAIN inbox[c] : inbox[c][i] < buffer'[k]
      <3>1. CASE k \in DOMAIN buffer /\ buffer'[k] = buffer[k]
        <4>1. /\ buffer[k] >= 1 /\ buffer[k] <= pressed
              /\ \A l \in DOMAIN buffer : k < l => buffer[k] < buffer[l]
              /\ \A c \in Clients : \A i \in DOMAIN inbox[c] : inbox[c][i] < buffer[k]
          BY <2>7, <3>1 DEF KeysInv
        <4>2. buffer[k] \in Int BY <2>2, <3>1
        <4>3. buffer'[k] <= pressed + 1 /\ buffer'[k] < pressed + 1 BY <3>1, <4>1, <4>2
        <4>4. \A l \in DOMAIN buffer' : k < l => buffer'[k] < buffer'[l]
          BY <2>3, <3>1, <4>1, <4>3
        <4>5. QED BY <3>1, <4>1, <4>3, <4>4
      <3>2. CASE k = Len(buffer) + 1 /\ buffer'[k] = pressed + 1
        <4>1. ASSUME NEW l \in DOMAIN buffer' PROVE ~(k < l)
          <5>1. CASE l \in DOMAIN buffer
            <6>1. l \in Nat /\ l <= Len(buffer) BY <2>2, <5>1
            <6>2. QED BY <2>4, <3>2, <6>1
          <5>2. CASE l = Len(buffer) + 1 BY <2>4, <3>2, <5>2
          <5>3. QED BY <2>3, <5>1, <5>2
        <4>2. QED BY <2>6, <3>2, <4>1
      <3>3. QED BY <2>3, <3>1, <3>2
    <2>8. \A c \in Clients : \A i \in DOMAIN inbox[c] : inbox[c][i] <= pressed + 1
      BY <2>1, <2>5
    <2>9. QED BY <1>1, <2>7, <2>8 DEF KeysInv
  <1>6. QED BY <1>2, <1>3, <1>4, <1>5

(* The message of an interrupt is the only one outstanding: an unmasked    *)
(* line says that there was none.                                          *)
LEMMA InterruptKeeps == KeyboardIInv /\ IRQHandlerCallback => KeyboardIInv'
  <1> SUFFICES ASSUME KeyboardIInv, IRQHandlerCallback PROVE KeyboardIInv'
    OBVIOUS
  <1> USE DEF KeyboardIInv, KeyboardTypeOK
  <1>1. /\ UNCHANGED <<pressed, buffer, active, inbox, pc, message, listener>>
        /\ ~masked /\ masked' = TRUE
        /\ port' = IF active THEN Enqueued(port, Kernel) ELSE port
    BY DEF IRQHandlerCallback, server
  <1>2. KeyboardTypeOK' BY <1>1, EnqueuedFacts
  <1>3. RelayInv'
    <2>1. message # Kernel /\ \A i \in DOMAIN port : port[i] # Kernel
      BY <1>1 DEF RelayInv
    <2>2. \A i \in DOMAIN port' : port'[i] = Kernel => i = Len(port) + 1 /\ active
      <3>1. \A i \in DOMAIN Enqueued(port, Kernel) :
               \/ i \in DOMAIN port /\ Enqueued(port, Kernel)[i] = port[i]
               \/ i = Len(port) + 1 /\ Enqueued(port, Kernel)[i] = Kernel
        BY DEF Enqueued
      <3>2. QED BY <1>1, <2>1, <3>1
    <2>3. QED BY <1>1, <2>1, <2>2 DEF RelayInv
  <1>4. KeysInv' BY <1>1 DEF KeysInv
  <1>5. OneListener' BY <1>1 DEF OneListener
  <1>6. QED BY <1>2, <1>3, <1>4, <1>5

LEMMA RequestKeeps == ASSUME NEW c \in Clients, KeyboardIInv, RequestListener(c) PROVE KeyboardIInv'
  <1> USE DEF KeyboardIInv, KeyboardTypeOK
  <1>1. /\ UNCHANGED <<pressed, buffer, masked, active, inbox, pc, message, listener>>
        /\ port' = Enqueued(port, c)
    BY DEF RequestListener, hardware, server
  <1>2. KeyboardTypeOK' BY <1>1, EnqueuedFacts
  <1>3. \A i \in DOMAIN port' : port'[i] = Kernel => i \in DOMAIN port /\ port[i] = Kernel
    <2>1. \A i \in DOMAIN Enqueued(port, c) :
             \/ i \in DOMAIN port /\ Enqueued(port, c)[i] = port[i]
             \/ i = Len(port) + 1 /\ Enqueued(port, c)[i] = c
      BY DEF Enqueued
    <2>2. QED BY <1>1, <2>1, KeyboardAssumption
  <1>4. RelayInv' BY <1>1, <1>3 DEF RelayInv
  <1>5. KeysInv' /\ OneListener' BY <1>1 DEF KeysInv, OneListener
  <1>6. QED BY <1>2, <1>4, <1>5

(* Only the inboxes change, and they hold nothing that they did not. *)
LEMMA ReceiveKeyKeeps == ASSUME NEW c \in Clients, KeyboardIInv, ReceiveKey(c) PROVE KeyboardIInv'
  <1> USE DEF KeyboardIInv, KeyboardTypeOK
  <1>1. /\ UNCHANGED <<pressed, buffer, masked, active, port, pc, message, listener>>
        /\ inbox[c] # << >>
        /\ inbox' = [inbox EXCEPT ![c] = Tail(@)]
    BY DEF ReceiveKey, hardware, server
  <1>2. KeyboardTypeOK' BY <1>1, TailFacts
  <1>3. \A d \in Clients : \A i \in DOMAIN inbox'[d] :
           \E k \in {0, 1} : i \in Nat /\ i + k \in DOMAIN inbox[d] /\ inbox'[d][i] = inbox[d][i + k] /\ (k = 1 <=> d = c)
    BY <1>1, TailFacts, DomainFacts
  <1>4. RelayInv' BY <1>1 DEF RelayInv
  <1>5. KeysInv' BY <1>1, <1>3 DEF KeysInv
  <1>6. OneListener'
    <2> SUFFICES ASSUME NEW d \in Clients
                 PROVE  /\ listener # d => \A i \in DOMAIN inbox'[d] : inbox'[d][i] = NoPayload
                        /\ \A i, j \in DOMAIN inbox'[d] :
                              (i < j /\ {inbox'[d][i], inbox'[d][j]} \subseteq Keys)
                                  => inbox'[d][i] < inbox'[d][j]
      BY <1>1 DEF OneListener
    <2>1. CASE d = c
      <3>1. \A i \in DOMAIN inbox'[d] : i \in Nat /\ i + 1 \in DOMAIN inbox[d] /\ inbox'[d][i] = inbox[d][i + 1]
        BY <1>3, <2>1
      <3>2. listener # d => \A i \in DOMAIN inbox'[d] : inbox'[d][i] = NoPayload
        BY <3>1 DEF OneListener
      <3>3. ASSUME NEW i \in DOMAIN inbox'[d], NEW j \in DOMAIN inbox'[d], i < j,
                   {inbox'[d][i], inbox'[d][j]} \subseteq Keys
            PROVE  inbox'[d][i] < inbox'[d][j]
        <4>1. /\ i + 1 \in DOMAIN inbox[d] /\ j + 1 \in DOMAIN inbox[d] /\ i + 1 < j + 1
              /\ inbox'[d][i] = inbox[d][i + 1] /\ inbox'[d][j] = inbox[d][j + 1]
          BY <3>1, <3>3
        <4>2. inbox[d][i + 1] < inbox[d][j + 1] BY <3>3, <4>1 DEF OneListener
        <4>3. QED BY <4>1, <4>2
      <3>4. QED BY <3>2, <3>3
    <2>2. CASE d # c BY <1>1, <2>2 DEF OneListener
    <2>3. QED BY <2>1, <2>2
  <1>7. QED BY <1>2, <1>4, <1>5, <1>6

(* Before the IRQ is bound no interrupt was relayed, so that the line may  *)
(* be unmasked.                                                            *)
LEMMA BindKeeps == KeyboardIInv /\ BindIRQ => KeyboardIInv'
  <1> SUFFICES ASSUME KeyboardIInv, BindIRQ PROVE KeyboardIInv'
    OBVIOUS
  <1> USE DEF KeyboardIInv, KeyboardTypeOK, Starting, Serving
  <1>1. /\ UNCHANGED <<pressed, buffer, port, inbox, message, listener>>
        /\ pc = "bind" /\ pc' = "receive" /\ active' = TRUE /\ masked' = FALSE
    BY DEF BindIRQ, hardware
  <1>2. message # Kernel /\ \A i \in DOMAIN port : port[i] # Kernel BY <1>1 DEF RelayInv
  <1>3. KeyboardTypeOK' BY <1>1
  <1>4. RelayInv' BY <1>1, <1>2 DEF RelayInv
  <1>5. KeysInv' /\ OneListener' BY <1>1 DEF KeysInv, OneListener
  <1>6. QED BY <1>3, <1>4, <1>5

LEMMA ReceiveKeeps == KeyboardIInv /\ Receive => KeyboardIInv'
  <1> SUFFICES ASSUME KeyboardIInv, Receive PROVE KeyboardIInv'
    OBVIOUS
  <1> USE DEF KeyboardIInv, KeyboardTypeOK, Starting, Serving
  <1>1. /\ UNCHANGED <<pressed, buffer, masked, active, inbox, listener>>
        /\ pc = "receive" /\ pc' = IF Head(port) = Kernel THEN "drain" ELSE "request"
        /\ port # << >> /\ message' = Head(port) /\ port' = Tail(port)
    BY DEF Receive, hardware
  <1>2. /\ Tail(port) \in Seq(Clients \cup {Kernel})
        /\ Head(port) \in Clients \cup {Kernel} /\ 1 \in DOMAIN port /\ Head(port) = port[1]
        /\ \A i \in DOMAIN Tail(port) :
              i \in Nat /\ i >= 1 /\ i + 1 \in DOMAIN port /\ Tail(port)[i] = port[i + 1]
    BY <1>1, TailFacts
  <1>3. KeyboardTypeOK' BY <1>1, <1>2
  <1>4. RelayInv'
    <2>1. message # Kernel BY <1>1 DEF RelayInv
    <2>2. CASE Head(port) = Kernel
      <3>1. masked /\ active /\ \A j \in DOMAIN port : port[j] = Kernel => j = 1
        BY <1>2, <2>2 DEF RelayInv
      <3>2. \A i \in DOMAIN port' : port'[i] # Kernel BY <1>1, <1>2, <3>1
      <3>3. QED BY <1>1, <2>2, <3>1, <3>2 DEF RelayInv
    <2>3. CASE Head(port) # Kernel
      <3>1. message' \in Clients /\ message' # Kernel BY <1>1, <1>2, <2>3
      <3>2. \A i, j \in DOMAIN port' : port'[i] = Kernel /\ port'[j] = Kernel => i = j /\ masked /\ active
        <4>1. \A i, j \in DOMAIN port' : port[i + 1] = Kernel /\ port[j + 1] = Kernel =>
                 i + 1 = j + 1 /\ masked /\ active
          BY <1>1, <1>2 DEF RelayInv
        <4>2. QED BY <1>1, <1>2, <4>1
      <3>3. QED BY <1>1, <2>3, <3>1, <3>2 DEF RelayInv
    <2>4. QED BY <2>2, <2>3
  <1>5. KeysInv' /\ OneListener' BY <1>1 DEF KeysInv, OneListener
  <1>6. QED BY <1>3, <1>4, <1>5

(* The byte read is the oldest key, newer than those the listener holds    *)
(* and older than those that stay in the controller.                       *)
LEMMA DrainKeeps == KeyboardIInv /\ Drain => KeyboardIInv'
  <1> SUFFICES ASSUME KeyboardIInv, Drain PROVE KeyboardIInv'
    OBVIOUS
  <1> USE DEF KeyboardIInv, KeyboardTypeOK, Starting, Serving
  <1>1. /\ UNCHANGED <<pressed, masked, active, port, message, listener>>
        /\ pc = "drain" /\ pc' \in {"drain", "acknowledge"}
    BY DEF Drain, ReadData, hardware
  <1>2. RelayInv' BY <1>1 DEF RelayInv
  <1>3. CASE buffer = << >>
    <2>1. UNCHANGED <<buffer, inbox>> BY <1>3 DEF Drain, hardware
    <2>2. QED BY <1>1, <1>2, <2>1 DEF KeysInv, OneListener
  <1>4. CASE buffer # << >>
    <2>1. /\ buffer' = Tail(buffer)
          /\ \/ inbox' = inbox
             \/ /\ listener \in Clients
                /\ inbox' = [inbox EXCEPT ![listener] = Enqueued(@, Head(buffer))]
      BY <1>4 DEF Drain, ReadData
    <2>2. /\ Tail(buffer) \in Seq(Int)
          /\ Head(buffer) \in Int /\ 1 \in DOMAIN buffer /\ Head(buffer) = buffer[1]
          /\ \A i \in DOMAIN Tail(buffer) :
                i \in Nat /\ i >= 1 /\ i + 1 \in DOMAIN buffer /\ Tail(buffer)[i] = buffer[i + 1]
      BY <1>4, TailFacts
    <2>3. /\ Head(buffer) >= 1 /\ Head(buffer) <= pressed
          /\ \A i \in DOMAIN buffer' : Head(buffer) < buffer'[i]
          /\ \A c \in Clients : \A i \in DOMAIN inbox[c] : inbox[c][i] < Head(buffer)
      <3>1. \A l \in DOMAIN buffer : 1 < l => buffer[1] < buffer[l]
        BY <1>1, <2>2 DEF KeysInv
      <3>2. QED BY <1>1, <2>1, <2>2, <3>1 DEF KeysInv
    <2>4. \A i \in DOMAIN buffer' :
             /\ buffer'[i] \in Int /\ buffer'[i] >= 1 /\ buffer'[i] <= pressed
             /\ \A l \in DOMAIN buffer' : i < l => buffer'[i] < buffer'[l]
      <3>1. \A i, l \in DOMAIN buffer' : i + 1 < l + 1 => buffer[i + 1] < buffer[l + 1]
        BY <1>1, <2>1, <2>2 DEF KeysInv
      <3>2. \A i \in DOMAIN buffer' : buffer[i + 1] \in Int /\ buffer[i + 1] >= 1 /\ buffer[i + 1] <= pressed
        BY <1>1, <2>1, <2>2, DomainFacts DEF KeysInv
      <3>3. QED BY <2>1, <2>2, <3>1, <3>2
    <2>11. ASSUME NEW c \in Clients
           PROVE
             /\ Enqueued(inbox[c], Head(buffer)) \in Seq(Int)
             /\ \A i \in DOMAIN Enqueued(inbox[c], Head(buffer)) :
                   \/ i \in DOMAIN inbox[c] /\ Enqueued(inbox[c], Head(buffer))[i] = inbox[c][i]
                   \/ i = Len(inbox[c]) + 1 /\ Enqueued(inbox[c], Head(buffer))[i] = Head(buffer)
      <3>1. inbox[c] \in Seq(Int) OBVIOUS
      <3> HIDE DEF KeyboardIInv
      <3>2. QED BY <2>2, <3>1, EnqueuedFacts
    <2>5. inbox' \in [Clients -> Seq(Int)] BY <2>1, <2>11
    <2>6. \A c \in Clients : \A i \in DOMAIN inbox'[c] :
             \/ i \in DOMAIN inbox[c] /\ inbox'[c][i] = inbox[c][i]
             \/ i = Len(inbox[c]) + 1 /\ inbox'[c][i] = Head(buffer) /\ c = listener
      BY <2>1, <2>11
    <2>7. \A c \in Clients : /\ Len(inbox[c]) \in Nat
                             /\ \A i \in DOMAIN inbox[c] : i \in Nat /\ i <= Len(inbox[c]) /\ inbox[c][i] \in Int
      BY DomainFacts
    <2>8. KeysInv'
      <3>1. ASSUME NEW c \in Clients, NEW i \in DOMAIN inbox'[c]
            PROVE  inbox'[c][i] \in Int /\ inbox'[c][i] <= Head(buffer)
        <4>1. CASE i \in DOMAIN inbox[c] /\ inbox'[c][i] = inbox[c][i]
          <5>1. inbox[c][i] \in Int /\ inbox[c][i] < Head(buffer) BY <2>3, <2>7, <4>1
          <5>2. QED BY <2>2, <4>1, <5>1
        <4>2. CASE inbox'[c][i] = Head(buffer) BY <2>2, <4>2
        <4>3. QED BY <2>6, <4>1, <4>2
      <3>2. QED BY <1>1, <2>2, <2>3, <2>4, <3>1 DEF KeysInv
    <2>9. OneListener'
      <3>1. ASSUME NEW c \in Clients, NEW i \in DOMAIN inbox'[c], NEW j \in DOMAIN inbox'[c], i < j,
                   inbox'[c][i] \in Keys, inbox'[c][j] \in Keys
            PROVE  inbox'[c][i] < inbox'[c][j]
        <4>1. i \in DOMAIN inbox[c] /\ inbox'[c][i] = inbox[c][i]
          <5>1. j \in DOMAIN inbox[c] \/ j = Len(inbox[c]) + 1 BY <2>6
          <5>2. j \in Nat /\ j <= Len(inbox[c]) + 1 BY <2>7, <5>1
          <5>3. i # Len(inbox[c]) + 1 BY <2>7, <3>1, <5>2
          <5>4. QED BY <2>6, <5>3
        <4>2. CASE j \in DOMAIN inbox[c] /\ inbox'[c][j] = inbox[c][j]
          BY <3>1, <4>1, <4>2 DEF OneListener
        <4>3. CASE inbox'[c][j] = Head(buffer) BY <2>3, <4>1, <4>3
        <4>4. QED BY <2>6, <4>2, <4>3
      <3>2. ASSUME NEW c \in Clients, listener # c, NEW i \in DOMAIN inbox'[c]
            PROVE  inbox'[c][i] = NoPayload
        BY <2>6, <3>2 DEF OneListener
      <3>3. QED BY <1>1, <3>1, <3>2 DEF OneListener
    <2>10. QED BY <1>1, <1>2, <2>1, <2>2, <2>5, <2>8, <2>9
  <1>5. QED BY <1>3, <1>4

LEMMA AcknowledgeKeeps == KeyboardIInv /\ Acknowledge => KeyboardIInv'
  <1> SUFFICES ASSUME KeyboardIInv, Acknowledge PROVE KeyboardIInv'
    OBVIOUS
  <1> USE KeyboardAssumption DEF KeyboardIInv, KeyboardTypeOK, Starting, Serving
  <1>1. /\ UNCHANGED <<pressed, buffer, active, port, inbox, listener>>
        /\ pc = "acknowledge" /\ pc' = "receive" /\ message' = NullPointer /\ masked' = FALSE
    BY DEF Acknowledge, hardware
  <1>2. \A i \in DOMAIN port : port[i] # Kernel BY <1>1 DEF RelayInv
  <1>3. KeyboardTypeOK' BY <1>1
  <1>4. RelayInv' BY <1>1, <1>2 DEF RelayInv
  <1>5. KeysInv' /\ OneListener' BY <1>1 DEF KeysInv, OneListener
  <1>6. QED BY <1>3, <1>4, <1>5

(* An answer is STATUS_OK to the first process that asks, whose inbox      *)
(* holds nothing else, or a message without a payload.                     *)
LEMMA HandleRequestKeeps == KeyboardIInv /\ HandleRequest => KeyboardIInv'
  <1> SUFFICES ASSUME KeyboardIInv, HandleRequest PROVE KeyboardIInv'
    OBVIOUS
  <1> USE KeyboardAssumption DEF KeyboardIInv, KeyboardTypeOK, Starting, Serving
  <1> DEFINE answer == IF listener = NullPointer THEN STATUS_OK ELSE NoPayload
  <1>1. /\ UNCHANGED <<pressed, buffer, masked, active, port>>
        /\ pc = "request" /\ pc' = "receive" /\ message' = NullPointer
        /\ listener' = IF listener = NullPointer THEN message ELSE listener
        /\ inbox' = [inbox EXCEPT ![message] = Enqueued(@, answer)]
    BY DEF HandleRequest, hardware
  <1>2. message \in Clients /\ message # Kernel BY <1>1 DEF RelayInv
  <1>3. /\ answer \in Int /\ answer <= 0 /\ answer \notin Keys
        /\ listener # NullPointer => answer = NoPayload
    BY DEF STATUS_OK, NoPayload, Keys
  <1> HIDE DEF answer
  <1>11. /\ Enqueued(inbox[message], answer) \in Seq(Int)
         /\ \A i \in DOMAIN Enqueued(inbox[message], answer) :
               \/ i \in DOMAIN inbox[message] /\ Enqueued(inbox[message], answer)[i] = inbox[message][i]
               \/ Enqueued(inbox[message], answer)[i] = answer
    BY <1>2, <1>3, EnqueuedFacts
  <1>4. \A c \in Clients : \A i \in DOMAIN inbox'[c] :
           \/ i \in DOMAIN inbox[c] /\ inbox'[c][i] = inbox[c][i]
           \/ inbox'[c][i] = answer /\ c = message
    BY <1>1, <1>2, <1>11
  <1>5. KeyboardTypeOK' BY <1>1, <1>2, <1>11
  <1>6. RelayInv' BY <1>1, <1>2 DEF RelayInv
  <1>7. \A k \in DOMAIN buffer : buffer[k] \in Int BY DomainFacts
  <1>8. KeysInv' BY <1>1, <1>3, <1>4, <1>7 DEF KeysInv
  <1>9. OneListener'
    <2>1. ASSUME NEW c \in Clients, NEW i \in DOMAIN inbox'[c], NEW j \in DOMAIN inbox'[c], i < j,
                 inbox'[c][i] \in Keys, inbox'[c][j] \in Keys
          PROVE  inbox'[c][i] < inbox'[c][j]
      <3>1. i \in DOMAIN inbox[c] /\ inbox'[c][i] = inbox[c][i] BY <1>3, <1>4, <2>1
      <3>2. j \in DOMAIN inbox[c] /\ inbox'[c][j] = inbox[c][j] BY <1>3, <1>4, <2>1
      <3>3. QED BY <2>1, <3>1, <3>2 DEF OneListener
    <2>2. ASSUME NEW c \in Clients, listener' # c, NEW i \in DOMAIN inbox'[c]
          PROVE  inbox'[c][i] = NoPayload
      <3>1. listener # c BY <1>1, <1>2, <2>2
      <3>2. inbox'[c][i] = answer /\ c = message => answer = NoPayload
        BY <1>1, <1>3, <2>2
      <3>3. QED BY <1>4, <3>1, <3>2 DEF OneListener
    <2>3. QED BY <2>1, <2>2 DEF OneListener
  <1>10. QED BY <1>5, <1>6, <1>8, <1>9

LEMMA KeyboardInvariant == Spec => []KeyboardIInv
  <1>1. Init => KeyboardIInv
    <2> SUFFICES ASSUME Init PROVE KeyboardIInv
      OBVIOUS
    <2> USE KeyboardAssumption DEF Init, Starting, Serving
    <2>1. KeyboardTypeOK
      <3>1. port \in Seq(Clients \cup {Kernel}) /\ buffer \in Seq(Int) OBVIOUS
      <3>2. inbox \in [Clients -> Seq(Int)] OBVIOUS
      <3>3. QED BY <3>1, <3>2 DEF KeyboardTypeOK
    <2>2. RelayInv BY DEF RelayInv
    <2>3. KeysInv /\ OneListener BY DEF KeysInv, OneListener
    <2>4. QED BY <2>1, <2>2, <2>3 DEF KeyboardIInv
  <1>2. KeyboardIInv /\ [Next]_vars => KeyboardIInv'
    <2> SUFFICES ASSUME KeyboardIInv, [Next]_vars PROVE KeyboardIInv'
      OBVIOUS
    <2>1. CASE UNCHANGED vars
      BY <2>1 DEF vars, KeyboardIInv, KeyboardTypeOK, RelayInv, KeysInv, OneListener
    <2>2. CASE Server
      BY <2>2, StartKeeps, BindKeeps, ReceiveKeeps, DrainKeeps, AcknowledgeKeeps, HandleRequestKeeps
         DEF Server
    <2>3. QED BY <2>1, <2>2, PressKeyKeeps, InterruptKeeps, RequestKeeps, ReceiveKeyKeeps DEF Next
  <1>3. QED BY <1>1, <1>2, PTL DEF Spec

(* IRQHandlerCallback masks IRQ 1 until ps2kbd acknowledges the message it *)
(* was sent: one message at most is outstanding, however keys, requests    *)
(* and the server interleave.                                              *)
THEOREM KeyboardRelaysOnce == Spec => []RelayedOnce
  <1>1. KeyboardIInv => RelayedOnce
    <2> SUFFICES ASSUME KeyboardIInv PROVE RelayedOnce
      OBVIOUS
    <2>1. \A i \in Outstanding : \/ i \in DOMAIN port /\ port[i] = Kernel
                                 \/ i = Len(port) + 1 /\ message = Kernel
      BY AppendFacts DEF Outstanding, KeyboardIInv, KeyboardTypeOK
    <2>2. QED BY <2>1 DEF RelayedOnce, KeyboardIInv, RelayInv
  <1>2. QED BY <1>1, KeyboardInvariant, PTL

(* ps2kbd tells one process at most that it listens, and sends keys to     *)
(* that process only, in the order they were pressed.                      *)
THEOREM KeyboardHasOneListener == Spec => []OneListener
  <1>1. KeyboardIInv => OneListener BY DEF KeyboardIInv
  <1>2. QED BY <1>1, KeyboardInvariant, PTL

============================================================================
