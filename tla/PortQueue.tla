----------------------------- MODULE PortQueue -----------------------------
(***************************************************************************)
(* One IPC port (struct Port, sys/iomgr/port.h): a ring of message slots   *)
(* with head, tail and count.  A slot keeps the bytes of the message that  *)
(* used it before, a message overwrites only as many of them as it         *)
(* carries, and a rejected message leaves its bytes in the free slot.      *)
(***************************************************************************)
EXTENDS Naturals, Sequences

CONSTANTS
    MAX_MESSAGES_IN_PORT,   \* slots of the ring
    MESSAGE_BUFFER_SIZE,    \* payload bytes of a slot
    Byte,                   \* values of a byte
    Zero                    \* the byte ZeroMemory() writes

ASSUME PortAssumption ==
    /\ MAX_MESSAGES_IN_PORT \in Nat \ {0}
    /\ MESSAGE_BUFFER_SIZE \in Nat
    /\ Zero \in Byte

VARIABLES
    msgbuf, head, tail, count,
    passed      \* the payload a process handed over or was handed last

vars == <<msgbuf, head, tail, count, passed>>

Index == 0 .. MAX_MESSAGES_IN_PORT - 1

Raw == [1 .. MESSAGE_BUFFER_SIZE -> Byte]

(* A message as a process lays it out.  Its payload_length is whatever the *)
(* process wrote there, also a length the buffer cannot hold.              *)
Message == [payload_length : 0 .. MESSAGE_BUFFER_SIZE + 1, raw : Raw]

(* The payload a receiver may read: "More bytes may not be read". *)
PayloadOf(m) == [i \in 1 .. m.payload_length |-> m.raw[i]]

(* The payloads a message of this port can carry. *)
Payload == {PayloadOf(m) : m \in {w \in Message : w.payload_length <= MESSAGE_BUFFER_SIZE}}

Init ==
    /\ msgbuf = [i \in Index |-> [payload_length |-> 0,
                                  raw |-> [j \in 1 .. MESSAGE_BUFFER_SIZE |-> Zero]]]
    /\ head = 0 /\ tail = 0 /\ count = 0
    /\ passed = << >>

(* Here and below: NAME_Fault is NAME with a slip that the properties at   *)
(* the end must notice.                                                    *)
CopyOver_OffByOne(slot, m, n) ==
    [payload_length |-> m.payload_length,
     raw |-> [i \in 1 .. MESSAGE_BUFFER_SIZE |-> IF i < n THEN m.raw[i] ELSE slot.raw[i]]]

(* The header and the first n payload bytes of m, copied over a slot. *)
CopyOver(slot, m, n) ==
    [payload_length |-> m.payload_length,
     raw |-> [i \in 1 .. MESSAGE_BUFFER_SIZE |-> IF i <= n THEN m.raw[i] ELSE slot.raw[i]]]

Advance(i) == (i + 1) % MAX_MESSAGES_IN_PORT

Send_NoLengthCheck(m, n) ==
    /\ count < MAX_MESSAGES_IN_PORT
    /\ msgbuf' = [msgbuf EXCEPT ![tail] = CopyOver(msgbuf[tail], m, n)]
    /\ tail' = Advance(tail)
    /\ count' = count + 1
    /\ UNCHANGED <<head, passed>>

(* _DWIPCSend: the message lands in the slot at tail before it is checked; *)
(* n is message_size without the header.                                   *)
Send(m, n) ==
    /\ count < MAX_MESSAGES_IN_PORT
    /\ msgbuf' = [msgbuf EXCEPT ![tail] = CopyOver(msgbuf[tail], m, n)]
    /\ IF m.payload_length > n
       THEN UNCHANGED <<tail, count, passed>>
       ELSE /\ tail' = Advance(tail)
            /\ count' = count + 1
            /\ passed' = PayloadOf(m)
    /\ UNCHANGED head

(* EnqueueMessage, through which the kernel sends: exactly payload_length  *)
(* bytes are copied.                                                       *)
EnqueueMessage(m) ==
    /\ m.payload_length <= MESSAGE_BUFFER_SIZE
    /\ count < MAX_MESSAGES_IN_PORT
    /\ msgbuf' = [msgbuf EXCEPT ![tail] = CopyOver(msgbuf[tail], m, m.payload_length)]
    /\ tail' = Advance(tail)
    /\ count' = count + 1
    /\ passed' = PayloadOf(m)
    /\ UNCHANGED head

(* _DWIPCReceive once a message is there; ok is whether CopyToUser succeeds. *)
Receive(ok) ==
    /\ count > 0
    /\ head' = Advance(head)
    /\ passed' = IF ok THEN PayloadOf(msgbuf[head]) ELSE passed
    /\ count' = count - 1
    /\ UNCHANGED <<msgbuf, tail>>

Next ==
    \/ \E m \in Message, n \in 0 .. MESSAGE_BUFFER_SIZE : Send(m, n)
    \/ \E m \in Message : EnqueueMessage(m)
    \/ \E ok \in BOOLEAN : Receive(ok)

Spec == Init /\ [][Next]_vars

-----------------------------------------------------------------------------
(* The types of the port's fields: every index within the ring, no more    *)
(* messages counted than there are slots.                                  *)
TypeOK ==
    /\ msgbuf \in [Index -> Message]
    /\ head \in Index
    /\ tail \in Index
    /\ count \in 0 .. MAX_MESSAGES_IN_PORT

(* The slot k places after the head. *)
SlotAt(k) == IF head + k < MAX_MESSAGES_IN_PORT
             THEN head + k
             ELSE head + k - MAX_MESSAGES_IN_PORT

(* head, tail and count agree, and no counted slot holds a message whose   *)
(* payload_length exceeds its buffer: the copy that _DWIPCReceive sizes by *)
(* the stored payload_length stays inside the slot, although _DWIPCSend    *)
(* writes unchecked lengths into the ring.                                 *)
RingSound ==
    /\ tail = IF count = MAX_MESSAGES_IN_PORT THEN head ELSE SlotAt(count)
    /\ \A k \in 0 .. MAX_MESSAGES_IN_PORT - 1 :
          k < count => msgbuf[SlotAt(k)].payload_length <= MESSAGE_BUFFER_SIZE

(* The queue a port stands for. *)
Waiting == [k \in 1 .. count |-> PayloadOf(msgbuf[SlotAt(k - 1)])]

Fifo == INSTANCE MessageFifo WITH
            Capacity <- MAX_MESSAGES_IN_PORT, queue <- Waiting

(* A port is a bounded FIFO: every payload is delivered once, in order,    *)
(* without bytes of the slot's earlier message, and a rejected send        *)
(* disturbs none that waits.                                               *)
FifoSpec == Fifo!FifoSpec
=============================================================================
