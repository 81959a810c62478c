-------------------------- MODULE PortQueueProofs --------------------------
(***************************************************************************)
(* For every ring size, buffer size and set of bytes: the port's indices   *)
(* stay sound and the port implements a bounded FIFO.                      *)
(***************************************************************************)
EXTENDS PortQueue, SequenceTheorems, TLAPS

N == MAX_MESSAGES_IN_PORT

(* Advance wraps at the end of the ring and nowhere else. *)
LEMMA AdvanceWraps ==
    ASSUME NEW i \in Index
    PROVE  Advance(i) = IF i + 1 = N THEN 0 ELSE i + 1
  BY PortAssumption, SMTT(30) DEF Advance, Index, N

(* Copying a message over a slot gives a message whose first n bytes are   *)
(* those of the message sent.                                              *)
LEMMA CopyOverMessage ==
    ASSUME NEW slot \in Message, NEW m \in Message,
           NEW n \in 0 .. MESSAGE_BUFFER_SIZE
    PROVE  /\ CopyOver(slot, m, n) \in Message
           /\ CopyOver(slot, m, n).payload_length = m.payload_length
           /\ m.payload_length <= n => PayloadOf(CopyOver(slot, m, n)) = PayloadOf(m)
  BY PortAssumption DEF CopyOver, Message, Raw, PayloadOf

(* The port's fields and the inductive invariant. *)
IInv == TypeOK /\ RingSound

LEMMA InitIInv == Init => IInv
  BY PortAssumption DEF Init, IInv, TypeOK, RingSound, Index, Message, Raw, SlotAt

(* What every accepted message does to the ring. *)
Put(m, n) ==
    /\ count < N
    /\ m \in Message
    /\ n \in 0 .. MESSAGE_BUFFER_SIZE
    /\ m.payload_length <= n
    /\ msgbuf' = [msgbuf EXCEPT ![tail] = CopyOver(msgbuf[tail], m, n)]
    /\ tail' = Advance(tail)
    /\ count' = count + 1
    /\ passed' = PayloadOf(m)
    /\ UNCHANGED head

(* What a rejected message does to it. *)
Scribble(m, n) ==
    /\ count < N
    /\ m \in Message
    /\ n \in 0 .. MESSAGE_BUFFER_SIZE
    /\ msgbuf' = [msgbuf EXCEPT ![tail] = CopyOver(msgbuf[tail], m, n)]
    /\ UNCHANGED <<head, tail, count, passed>>

(* Every step puts, scribbles, takes or does nothing. *)
LEMMA StepCases ==
    ASSUME [Next]_vars
    PROVE  \/ \E m \in Message, n \in 0 .. MESSAGE_BUFFER_SIZE : Put(m, n)
           \/ \E m \in Message, n \in 0 .. MESSAGE_BUFFER_SIZE : Scribble(m, n)
           \/ \E ok \in BOOLEAN : Receive(ok)
           \/ UNCHANGED vars
  <1>1. CASE \E m \in Message, n \in 0 .. MESSAGE_BUFFER_SIZE : Send(m, n)
    <2>1. PICK m \in Message, n \in 0 .. MESSAGE_BUFFER_SIZE : Send(m, n)
      BY <1>1
    <2>2. CASE m.payload_length > n
      <3>1. Scribble(m, n) BY <2>1, <2>2 DEF Send, Scribble, N
      <3>2. QED BY <3>1
    <2>3. CASE ~(m.payload_length > n)
      <3>1. m.payload_length <= n BY <2>3, PortAssumption DEF Message
      <3>2. Put(m, n) BY <2>1, <2>3, <3>1 DEF Send, Put, N
      <3>3. QED BY <3>2
    <2>4. QED BY <2>2, <2>3
  <1>2. CASE \E m \in Message : EnqueueMessage(m)
    <2>1. PICK m \in Message : EnqueueMessage(m)
      BY <1>2
    <2>2. m.payload_length \in 0 .. MESSAGE_BUFFER_SIZE
      BY <2>1, PortAssumption DEF EnqueueMessage, Message
    <2>3. Put(m, m.payload_length)
      BY <2>1, <2>2, PortAssumption DEF EnqueueMessage, Put, N
    <2>4. QED BY <2>2, <2>3
  <1>3. QED BY <1>1, <1>2 DEF Next

(* The slot at tail is outside the counted slots while there is room. *)
LEMMA TailIsFree ==
    ASSUME IInv, count < N
    PROVE  /\ tail = SlotAt(count)
           /\ \A k \in 0 .. N - 1 : k < count => SlotAt(k) # tail
           /\ \A k \in 0 .. N - 1 : SlotAt(k) \in Index
  BY PortAssumption DEF IInv, TypeOK, RingSound, SlotAt, Index, N

LEMMA NextIInv == IInv /\ [Next]_vars => IInv'
  <1> SUFFICES ASSUME IInv, [Next]_vars PROVE IInv' OBVIOUS
  <1> USE PortAssumption
  <1>1. ASSUME NEW m \in Message, NEW n \in 0 .. MESSAGE_BUFFER_SIZE, Put(m, n)
        PROVE  IInv'
    <2>1. msgbuf[tail] \in Message BY DEF IInv, TypeOK
    <2> DEFINE c == CopyOver(msgbuf[tail], m, n)
    <2>c. c \in Message /\ c.payload_length = m.payload_length
      BY <2>1, CopyOverMessage
    <2>2. TypeOK'
      <3> HIDE DEF c
      <3>1. msgbuf' = [msgbuf EXCEPT ![tail] = c] BY <1>1 DEF Put, c
      <3>2. msgbuf' \in [Index -> Message] BY <2>c, <3>1 DEF IInv, TypeOK
      <3>3. QED
        BY <1>1, <3>2, AdvanceWraps DEF Put, IInv, TypeOK, Index, N
    <2>3. tail' = IF count' = N THEN head' ELSE SlotAt(count)'
      BY <1>1, TailIsFree, AdvanceWraps DEF Put, IInv, TypeOK, SlotAt, Index, N
    <2>4. ASSUME NEW k \in 0 .. N - 1, k < count'
          PROVE  msgbuf'[SlotAt(k)'].payload_length <= MESSAGE_BUFFER_SIZE
      <3>1. SlotAt(k)' = SlotAt(k) BY <1>1 DEF Put, SlotAt
      <3>2. CASE k = count
        <4>1. SlotAt(k) = tail BY <1>1, <3>2, TailIsFree DEF Put
        <4>2. msgbuf'[tail] = c BY <1>1 DEF Put, IInv, TypeOK
        <4>3. QED
          BY <1>1, <2>c, <3>1, <4>1, <4>2 DEF Put, Message
      <3>3. CASE k < count
        BY <1>1, <3>1, <3>3, TailIsFree DEF Put, IInv, TypeOK, RingSound, N
      <3>4. QED BY <1>1, <2>4, <3>2, <3>3 DEF Put, IInv, TypeOK, N
    <2>5. QED BY <2>2, <2>3, <2>4 DEF IInv, RingSound, N
  <1>2. ASSUME NEW m \in Message, NEW n \in 0 .. MESSAGE_BUFFER_SIZE, Scribble(m, n)
        PROVE  IInv'
    <2>1. msgbuf[tail] \in Message BY DEF IInv, TypeOK
    <2>2. TypeOK'
      BY <1>2, <2>1, CopyOverMessage DEF Scribble, IInv, TypeOK
    <2>3. RingSound'
      BY <1>2, TailIsFree DEF Scribble, IInv, TypeOK, RingSound, SlotAt, N
    <2>4. QED BY <2>2, <2>3 DEF IInv
  <1>3. ASSUME NEW ok \in BOOLEAN, Receive(ok) PROVE IInv'
    <2>1. TypeOK'
      BY <1>3, AdvanceWraps DEF Receive, IInv, TypeOK, Index, N
    <2>2. RingSound'
      <3>1. \A k \in 0 .. N - 1 : k < count' => SlotAt(k)' = SlotAt(k + 1)
        BY <1>3, AdvanceWraps DEF Receive, IInv, TypeOK, SlotAt, Index, N
      <3>2. tail' = IF count' = N THEN head' ELSE SlotAt(count)'
        BY <1>3, AdvanceWraps DEF Receive, IInv, TypeOK, RingSound, SlotAt, Index, N
      <3>3. QED
        BY <1>3, <3>1, <3>2 DEF Receive, IInv, TypeOK, RingSound, N
    <2>3. QED BY <2>1, <2>2 DEF IInv
  <1>4. CASE UNCHANGED vars
    BY <1>4 DEF vars, IInv, TypeOK, RingSound, SlotAt
  <1>5. QED BY <1>1, <1>2, <1>3, <1>4, StepCases

(* Every port state reached has fields of their types (sys/iomgr/port.h):  *)
(* the indices stay within the ring and count within its size.             *)
THEOREM PortTypeCorrect == Spec => []TypeOK
  <1>1. IInv => TypeOK BY DEF IInv
  <1>2. QED BY InitIInv, NextIInv, <1>1, PTL DEF Spec

(* head, tail and count agree in every reached state, and no message that  *)
(* _DWIPCReceive can take carries a length its slot cannot hold.           *)
THEOREM PortRingSound == Spec => []RingSound
  <1>1. IInv => RingSound BY DEF IInv
  <1>2. QED BY InitIInv, NextIInv, <1>1, PTL DEF Spec

-----------------------------------------------------------------------------
(* What the mapping yields is a sequence of payloads. *)
LEMMA WaitingIsSeq ==
    ASSUME IInv
    PROVE  /\ Waiting \in Seq(Payload)
           /\ Len(Waiting) = count
           /\ \A k \in 1 .. count : Waiting[k] = PayloadOf(msgbuf[SlotAt(k - 1)])
  <1> USE PortAssumption
  <1>1. ASSUME NEW k \in 1 .. count
        PROVE  PayloadOf(msgbuf[SlotAt(k - 1)]) \in Payload
    <2>1. /\ k - 1 \in 0 .. N - 1
          /\ k - 1 < count
          /\ SlotAt(k - 1) \in Index
      BY DEF IInv, TypeOK, SlotAt, Index, N
    <2>2. msgbuf[SlotAt(k - 1)] \in Message BY <2>1 DEF IInv, TypeOK
    <2>3. msgbuf[SlotAt(k - 1)].payload_length <= MESSAGE_BUFFER_SIZE
      BY <2>1 DEF IInv, RingSound, N
    <2>4. QED BY <2>2, <2>3 DEF Payload
  <1>2. count \in Nat BY DEF IInv, TypeOK
  <1>3. Waiting \in [1 .. count -> Payload] BY <1>1 DEF Waiting
  <1>4. Waiting \in Seq(Payload) BY <1>2, <1>3
  <1>5. Len(Waiting) = count BY <1>2, <1>3, <1>4
  <1>6. QED BY <1>4, <1>5 DEF Waiting

(* Dropping the first of the waiting payloads is moving the head. *)
LEMMA ReceiveTakesHead ==
    ASSUME IInv, IInv', NEW ok \in BOOLEAN, Receive(ok)
    PROVE  /\ Waiting # << >>
           /\ Head(Waiting) = PayloadOf(msgbuf[head])
           /\ Waiting' = Tail(Waiting)
  <1> USE PortAssumption
  <1>1. count \in Nat /\ count > 0 /\ count' = count - 1 /\ msgbuf' = msgbuf
    BY DEF Receive, IInv, TypeOK
  <1>2. SlotAt(0) = head BY DEF IInv, TypeOK, SlotAt, Index
  <1>3. Waiting[1] = PayloadOf(msgbuf[head])
    BY <1>1, <1>2, WaitingIsSeq
  <1>4. Waiting # << >> /\ Head(Waiting) = PayloadOf(msgbuf[head])
    BY <1>1, <1>3, WaitingIsSeq
  <1>5. \A k \in 1 .. count' : SlotAt(k - 1)' = SlotAt(k)
    BY <1>1, AdvanceWraps, SMTT(40) DEF Receive, IInv, TypeOK, SlotAt, Index, N
  <1>6. Waiting' = [k \in 1 .. count - 1 |-> PayloadOf(msgbuf[SlotAt(k)])]
    BY <1>1, <1>5 DEF Waiting, PayloadOf
  <1>7. Tail(Waiting) = [k \in 1 .. count - 1 |-> Waiting[k + 1]]
    <2>1. /\ Tail(Waiting) \in Seq(Payload)
          /\ Len(Tail(Waiting)) = count - 1
          /\ \A k \in 1 .. count - 1 : Tail(Waiting)[k] = Waiting[k + 1]
      BY <1>1, <1>4, WaitingIsSeq, HeadTailProperties
    <2>2. Tail(Waiting) \in [1 .. count - 1 -> Payload]
      BY <2>1, LenProperties
    <2>3. QED BY <2>1, <2>2
  <1>8. \A k \in 1 .. count - 1 : Waiting[k + 1] = PayloadOf(msgbuf[SlotAt(k)])
    BY <1>1 DEF Waiting
  <1>9. QED BY <1>4, <1>6, <1>7, <1>8

(* Accepting a message appends its payload. *)
LEMMA PutAppends ==
    ASSUME IInv, IInv', NEW m \in Message, NEW n \in 0 .. MESSAGE_BUFFER_SIZE, Put(m, n)
    PROVE  Waiting' = Append(Waiting, PayloadOf(m))
  <1> USE PortAssumption
  <1> DEFINE c == CopyOver(msgbuf[tail], m, n)
  <1>1. count \in Nat /\ count < N /\ count' = count + 1 BY DEF Put, IInv, TypeOK
  <1>2. msgbuf[tail] \in Message BY DEF IInv, TypeOK
  <1>3. PayloadOf(c) = PayloadOf(m) BY <1>2, CopyOverMessage DEF Put
  <1>4. msgbuf' = [msgbuf EXCEPT ![tail] = c] BY DEF Put
  <1> HIDE DEF c
  <1>5. \A k \in 0 .. N - 1 : SlotAt(k)' = SlotAt(k) BY DEF Put, SlotAt
  <1>6. ASSUME NEW k \in 1 .. count
        PROVE  PayloadOf(msgbuf'[SlotAt(k - 1)]) = PayloadOf(msgbuf[SlotAt(k - 1)])
    <2>1. SlotAt(k - 1) # tail /\ SlotAt(k - 1) \in Index
      BY <1>1, TailIsFree DEF IInv, TypeOK, N
    <2>2. msgbuf'[SlotAt(k - 1)] = msgbuf[SlotAt(k - 1)]
      BY <1>4, <2>1 DEF IInv, TypeOK
    <2>3. QED BY <2>2
  <1>7. PayloadOf(msgbuf'[SlotAt(count)]) = PayloadOf(m)
    <2>1. SlotAt(count) = tail BY <1>1, TailIsFree
    <2>2. msgbuf'[tail] = c BY <1>4 DEF IInv, TypeOK
    <2>3. QED BY <1>3, <2>1, <2>2
  <1>8. Waiting' = [k \in 1 .. count + 1 |-> PayloadOf(msgbuf'[SlotAt(k - 1)])]
    <2>1. \A k \in 1 .. count + 1 : SlotAt(k - 1)' = SlotAt(k - 1) BY <1>1, <1>5 DEF N
    <2>2. Waiting' = [k \in 1 .. count' |-> PayloadOf(msgbuf[SlotAt(k - 1)])']
      BY DEF Waiting
    <2>3. \A k \in 1 .. count' :
             PayloadOf(msgbuf[SlotAt(k - 1)])' = PayloadOf(msgbuf'[SlotAt(k - 1)])
      BY <1>1, <2>1 DEF PayloadOf
    <2>4. QED BY <1>1, <2>2, <2>3
  <1>9. Append(Waiting, PayloadOf(m)) =
          [k \in 1 .. count + 1 |-> IF k = count + 1 THEN PayloadOf(m) ELSE Waiting[k]]
    <2> DEFINE a == Append(Waiting, PayloadOf(m))
    <2>1. PayloadOf(m) \in Payload BY DEF Put, Message, Payload
    <2>2. /\ a \in Seq(Payload)
          /\ Len(a) = count + 1
          /\ a[count + 1] = PayloadOf(m)
          /\ \A k \in 1 .. count : a[k] = Waiting[k]
      BY <2>1, WaitingIsSeq, AppendProperties
    <2>3. a \in [1 .. count + 1 -> Payload] BY <2>2, LenProperties
    <2> HIDE DEF a
    <2>4. \A k \in 1 .. count + 1 :
             a[k] = IF k = count + 1 THEN PayloadOf(m) ELSE Waiting[k]
      BY <1>1, <2>2
    <2>5. a = [k \in 1 .. count + 1 |-> IF k = count + 1 THEN PayloadOf(m) ELSE Waiting[k]]
      BY <2>3, <2>4
    <2>6. QED BY <2>5 DEF a
  <1>10. \A k \in 1 .. count + 1 :
           PayloadOf(msgbuf'[SlotAt(k - 1)]) = IF k = count + 1 THEN PayloadOf(m) ELSE Waiting[k]
    BY <1>1, <1>6, <1>7, WaitingIsSeq
  <1>11. QED BY <1>8, <1>9, <1>10

(* Every step of the ring is a step of the FIFO or leaves it alone. *)
LEMMA StepRefines ==
    ASSUME IInv, IInv', [Next]_vars
    PROVE  [Fifo!FifoNext]_(Fifo!fifoVars)
  <1> USE PortAssumption
  <1>1. ASSUME NEW m \in Message, NEW n \in 0 .. MESSAGE_BUFFER_SIZE, Put(m, n)
        PROVE  Fifo!FifoNext
    <2>1. Waiting' = Append(Waiting, PayloadOf(m)) BY <1>1, PutAppends
    <2>2. PayloadOf(m) \in Payload BY <1>1 DEF Put, Message, Payload
    <2>3. Len(Waiting) < MAX_MESSAGES_IN_PORT BY <1>1, WaitingIsSeq DEF Put, N
    <2>4. Fifo!Accept(PayloadOf(m)) BY <1>1, <2>1, <2>3 DEF Put, Fifo!Accept
    <2>5. QED BY <2>2, <2>4 DEF Fifo!FifoNext
  <1>2. ASSUME NEW m \in Message, NEW n \in 0 .. MESSAGE_BUFFER_SIZE, Scribble(m, n)
        PROVE  UNCHANGED Fifo!fifoVars
    <2>1. \A k \in 1 .. count :
             /\ SlotAt(k - 1)' = SlotAt(k - 1)
             /\ msgbuf'[SlotAt(k - 1)] = msgbuf[SlotAt(k - 1)]
      BY <1>2, TailIsFree DEF Scribble, IInv, TypeOK, SlotAt, N
    <2>2. \A k \in 1 .. count :
             PayloadOf(msgbuf[SlotAt(k - 1)])' = PayloadOf(msgbuf[SlotAt(k - 1)])
      BY <2>1 DEF PayloadOf
    <2>3. Waiting' = Waiting BY <1>2, <2>2 DEF Waiting, Scribble
    <2>4. QED BY <1>2, <2>3 DEF Scribble, Fifo!fifoVars
  <1>3. ASSUME NEW ok \in BOOLEAN, Receive(ok) PROVE Fifo!FifoNext
    <2>1. CASE ok
      <3>1. passed' = Head(Waiting) BY <1>3, <2>1, ReceiveTakesHead DEF Receive
      <3>2. Fifo!Deliver BY <1>3, <3>1, ReceiveTakesHead DEF Fifo!Deliver
      <3>3. QED BY <3>2 DEF Fifo!FifoNext
    <2>2. CASE ~ok
      <3>1. passed' = passed BY <1>3, <2>2 DEF Receive
      <3>2. Fifo!Lose BY <1>3, <3>1, ReceiveTakesHead DEF Fifo!Lose
      <3>3. QED BY <3>2 DEF Fifo!FifoNext
    <2>3. QED BY <2>1, <2>2
  <1>4. CASE UNCHANGED vars
    BY <1>4 DEF vars, Fifo!fifoVars, Waiting, SlotAt, PayloadOf
  <1>5. QED BY <1>1, <1>2, <1>3, <1>4, StepCases

(* A port implements the bounded FIFO its two sides rely on, whatever the  *)
(* ring size: _DWIPCSend and EnqueueMessage append, _DWIPCReceive takes    *)
(* the oldest, and a rejected send is invisible.                           *)
THEOREM PortImplementsFifo == Spec => FifoSpec
  <1>1. Init => Fifo!FifoInit
    <2>1. SUFFICES ASSUME Init PROVE Fifo!FifoInit OBVIOUS
    <2>2. Waiting = << >> BY <2>1 DEF Init, Waiting
    <2>3. QED BY <2>1, <2>2 DEF Init, Fifo!FifoInit
  <1>2. IInv /\ IInv' /\ [Next]_vars => [Fifo!FifoNext]_(Fifo!fifoVars)
    BY StepRefines
  <1>3. QED
    BY InitIInv, NextIInv, <1>1, <1>2, PTL DEF Spec, FifoSpec, Fifo!FifoSpec
=============================================================================
