---------------------------- MODULE MessageFifo ----------------------------
(***************************************************************************)
(* What an IPC port promises to the processes on its two sides: a bounded  *)
(* first-in first-out queue of payloads.  A payload is a sequence of       *)
(* bytes; what is delivered is byte for byte what was sent, in order, and  *)
(* never more than Capacity payloads wait at once.                         *)
(***************************************************************************)
EXTENDS Naturals, Sequences

CONSTANTS
    Capacity,   \* how many payloads may wait (MAX_MESSAGES_IN_PORT)
    Payload     \* the payloads processes exchange

VARIABLES
    queue,      \* the payloads sent and not yet taken, oldest first
    passed      \* the payload a process handed over or was handed last

fifoVars == <<queue, passed>>

FifoInit ==
    /\ queue = << >>
    /\ passed = << >>

(* A payload is accepted only while there is room for it. *)
Accept(p) ==
    /\ Len(queue) < Capacity
    /\ queue' = Append(queue, p)
    /\ passed' = p

(* The oldest payload is handed over. *)
Deliver ==
    /\ queue # << >>
    /\ passed' = Head(queue)
    /\ queue' = Tail(queue)

(* The receiver gave a buffer that cannot be written: the payload is lost. *)
Lose ==
    /\ queue # << >>
    /\ queue' = Tail(queue)
    /\ UNCHANGED passed

FifoNext ==
    \/ \E p \in Payload : Accept(p)
    \/ Deliver
    \/ Lose

FifoSpec == FifoInit /\ [][FifoNext]_fifoVars
=============================================================================
