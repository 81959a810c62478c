------------------------------ MODULE Keyboard ------------------------------
(***************************************************************************)
(* A key press on its way to a process: the keyboard controller, the       *)
(* interrupt controller, the kernel's relay of IRQ 1 to the port KEYBOARD  *)
(* (sys/ddk/ia32/irq.c, pic.c), and the server ps2kbd that drains the      *)
(* controller and hands the keys to its listener.                          *)
(*                                                                         *)
(* The two controllers are external.  The output buffer drives an edge     *)
(* triggered line; when the buffer is read, what the interrupt controller  *)
(* had latched may or may not be dropped, and a byte that moves up into    *)
(* the buffer may or may not count as a new edge.  The keyboard answers a  *)
(* command at once; broken hardware does not pass its test.                *)
(***************************************************************************)
EXTENDS Integers, Sequences

CONSTANTS
    Clients,                \* processes that ask to be the listener
    MAX_MESSAGES_IN_PORT,
    MaxKeys,                \* bound on the keys pressed
    MaxRequests,            \* bound on the requests made
    NullPointer

Kernel == "KERNEL_SENDER"

ASSUME KeyboardAssumption ==
    /\ MAX_MESSAGES_IN_PORT \in Nat \ {0}
    /\ MaxKeys \in Nat /\ MaxRequests \in Nat
    /\ NullPointer \notin Clients \cup {Kernel}
    /\ Kernel \notin Clients

VARIABLES
    pressed,    \* keys pressed so far: key k is the k-th
    buffer,     \* bytes in the keyboard and its controller, oldest first
    irr,        \* IRQ 1 is latched in the interrupt controller
    masked,     \* IRQ 1 is masked
    active,     \* IRQRelayCallback[1].is_active
    port,       \* messages in the port KEYBOARD
    pc,         \* where ps2kbd is
    message,    \* the message it handles
    listener,
    inbox,      \* messages in the reply port of each client
    requests    \* requests made so far

vars == <<pressed, buffer, irr, masked, active, port, pc, message, listener, inbox, requests>>

hardware == <<pressed, buffer, irr>>
server == <<pc, message, listener>>

Keys == 1 .. MaxKeys
STATUS_OK == 0
NoPayload == -1
Ack == -2       \* what a keyboard answers to a command
Passed == -3    \* ... and sends when it has reset itself

Init ==
    /\ pressed = 0 /\ buffer = << >> /\ irr = FALSE
    /\ masked = TRUE /\ active = FALSE
    /\ port = << >>
    /\ pc = "probe" /\ message = NullPointer /\ listener = NullPointer
    /\ inbox = [c \in Clients |-> << >>]
    /\ requests = 0

-----------------------------------------------------------------------------
(* A key is pressed; some keys stand for no character. *)
PressKey ==
    /\ pressed < MaxKeys
    /\ pressed' = pressed + 1
    /\ buffer' = Append(buffer, pressed + 1)
    /\ irr' = (irr \/ buffer = << >>)
    /\ UNCHANGED <<masked, active, port, inbox, requests>> /\ UNCHANGED server

(* The data port is read. *)
ReadData ==
    /\ buffer' = Tail(buffer)
    /\ irr' \in IF Len(buffer) > 1 THEN {irr, TRUE} ELSE {irr, FALSE}
    /\ UNCHANGED pressed

(* A message to a port: lost when the port is full. *)
Enqueued(q, m) == IF Len(q) < MAX_MESSAGES_IN_PORT THEN Append(q, m) ELSE q

(* NAME_Fault, here and below, is NAME with a slip that the properties at  *)
(* the end must notice.                                                    *)
IRQHandlerCallback_Unmasked ==
    /\ irr /\ ~masked
    /\ irr' = FALSE
    /\ port' = IF active THEN Enqueued(port, Kernel) ELSE port
    /\ UNCHANGED <<masked, pressed, buffer, active, inbox, requests>> /\ UNCHANGED server

(* IRQHandlerCallback masks the line; only an acknowledgement of the       *)
(* message unmasks it, and there is no message when the port is full.      *)
IRQHandlerCallback ==
    /\ irr /\ ~masked
    /\ irr' = FALSE
    /\ masked' = TRUE
    /\ port' = IF active THEN Enqueued(port, Kernel) ELSE port
    /\ UNCHANGED <<pressed, buffer, active, inbox, requests>> /\ UNCHANGED server

(* A client sends KBD_LISTENER_REQUEST with a reply port. *)
RequestListener(c) ==
    /\ pc \in {"bind", "receive", "drain", "acknowledge", "request"}
    /\ requests < MaxRequests
    /\ requests' = requests + 1
    /\ port' = Enqueued(port, c)
    /\ UNCHANGED <<masked, active, inbox>> /\ UNCHANGED hardware /\ UNCHANGED server

ReceiveKey(c) ==
    /\ inbox[c] # << >>
    /\ inbox' = [inbox EXCEPT ![c] = Tail(@)]
    /\ UNCHANGED <<masked, active, port, requests>> /\ UNCHANGED hardware /\ UNCHANGED server

-----------------------------------------------------------------------------
(* ps2kbd.  Probe8042Controller: with the devices disabled the controller  *)
(* is flushed and tested, and ps2kbd exits if it fails.  The bytes that it *)
(* reads from the controller may have raised the interrupt.                *)
Probe8042Controller ==
    /\ pc = "probe"
    /\ pc' \in {"reset", "gone"}
    /\ buffer' = << >> /\ irr' \in BOOLEAN
    /\ UNCHANGED <<pressed, masked, active, port, message, listener, inbox, requests>>

(* With the devices enabled the keyboard is reset: of the keys pressed     *)
(* before, the one that the controller holds remains.                      *)
ResetKeyboard ==
    /\ pc = "reset"
    /\ pc' = "response"
    /\ \E answer \in {<<Ack, Passed>>, << >>} :
          buffer' = (IF buffer = << >> THEN << >> ELSE <<Head(buffer)>>) \o answer
    /\ irr' = (irr \/ (buffer = << >> /\ buffer' # << >>))
    /\ UNCHANGED <<pressed, masked, active, port, message, listener, inbox, requests>>

(* The next byte must be the one expected: a key is taken for an answer.   *)
Expect(at, byte, then) ==
    /\ pc = at
    /\ pc' = IF buffer # << >> /\ Head(buffer) = byte THEN then ELSE "gone"
    /\ IF buffer = << >> THEN UNCHANGED hardware ELSE ReadData
    /\ UNCHANGED <<masked, active, port, message, listener, inbox, requests>>

(* main goes on to enable scanning, which the keyboard acknowledges. *)
EnableScanning ==
    /\ pc = "scan"
    /\ pc' = "flush"
    /\ buffer' = Append(buffer, Ack)
    /\ irr' = (irr \/ buffer = << >>)
    /\ UNCHANGED <<pressed, masked, active, port, message, listener, inbox, requests>>

(* FlushControllerData, until the status says empty. *)
Flush ==
    /\ pc = "flush"
    /\ IF buffer = << >>
       THEN pc' = "create" /\ UNCHANGED hardware
       ELSE ReadData /\ UNCHANGED pc
    /\ UNCHANGED <<masked, active, port, message, listener, inbox, requests>>

CreatePort ==
    /\ pc = "create"
    /\ pc' = "bind"
    /\ UNCHANGED <<masked, active, port, message, listener, inbox, requests>> /\ UNCHANGED hardware

(* RegisterIRQSubscriber enables the line. *)
BindIRQ ==
    /\ pc = "bind"
    /\ active' = TRUE /\ masked' = FALSE
    /\ pc' = "receive"
    /\ UNCHANGED <<port, message, listener, inbox, requests>> /\ UNCHANGED hardware

Receive ==
    /\ pc = "receive" /\ port # << >>
    /\ message' = Head(port) /\ port' = Tail(port)
    /\ pc' = IF Head(port) = Kernel THEN "drain" ELSE "request"
    /\ UNCHANGED <<masked, active, listener, inbox, requests>> /\ UNCHANGED hardware

Drain_OneKey ==
    /\ pc = "drain"
    /\ pc' = "acknowledge"
    /\ IF buffer = << >>
       THEN UNCHANGED <<inbox, hardware>>
       ELSE /\ ReadData
            /\ inbox' = IF listener = NullPointer THEN inbox
                        ELSE [inbox EXCEPT ![listener] = Enqueued(@, Head(buffer))]
    /\ UNCHANGED <<masked, active, port, message, listener, requests>>

(* One turn of the loop that empties the controller: a key without a       *)
(* character, and any key while there is no listener, goes nowhere; so     *)
(* does one for which the listener's port has no room.                     *)
Drain ==
    /\ pc = "drain"
    /\ IF buffer = << >>
       THEN pc' = "acknowledge" /\ UNCHANGED <<inbox, hardware>>
       ELSE /\ ReadData
            /\ UNCHANGED pc
            /\ \/ UNCHANGED inbox
               \/ /\ listener # NullPointer
                  /\ inbox' = [inbox EXCEPT ![listener] = Enqueued(@, Head(buffer))]
    /\ UNCHANGED <<masked, active, port, message, listener, requests>>

(* AcknowledgeIRQ *)
Acknowledge ==
    /\ pc = "acknowledge"
    /\ masked' = FALSE
    /\ pc' = "receive" /\ message' = NullPointer
    /\ UNCHANGED <<active, port, listener, inbox, requests>> /\ UNCHANGED hardware

HandleRequest_Replaces ==
    /\ pc = "request"
    /\ listener' = message
    /\ inbox' = [inbox EXCEPT ![message] = Enqueued(@, STATUS_OK)]
    /\ pc' = "receive" /\ message' = NullPointer
    /\ UNCHANGED <<masked, active, port, requests>> /\ UNCHANGED hardware

(* The first to ask becomes the listener.  The others are sent a message   *)
(* whose payload_length is zero.                                           *)
HandleRequest ==
    /\ pc = "request"
    /\ listener' = IF listener = NullPointer THEN message ELSE listener
    /\ inbox' = [inbox EXCEPT ![message] =
                   Enqueued(@, IF listener = NullPointer THEN STATUS_OK ELSE NoPayload)]
    /\ pc' = "receive" /\ message' = NullPointer
    /\ UNCHANGED <<masked, active, port, requests>> /\ UNCHANGED hardware

Server ==
    \/ Probe8042Controller
    \/ ResetKeyboard
    \/ Expect("response", Ack, "pass")
    \/ Expect("pass", Passed, "scan")
    \/ EnableScanning
    \/ Flush
    \/ CreatePort
    \/ BindIRQ
    \/ Receive
    \/ Drain
    \/ Acknowledge
    \/ HandleRequest

Next ==
    \/ PressKey
    \/ IRQHandlerCallback
    \/ Server
    \/ \E c \in Clients : RequestListener(c)
    \/ \E c \in Clients : ReceiveKey(c)

(* Interrupts are taken, and the scheduler runs the server. *)
Fairness == WF_vars(IRQHandlerCallback) /\ WF_vars(Server)

Spec == Init /\ [][Next]_vars /\ Fairness

-----------------------------------------------------------------------------
(* The places of interrupts relayed to the port and not yet acknowledged:  *)
(* in the port, or in the hands of ps2kbd.                                 *)
Outstanding == {i \in 1 .. Len(port) + 1 : Append(port, message)[i] = Kernel}

(* "Reenabling the IRQ is handled by the IRQ port when an PORT_ACK_IRQ     *)
(* message is sent" (IRQHandlerCallback): from the relay of an interrupt   *)
(* to its acknowledgement the line is masked, so that one message at most  *)
(* is outstanding.                                                         *)
RelayedOnce ==
    /\ \A i, j \in Outstanding : i = j
    /\ Outstanding # {} => masked

(* "STATUS_OK if the calling process is selected by the server" (protocol  *)
(* of ps2kbd): one process is told so at most, and only that process gets  *)
(* keys, in the order they were pressed.                                   *)
OneListener ==
    \A c \in Clients :
        /\ listener # c => \A i \in DOMAIN inbox[c] : inbox[c][i] = NoPayload
        /\ \A i, j \in DOMAIN inbox[c] :
              (i < j /\ {inbox[c][i], inbox[c][j]} \subseteq Keys) => inbox[c][i] < inbox[c][j]

(* The message of an interrupt found the port full: nobody will ever       *)
(* unmask the line.                                                        *)
Deaf == active /\ masked /\ Outstanding = {}

(* "Drain ALL scancodes from the port before acknowledging the IRQ"        *)
(* (ps2kbd): no key is left in the controller for good, whenever it comes, *)
(* unless the port KEYBOARD was full when its interrupt was relayed, or    *)
(* ps2kbd found no keyboard and is gone.                                   *)
KeysAreRead == buffer # << >> ~> (buffer = << >> \/ Deaf \/ pc = "gone")
=============================================================================
