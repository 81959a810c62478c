------------------------------- MODULE Console -------------------------------
(***************************************************************************)
(* The console protocol: a console server (base/vgacons, base/fbsrv) that  *)
(* owns the port CONSOLE and listens to the keyboard server, and clients   *)
(* such as the shell base/dcp that open the port, claim the console, print *)
(* through libc and receive the keys.                                      *)
(*                                                                         *)
(* Everything is a process of its own and starts at its own time.  The     *)
(* keyboard server is external here (module Keyboard): it comes up, it     *)
(* answers the first listener, and it sends the keys.                      *)
(***************************************************************************)
EXTENDS Integers, Sequences

CONSTANTS
    Clients,
    MAX_MESSAGES_IN_PORT,
    MaxKeys,                \* bound on the keys pressed
    MaxPrints,              \* bound on the strings a client prints
    NullPointer

ASSUME ConsoleAssumption ==
    /\ MAX_MESSAGES_IN_PORT \in Nat \ {0}
    /\ MaxKeys \in Nat /\ MaxPrints \in Nat
    /\ NullPointer \notin Clients

VARIABLES
    keyboard,   \* what the keyboard server has done: "down", "up", "asked", "listened"
    pressed,    \* keys sent so far
    server,     \* where the console server is
    controller, \* console_controller
    port,       \* messages in the port CONSOLE
    screen,     \* what has been drawn
    pc,         \* where each client is
    libc,       \* __dlibc_console_handle is a handle, of each client
    inbox,      \* messages in the reply port of each client
    sent        \* strings each client has printed

vars == <<keyboard, pressed, server, controller, port, screen, pc, libc, inbox, sent>>

keys == <<keyboard, pressed>>
console == <<server, controller, screen>>
clients == <<pc, libc, inbox, sent>>

STATUS_OK == 0

Message(type, from, n) == [type |-> type, from |-> from, n |-> n]
Reply == Message("VGACONS_CLAIM_CONSOLE", NullPointer, STATUS_OK)
Claim(c) == Message("VGACONS_CLAIM_CONSOLE", c, 0)
Draw(c, n) == Message("VGACONS_REQUEST_STRING_DRAW", c, n)
Key(k) == Message("KBD_PROTOCOL_V0", NullPointer, k)

Full(q) == Len(q) = MAX_MESSAGES_IN_PORT
Enqueued(q, m) == IF Full(q) THEN q ELSE Append(q, m)

(* The port CONSOLE has been created. *)
Online == server \in {"claim", "serve"}

Init ==
    /\ keyboard = "down" /\ pressed = 0
    /\ server = "open" /\ controller = NullPointer
    /\ port = << >> /\ screen = << >>
    /\ pc = [c \in Clients |-> "init"]
    /\ libc = [c \in Clients |-> FALSE]
    /\ inbox = [c \in Clients |-> << >>]
    /\ sent = [c \in Clients |-> 0]

-----------------------------------------------------------------------------
(* The keyboard server *)
KeyboardStarts ==
    /\ keyboard = "down"
    /\ keyboard' = "up"
    /\ UNCHANGED <<pressed, port>> /\ UNCHANGED console /\ UNCHANGED clients

(* Its answer to KBD_LISTENER_REQUEST is a message of KBD_PROTOCOL_V0. *)
KeyboardAnswers ==
    /\ keyboard = "asked"
    /\ keyboard' = "listened"
    /\ port' = Enqueued(port, Key(STATUS_OK))
    /\ UNCHANGED pressed /\ UNCHANGED console /\ UNCHANGED clients

KeyboardSends ==
    /\ keyboard = "listened" /\ pressed < MaxKeys
    /\ pressed' = pressed + 1
    /\ port' = Enqueued(port, Key(pressed + 1))
    /\ UNCHANGED keyboard /\ UNCHANGED console /\ UNCHANGED clients

-----------------------------------------------------------------------------
(* The console server.  It gives up when KEYBOARD cannot be opened, or its *)
(* device cannot be claimed.                                               *)
ServerOpens ==
    /\ server = "open"
    /\ server' \in IF keyboard = "down" THEN {"exited"} ELSE {"ack", "exited"}
    /\ UNCHANGED <<controller, port, screen>> /\ UNCHANGED keys /\ UNCHANGED clients

(* kbdreply has no port behind it: ReceiveMessage returns at once without  *)
(* a message, and what is then tested is the uninitialised kbdack.         *)
ServerTestsAck ==
    /\ server = "ack"
    /\ server' \in {"create", "exited"}
    /\ UNCHANGED <<controller, port, screen>> /\ UNCHANGED keys /\ UNCHANGED clients

(* VGAClearAllText, and PORT_CREATE of the port CONSOLE *)
ServerCreates ==
    /\ server = "create"
    /\ server' = "claim"
    /\ screen' = << >>
    /\ UNCHANGED <<controller, port>> /\ UNCHANGED keys /\ UNCHANGED clients

ServerClaims ==
    /\ server = "claim"
    /\ server' = "serve"
    /\ keyboard' = "asked"
    /\ UNCHANGED <<controller, port, screen, pressed>> /\ UNCHANGED clients

(* NAME_Fault, here and below, is NAME with a slip that the properties at  *)
(* the end must notice.                                                    *)
HandleKey_Broadcast(m) ==
    /\ screen' = Append(screen, m)
    /\ inbox' = [c \in Clients |-> Enqueued(inbox[c], m)]
    /\ UNCHANGED controller

(* A key is echoed, and passed on to the client that claimed the console.  *)
HandleKey(m) ==
    /\ screen' = Append(screen, m)
    /\ inbox' = IF controller = NullPointer THEN inbox
                ELSE [inbox EXCEPT ![controller] = Enqueued(@, m)]
    /\ UNCHANGED controller

HandleClaim(m) ==
    /\ IF controller # NullPointer THEN UNCHANGED <<controller, inbox>>
       ELSE /\ controller' = m.from
            /\ inbox' = [inbox EXCEPT ![m.from] = Enqueued(@, Reply)]
    /\ UNCHANGED screen

HandleDraw(m) ==
    /\ screen' = Append(screen, m)
    /\ UNCHANGED <<controller, inbox>>

Serve ==
    /\ server = "serve" /\ port # << >>
    /\ port' = Tail(port)
    /\ LET m == Head(port)
       IN  CASE m.type = "KBD_PROTOCOL_V0" -> HandleKey(m)
             [] m.type = "VGACONS_CLAIM_CONSOLE" -> HandleClaim(m)
             [] m.type = "VGACONS_REQUEST_STRING_DRAW" -> HandleDraw(m)
    /\ UNCHANGED <<server, pc, libc, sent>> /\ UNCHANGED keys

Server == ServerOpens \/ ServerTestsAck \/ ServerCreates \/ ServerClaims \/ Serve

-----------------------------------------------------------------------------
(* A client.  libc tries to open the console once, before main. *)
LibcInit(c) ==
    /\ pc[c] = "init"
    /\ pc' = [pc EXCEPT ![c] = "open"]
    /\ libc' = [libc EXCEPT ![c] = Online]
    /\ UNCHANGED <<port, inbox, sent>> /\ UNCHANGED keys /\ UNCHANGED console

(* The first OpenPort of main, and the ones that follow when it fails: the *)
(* latter also give the handle to libc.                                    *)
OpenPort(c) ==
    /\ pc[c] = "open"
    /\ pc' = [pc EXCEPT ![c] = IF Online THEN "claim" ELSE "spin"]
    /\ UNCHANGED <<port, libc, inbox, sent>> /\ UNCHANGED keys /\ UNCHANGED console

OpenPortAgain(c) ==
    /\ pc[c] = "spin" /\ Online
    /\ pc' = [pc EXCEPT ![c] = "claim"]
    /\ libc' = [libc EXCEPT ![c] = TRUE]
    /\ UNCHANGED <<port, inbox, sent>> /\ UNCHANGED keys /\ UNCHANGED console

(* The shell leaves when its claim cannot be sent. *)
SendClaim(c) ==
    /\ pc[c] = "claim"
    /\ pc' = [pc EXCEPT ![c] = IF Full(port) THEN "exited" ELSE "wait"]
    /\ port' = Enqueued(port, Claim(c))
    /\ UNCHANGED <<libc, inbox, sent>> /\ UNCHANGED keys /\ UNCHANGED console

(* The first byte of whatever arrives is taken as the status. *)
ReceiveReply(c) ==
    /\ pc[c] = "wait" /\ inbox[c] # << >>
    /\ inbox' = [inbox EXCEPT ![c] = Tail(@)]
    /\ pc' = [pc EXCEPT ![c] = IF Head(inbox[c]).n = STATUS_OK THEN "print" ELSE "claim"]
    /\ UNCHANGED <<port, libc, sent>> /\ UNCHANGED keys /\ UNCHANGED console

Printf_GivesUp(c) ==
    /\ pc[c] = "print"
    /\ pc' = [pc EXCEPT ![c] = "loop"]
    /\ port' = IF libc[c] THEN Enqueued(port, Draw(c, sent[c] + 1)) ELSE port
    /\ sent' = [sent EXCEPT ![c] = IF libc[c] THEN @ + 1 ELSE @]
    /\ UNCHANGED <<libc, inbox>> /\ UNCHANGED keys /\ UNCHANGED console

Printf_Waits(c) ==
    /\ pc[c] = "print" /\ inbox[c] # << >>
    /\ IF libc[c]
       THEN /\ ~Full(port)
            /\ port' = Append(port, Draw(c, sent[c] + 1))
            /\ sent' = [sent EXCEPT ![c] = @ + 1]
       ELSE UNCHANGED <<port, sent>>
    /\ pc' = [pc EXCEPT ![c] = "loop"]
    /\ UNCHANGED <<libc, inbox>> /\ UNCHANGED keys /\ UNCHANGED console

(* printf does nothing without a handle, and tries until the port has room *)
(* when it has one.                                                        *)
Printf(c) ==
    /\ pc[c] = "print"
    /\ IF libc[c]
       THEN /\ ~Full(port)
            /\ port' = Append(port, Draw(c, sent[c] + 1))
            /\ sent' = [sent EXCEPT ![c] = @ + 1]
       ELSE UNCHANGED <<port, sent>>
    /\ pc' = [pc EXCEPT ![c] = "loop"]
    /\ UNCHANGED <<libc, inbox>> /\ UNCHANGED keys /\ UNCHANGED console

(* Some keys make the shell print. *)
ReceiveKey(c) ==
    /\ pc[c] = "loop" /\ inbox[c] # << >>
    /\ inbox' = [inbox EXCEPT ![c] = Tail(@)]
    /\ \/ UNCHANGED pc
       \/ sent[c] < MaxPrints /\ pc' = [pc EXCEPT ![c] = "print"]
    /\ UNCHANGED <<port, libc, sent>> /\ UNCHANGED keys /\ UNCHANGED console

Client(c) ==
    \/ LibcInit(c)
    \/ OpenPort(c)
    \/ OpenPortAgain(c)
    \/ SendClaim(c)
    \/ ReceiveReply(c)
    \/ Printf(c)
    \/ ReceiveKey(c)

Next ==
    \/ KeyboardStarts
    \/ KeyboardAnswers
    \/ KeyboardSends
    \/ Server
    \/ \E c \in Clients : Client(c)

(* The scheduler runs every process. *)
Fairness ==
    /\ WF_vars(KeyboardStarts) /\ WF_vars(KeyboardAnswers)
    /\ WF_vars(Server)
    /\ \A c \in Clients : WF_vars(Client(c))

Spec == Init /\ [][Next]_vars /\ Fairness

-----------------------------------------------------------------------------
IsKey(m) == m.type = "KBD_PROTOCOL_V0"
IsDraw(m) == m.type = "VGACONS_REQUEST_STRING_DRAW"

(* "STATUS_OK if the process now receives all the console events"          *)
(* (protocol of vgacons): a client whose claim was accepted is the         *)
(* controller, it alone gets keys, and gets them in order.  The first      *)
(* message, whose first byte the shell takes for the status of its claim,  *)
(* is the reply and never a key.                                           *)
OneController ==
    \A c \in Clients :
        /\ pc[c] \in {"print", "loop"} \/ inbox[c] # << >> => controller = c
        /\ \A i, j \in DOMAIN inbox[c] :
              (i < j /\ IsKey(inbox[c][i]) /\ IsKey(inbox[c][j])) => inbox[c][i].n < inbox[c][j].n
        /\ pc[c] = "wait" /\ inbox[c] # << >> => Head(inbox[c]) = Reply

(* The strings of c among messages s are the first n, each once, in order. *)
AllInOrder(s, c, n) ==
    LET mine == {i \in DOMAIN s : IsDraw(s[i]) /\ s[i].from = c}
    IN  /\ {s[i].n : i \in mine} = 1 .. n
        /\ \A i, j \in mine : i < j => s[i].n < s[j].n

(* printf returns once its string is in the port (libc): no string is lost *)
(* or overtaken on the way to the screen, however full the port is.        *)
PrintedInOrder == \A c \in Clients : AllInOrder(screen \o port, c, sent[c])

(* printf retries while the port is full (libc): the server keeps emptying *)
(* the port without waiting for any client, so printf returns.             *)
PrintfReturns == \A c \in Clients : pc[c] = "print" ~> pc[c] = "loop"
==============================================================================
