--------------------------- MODULE ConsoleProofs ---------------------------
(***************************************************************************)
(* For any number of clients, keys, strings and any size of port: one      *)
(* client controls the console and gets the keys in order, and no printed  *)
(* string is lost or overtaken.                                            *)
(***************************************************************************)
EXTENDS Console, TLAPS

Messages ==
    [type : {"VGACONS_CLAIM_CONSOLE", "VGACONS_REQUEST_STRING_DRAW", "KBD_PROTOCOL_V0"},
     from : Clients \cup {NullPointer},
     n : Nat]

IsClaim(m) == m.type = "VGACONS_CLAIM_CONSOLE"

ConsoleTypeOK ==
    /\ keyboard \in {"down", "up", "asked", "listened"}
    /\ pressed \in Nat
    /\ server \in {"open", "ack", "create", "claim", "serve", "exited"}
    /\ controller \in Clients \cup {NullPointer}
    /\ port \in Seq(Messages) /\ screen \in Seq(Messages)
    /\ pc \in [Clients -> {"init", "open", "spin", "claim", "wait", "print", "loop", "exited"}]
    /\ libc \in [Clients -> BOOLEAN]
    /\ inbox \in [Clients -> Seq(Messages)]
    /\ sent \in [Clients -> Nat]

(* Before the port CONSOLE exists nothing was sent to it or drawn, and no  *)
(* key is sent before the server has asked for the keys.                   *)
StartInv ==
    /\ ~Online => /\ port = << >> /\ screen = << >>
                  /\ \A c \in Clients : pc[c] \in {"init", "open", "spin"}
    /\ server = "serve" <=> keyboard \in {"asked", "listened"}
    /\ keyboard # "listened" =>
          /\ \A i \in DOMAIN port : ~IsKey(port[i])
          /\ \A c \in Clients : \A i \in DOMAIN inbox[c] : ~IsKey(inbox[c][i])
          /\ pressed = 0

(* A claim on its way is the only one of a client that waits; only the     *)
(* controller is sent anything, the reply first.                           *)
ClaimInv ==
    /\ \A i \in DOMAIN port : IsClaim(port[i]) =>
          /\ port[i].from \in Clients
          /\ pc[port[i].from] = "wait" /\ controller # port[i].from
          /\ \A j \in DOMAIN port : IsClaim(port[j]) /\ port[j].from = port[i].from => i = j
    /\ \A c \in Clients :
          /\ pc[c] \in {"print", "loop"} \/ inbox[c] # << >> => controller = c
          /\ controller = c => pc[c] \in {"wait", "print", "loop"}
          /\ controller = c /\ pc[c] = "wait" => inbox[c] # << >> /\ inbox[c][1] = Reply

(* The keys in the port are in order, and newer than any in an inbox. *)
KeysInv ==
    /\ \A i \in DOMAIN port : IsKey(port[i]) =>
          /\ port[i].n <= pressed
          /\ \A j \in DOMAIN port : i < j /\ IsKey(port[j]) => port[i].n < port[j].n
          /\ \A c \in Clients : \A j \in DOMAIN inbox[c] :
                IsKey(inbox[c][j]) => inbox[c][j].n < port[i].n
    /\ \A c \in Clients : \A i \in DOMAIN inbox[c] : IsKey(inbox[c][i]) =>
          /\ inbox[c][i].n <= pressed
          /\ \A j \in DOMAIN inbox[c] :
                i < j /\ IsKey(inbox[c][j]) => inbox[c][i].n < inbox[c][j].n

ConsoleIInv == ConsoleTypeOK /\ StartInv /\ ClaimInv /\ KeysInv /\ PrintedInOrder

-----------------------------------------------------------------------------
(* What a message adds to a queue, and what taking one leaves. *)
LEMMA DomainFacts ==
    ASSUME NEW S, NEW q \in Seq(S)
    PROVE  Len(q) \in Nat /\ \A i \in DOMAIN q : i \in Nat /\ i >= 1 /\ i <= Len(q) /\ q[i] \in S
  OBVIOUS

LEMMA AppendFacts ==
    ASSUME NEW S, NEW q \in Seq(S), NEW m \in S
    PROVE  /\ Append(q, m) \in Seq(S) /\ Append(q, m) # << >>
           /\ \A i \in DOMAIN Append(q, m) :
                 \/ i \in DOMAIN q /\ Append(q, m)[i] = q[i]
                 \/ i = Len(q) + 1 /\ Append(q, m)[i] = m
           /\ \A i \in DOMAIN q : i \in DOMAIN Append(q, m) /\ Append(q, m)[i] = q[i]
           /\ Len(q) + 1 \in DOMAIN Append(q, m) /\ Append(q, m)[Len(q) + 1] = m
  OBVIOUS

LEMMA TailFacts ==
    ASSUME NEW S, NEW q \in Seq(S), q # << >>
    PROVE  /\ Tail(q) \in Seq(S)
           /\ Head(q) \in S /\ 1 \in DOMAIN q /\ Head(q) = q[1]
           /\ \A i \in DOMAIN Tail(q) : i \in Nat /\ i >= 1 /\ i + 1 \in DOMAIN q /\ Tail(q)[i] = q[i + 1]
  OBVIOUS

LEMMA ConcatAppend ==
    ASSUME NEW S, NEW s \in Seq(S), NEW q \in Seq(S), NEW m \in S
    PROVE  s \o Append(q, m) = Append(s \o q, m)
  OBVIOUS

(* A message that moves from the port to the screen. *)
LEMMA ConcatMove ==
    ASSUME NEW S, NEW s \in Seq(S), NEW q \in Seq(S), q # << >>
    PROVE  Append(s, Head(q)) \o Tail(q) = s \o q
  OBVIOUS

LEMMA ConcatFacts ==
    ASSUME NEW S, NEW s \in Seq(S), NEW q \in Seq(S), NEW u, u = s \o q
    PROVE  /\ u \in Seq(S) /\ Len(u) = Len(s) + Len(q) /\ DOMAIN u = 1 .. Len(u)
           /\ \A i \in 1 .. Len(u) : u[i] = IF i <= Len(s) THEN s[i] ELSE q[i - Len(s)]
  OBVIOUS

(* t is u without its message number k + 1. *)
Drops(u, t, k) ==
    /\ \A i \in DOMAIN t :
          /\ i <= k => i \in DOMAIN u /\ t[i] = u[i]
          /\ i > k => i + 1 \in DOMAIN u /\ t[i] = u[i + 1]
    /\ \A i \in DOMAIN u :
          /\ i <= k => i \in DOMAIN t /\ t[i] = u[i]
          /\ i > k + 1 => i - 1 \in DOMAIN t /\ t[i - 1] = u[i]

(* A message that leaves the port without a trace. *)
LEMMA ConcatDrop ==
    ASSUME NEW s \in Seq(Messages), NEW q \in Seq(Messages), NEW r \in Seq(Messages), q # << >>, r = Tail(q),
           NEW u, u = s \o q, NEW t, t = s \o r
    PROVE  /\ t \in Seq(Messages) /\ u \in Seq(Messages)
           /\ Drops(u, t, Len(s)) /\ u[Len(s) + 1] = Head(q)
  <1>1. /\ r \in Seq(Messages) /\ Len(r) = Len(q) - 1 /\ Len(q) \in Nat /\ Len(q) >= 1
        /\ \A i \in 1 .. Len(r) : r[i] = q[i + 1]
        /\ Head(q) = q[1] /\ Len(s) \in Nat
    OBVIOUS
  <1>2. /\ u \in Seq(Messages) /\ Len(u) = Len(s) + Len(q) /\ DOMAIN u = 1 .. Len(u)
        /\ \A i \in 1 .. Len(u) : u[i] = IF i <= Len(s) THEN s[i] ELSE q[i - Len(s)]
    BY ConcatFacts
  <1>4. /\ t \in Seq(Messages) /\ Len(t) = Len(s) + Len(r) /\ DOMAIN t = 1 .. Len(t)
        /\ \A i \in 1 .. Len(t) : t[i] = IF i <= Len(s) THEN s[i] ELSE r[i - Len(s)]
    BY ConcatFacts
  <1>5. ASSUME NEW i \in DOMAIN t
        PROVE  /\ i <= Len(s) => i \in DOMAIN u /\ t[i] = u[i]
               /\ i > Len(s) => i + 1 \in DOMAIN u /\ t[i] = u[i + 1]
    <2>1. CASE i <= Len(s) BY <1>1, <1>2, <1>4, <2>1
    <2>2. CASE i > Len(s)
      <3>5. i - Len(s) \in 1 .. Len(r) BY <1>1, <1>4, <2>2
      <3>1. t[i] = r[i - Len(s)] /\ r[i - Len(s)] = q[i - Len(s) + 1] BY <1>1, <1>4, <2>2, <3>5
      <3>2. i + 1 \in DOMAIN u /\ u[i + 1] = q[i + 1 - Len(s)] BY <1>1, <1>2, <1>4, <2>2
      <3>3. i + 1 - Len(s) = i - Len(s) + 1 BY <1>1, <1>4
      <3>4. t[i] = u[i + 1] BY <3>1, <3>2, <3>3
      <3>6. ~(i <= Len(s)) BY <1>1, <1>4, <2>2
      <3>7. QED BY <3>2, <3>4, <3>6
    <2>3. QED BY <1>1, <1>4, <2>1, <2>2
  <1>6. ASSUME NEW i \in DOMAIN u
        PROVE  /\ i <= Len(s) => i \in DOMAIN t /\ t[i] = u[i]
               /\ i > Len(s) + 1 => i - 1 \in DOMAIN t /\ t[i - 1] = u[i]
    <2>1. CASE i <= Len(s) BY <1>1, <1>2, <1>4, <2>1
    <2>2. CASE i = Len(s) + 1 BY <1>1, <2>2
    <2>3. CASE i > Len(s) + 1
      <3>1. i - 1 \in DOMAIN t /\ i - 1 > Len(s) BY <1>1, <1>2, <1>4, <2>3
      <3>2. i - 1 + 1 = i BY <1>1, <1>2
      <3>3. t[i - 1] = u[i] BY <1>5, <3>1, <3>2
      <3>4. QED BY <1>1, <1>2, <2>3, <3>1, <3>3
    <2>4. QED BY <1>1, <1>2, <2>1, <2>2, <2>3
  <1>3. u[Len(s) + 1] = Head(q)
    <2>1. Len(s) + 1 \in 1 .. Len(u) /\ ~(Len(s) + 1 <= Len(s)) /\ Len(s) + 1 - Len(s) = 1
      BY <1>1, <1>2
    <2>2. QED BY <1>1, <1>2, <2>1
  <1>7. QED BY <1>2, <1>3, <1>4, <1>5, <1>6 DEF Drops

-----------------------------------------------------------------------------
(* AllInOrder, message by message. *)
IsMine(m, c) == IsDraw(m) /\ m.from = c

LEMMA OrderMeaning ==
    ASSUME NEW s, NEW c, NEW n \in Nat
    PROVE  AllInOrder(s, c, n) <=>
              /\ \A i \in DOMAIN s : IsMine(s[i], c) => s[i].n \in 1 .. n
              /\ \A k \in 1 .. n : \E i \in DOMAIN s : IsMine(s[i], c) /\ s[i].n = k
              /\ \A i, j \in DOMAIN s : (IsMine(s[i], c) /\ IsMine(s[j], c) /\ i < j) => s[i].n < s[j].n
  <1> DEFINE mine == {i \in DOMAIN s : IsMine(s[i], c)}
  <1>1. AllInOrder(s, c, n) <=> /\ {s[i].n : i \in mine} = 1 .. n
                                /\ \A i, j \in mine : i < j => s[i].n < s[j].n
    BY DEF AllInOrder, IsMine
  <1>2. {s[i].n : i \in mine} = 1 .. n <=>
           /\ \A i \in DOMAIN s : IsMine(s[i], c) => s[i].n \in 1 .. n
           /\ \A k \in 1 .. n : \E i \in DOMAIN s : IsMine(s[i], c) /\ s[i].n = k
    OBVIOUS
  <1>3. QED BY <1>1, <1>2

(* Another message at the end, and the next string at the end. *)
LEMMA OrderAppend ==
    ASSUME NEW s \in Seq(Messages), NEW c, NEW n \in Nat, AllInOrder(s, c, n),
           NEW m \in Messages, ~IsMine(m, c)
    PROVE  AllInOrder(Append(s, m), c, n)
  <1> DEFINE t == Append(s, m)
  <1>1. /\ \A i \in DOMAIN t : \/ i \in DOMAIN s /\ t[i] = s[i]
                               \/ i = Len(s) + 1 /\ t[i] = m
        /\ \A i \in DOMAIN s : i \in DOMAIN t /\ t[i] = s[i]
    BY AppendFacts
  <1> HIDE DEF t
  <1>2. \A i \in DOMAIN t : IsMine(t[i], c) => i \in DOMAIN s /\ t[i] = s[i] BY <1>1
  <1>3. /\ \A i \in DOMAIN s : IsMine(s[i], c) => s[i].n \in 1 .. n
        /\ \A k \in 1 .. n : \E i \in DOMAIN s : IsMine(s[i], c) /\ s[i].n = k
        /\ \A i, j \in DOMAIN s : (IsMine(s[i], c) /\ IsMine(s[j], c) /\ i < j) => s[i].n < s[j].n
    BY OrderMeaning
  <1>4. /\ \A i \in DOMAIN t : IsMine(t[i], c) => t[i].n \in 1 .. n
        /\ \A k \in 1 .. n : \E i \in DOMAIN t : IsMine(t[i], c) /\ t[i].n = k
        /\ \A i, j \in DOMAIN t : (IsMine(t[i], c) /\ IsMine(t[j], c) /\ i < j) => t[i].n < t[j].n
    BY <1>1, <1>2, <1>3
  <1>5. AllInOrder(t, c, n) BY <1>4, OrderMeaning
  <1>6. QED BY <1>5 DEF t

LEMMA OrderPrint ==
    ASSUME NEW s \in Seq(Messages), NEW c, NEW n \in Nat, AllInOrder(s, c, n),
           Draw(c, n + 1) \in Messages
    PROVE  AllInOrder(Append(s, Draw(c, n + 1)), c, n + 1)
  <1> DEFINE m == Draw(c, n + 1)
             t == Append(s, m)
  <1>1. /\ \A i \in DOMAIN t : \/ i \in DOMAIN s /\ t[i] = s[i]
                               \/ i = Len(s) + 1 /\ t[i] = m
        /\ \A i \in DOMAIN s : i \in DOMAIN t /\ t[i] = s[i]
        /\ Len(s) + 1 \in DOMAIN t /\ t[Len(s) + 1] = m
    BY AppendFacts
  <1>2. IsMine(m, c) /\ m.n = n + 1 BY DEF IsMine, IsDraw, Draw, Message
  <1>3. Len(s) \in Nat /\ \A i \in DOMAIN s : i \in Nat /\ i <= Len(s) OBVIOUS
  <1> HIDE DEF t, m
  <1>4. /\ \A i \in DOMAIN s : IsMine(s[i], c) => s[i].n \in 1 .. n
        /\ \A k \in 1 .. n : \E i \in DOMAIN s : IsMine(s[i], c) /\ s[i].n = k
        /\ \A i, j \in DOMAIN s : (IsMine(s[i], c) /\ IsMine(s[j], c) /\ i < j) => s[i].n < s[j].n
    BY OrderMeaning
  <1>5. \A i \in DOMAIN t : IsMine(t[i], c) => t[i].n \in 1 .. (n + 1)
    BY <1>1, <1>2, <1>4
  <1>6. \A k \in 1 .. (n + 1) : \E i \in DOMAIN t : IsMine(t[i], c) /\ t[i].n = k
    <2> SUFFICES ASSUME NEW k \in 1 .. (n + 1) PROVE \E i \in DOMAIN t : IsMine(t[i], c) /\ t[i].n = k
      OBVIOUS
    <2>1. CASE k = n + 1 BY <1>1, <1>2, <2>1
    <2>2. CASE k \in 1 .. n BY <1>1, <1>4, <2>2
    <2>3. QED BY <2>1, <2>2
  <1>7. \A i, j \in DOMAIN t : (IsMine(t[i], c) /\ IsMine(t[j], c) /\ i < j) => t[i].n < t[j].n
    <2> SUFFICES ASSUME NEW i \in DOMAIN t, NEW j \in DOMAIN t, IsMine(t[i], c), IsMine(t[j], c), i < j
                 PROVE  t[i].n < t[j].n
      OBVIOUS
    <2>1. i \in DOMAIN s /\ t[i] = s[i] BY <1>1, <1>3
    <2>2. s[i].n \in 1 .. n BY <1>4, <2>1
    <2>3. CASE j \in DOMAIN s /\ t[j] = s[j] BY <1>4, <2>1, <2>3
    <2>4. CASE t[j] = m BY <1>2, <2>1, <2>2, <2>4
    <2>5. QED BY <1>1, <2>3, <2>4
  <1>8. AllInOrder(t, c, n + 1) BY <1>5, <1>6, <1>7, OrderMeaning
  <1>9. QED BY <1>8 DEF t, m

LEMMA OrderDrop ==
    ASSUME NEW u \in Seq(Messages), NEW t \in Seq(Messages), NEW k0 \in Nat, Drops(u, t, k0),
           NEW c, NEW n \in Nat, AllInOrder(u, c, n), ~IsMine(u[k0 + 1], c)
    PROVE  AllInOrder(t, c, n)
  <1>1. Drops(u, t, k0) OBVIOUS
  <1> USE DEF Drops
  <1>4. \A i \in DOMAIN t : i \in Nat OBVIOUS
  <1>5. \A i \in DOMAIN u : i \in Nat OBVIOUS
  <1>6. /\ \A i \in DOMAIN u : IsMine(u[i], c) => u[i].n \in 1 .. n
        /\ \A k \in 1 .. n : \E i \in DOMAIN u : IsMine(u[i], c) /\ u[i].n = k
        /\ \A i, j \in DOMAIN u : (IsMine(u[i], c) /\ IsMine(u[j], c) /\ i < j) => u[i].n < u[j].n
    BY OrderMeaning
  <1>7. \A i \in DOMAIN t : IsMine(t[i], c) => t[i].n \in 1 .. n
    BY <1>1, <1>4, <1>6
  <1>8. \A k \in 1 .. n : \E i \in DOMAIN t : IsMine(t[i], c) /\ t[i].n = k
    <2> SUFFICES ASSUME NEW k \in 1 .. n PROVE \E i \in DOMAIN t : IsMine(t[i], c) /\ t[i].n = k
      OBVIOUS
    <2>1. PICK i \in DOMAIN u : IsMine(u[i], c) /\ u[i].n = k BY <1>6
    <2>2. i # k0 + 1 BY <2>1
    <2>3. CASE i <= k0 BY <1>1, <2>1, <2>3
    <2>4. CASE i > k0 + 1 BY <1>1, <2>1, <2>4
    <2>5. QED BY <1>5, <2>2, <2>3, <2>4
  <1>9. \A i, j \in DOMAIN t : (IsMine(t[i], c) /\ IsMine(t[j], c) /\ i < j) => t[i].n < t[j].n
    <2> SUFFICES ASSUME NEW i \in DOMAIN t, NEW j \in DOMAIN t, IsMine(t[i], c), IsMine(t[j], c), i < j
                 PROVE  t[i].n < t[j].n
      OBVIOUS
    <2>1. i \in Nat /\ j \in Nat BY <1>4
    <2>2. CASE j <= k0
      <3>1. i \in DOMAIN u /\ j \in DOMAIN u /\ t[i] = u[i] /\ t[j] = u[j] BY <1>1, <2>1, <2>2
      <3>2. QED BY <1>6, <3>1
    <2>3. CASE i > k0
      <3>1. /\ i + 1 \in DOMAIN u /\ j + 1 \in DOMAIN u /\ t[i] = u[i + 1] /\ t[j] = u[j + 1]
            /\ i + 1 < j + 1
        BY <1>1, <2>1, <2>3
      <3>2. QED BY <1>6, <3>1
    <2>4. CASE i <= k0 /\ j > k0
      <3>1. i \in DOMAIN u /\ j + 1 \in DOMAIN u /\ t[i] = u[i] /\ t[j] = u[j + 1] /\ i < j + 1
        BY <1>1, <2>1, <2>4
      <3>2. QED BY <1>6, <3>1
    <2>5. QED BY <2>1, <2>2, <2>3, <2>4
  <1>10. QED BY <1>7, <1>8, <1>9, OrderMeaning

-----------------------------------------------------------------------------
(* A step that sends nothing, or a message that is no string. *)
LEMMA PrintKept ==
    ASSUME ConsoleIInv, UNCHANGED <<screen, sent>>, NEW m \in Messages, ~IsDraw(m),
           port' = port \/ port' = Append(port, m)
    PROVE  PrintedInOrder'
  <1> USE DEF ConsoleIInv, ConsoleTypeOK
  <1>1. CASE port' = port BY <1>1 DEF PrintedInOrder
  <1>2. CASE port' = Append(port, m)
    <2>1. screen' \o port' = Append(screen \o port, m) BY <1>2, ConcatAppend
    <2>2. PICK u : u = screen \o port OBVIOUS
    <2>3. u \in Seq(Messages) BY <2>2
    <2>4. \A c \in Clients : AllInOrder(u, c, sent[c]) BY <2>2 DEF PrintedInOrder
    <2>5. \A c \in Clients : AllInOrder(Append(u, m), c, sent[c])
      <3> SUFFICES ASSUME NEW c \in Clients PROVE AllInOrder(Append(u, m), c, sent[c])
        OBVIOUS
      <3>1. ~IsMine(m, c) /\ sent[c] \in Nat /\ AllInOrder(u, c, sent[c]) BY <2>4 DEF IsMine
      <3>2. QED BY <2>3, <3>1, OrderAppend
    <2>6. QED BY <2>1, <2>2, <2>5 DEF PrintedInOrder
  <1>3. QED BY <1>1, <1>2

(* A client opens the port, or finds that it cannot. *)
LEMMA OpenKeeps ==
    ASSUME NEW c \in Clients, ConsoleIInv, LibcInit(c) \/ OpenPort(c) \/ OpenPortAgain(c)
    PROVE  ConsoleIInv'
  <1> USE DEF ConsoleIInv, ConsoleTypeOK
  <1>1. /\ UNCHANGED <<keyboard, pressed, server, controller, port, screen, inbox, sent>>
        /\ libc' \in [Clients -> BOOLEAN]
        /\ pc[c] \in {"init", "open", "spin"}
        /\ \E at \in {"open", "spin", "claim"} :
              pc' = [pc EXCEPT ![c] = at] /\ (at = "claim" => Online)
    <2>1. CASE LibcInit(c) BY <2>1 DEF LibcInit, keys, console, Online
    <2>2. CASE OpenPort(c) BY <2>2 DEF OpenPort, keys, console
    <2>3. CASE OpenPortAgain(c) BY <2>3 DEF OpenPortAgain, keys, console
    <2>4. QED BY <2>1, <2>2, <2>3
  <1>2. ConsoleTypeOK' BY <1>1
  <1>3. StartInv' BY <1>1 DEF StartInv, Online
  <1>4. ClaimInv' BY <1>1 DEF ClaimInv
  <1>5. KeysInv' /\ PrintedInOrder' BY <1>1 DEF KeysInv, PrintedInOrder
  <1>6. QED BY <1>2, <1>3, <1>4, <1>5

LEMMA SendClaimKeeps == ASSUME NEW c \in Clients, ConsoleIInv, SendClaim(c) PROVE ConsoleIInv'
  <1> USE ConsoleAssumption DEF ConsoleIInv, ConsoleTypeOK
  <1> DEFINE m == Claim(c)
  <1>1. m \in Messages /\ IsClaim(m) /\ ~IsKey(m) /\ ~IsDraw(m) /\ m.from = c
    BY DEF Messages, Claim, Message, IsClaim, IsKey, IsDraw
  <1>2. /\ UNCHANGED <<keyboard, pressed, server, controller, screen, libc, inbox, sent>>
        /\ pc[c] = "claim"
        /\ \/ port' = port /\ pc' = [pc EXCEPT ![c] = "exited"]
           \/ port' = Append(port, m) /\ pc' = [pc EXCEPT ![c] = "wait"]
    BY DEF SendClaim, Enqueued, keys, console
  <1> HIDE DEF m
  <1>3. /\ Append(port, m) \in Seq(Messages)
        /\ \A i \in DOMAIN Append(port, m) :
              \/ i \in DOMAIN port /\ Append(port, m)[i] = port[i]
              \/ i = Len(port) + 1 /\ Append(port, m)[i] = m
    BY <1>1, AppendFacts
  <1>4. \A i \in DOMAIN port' : \/ i \in DOMAIN port /\ port'[i] = port[i]
                                \/ /\ i = Len(port) + 1 /\ port'[i] = m
                                   /\ pc' = [pc EXCEPT ![c] = "wait"]
    BY <1>2, <1>3
  <1>5. ConsoleTypeOK' BY <1>2, <1>3
  <1>6. Online BY <1>2 DEF StartInv
  <1>7. StartInv' BY <1>1, <1>2, <1>4, <1>6 DEF StartInv, Online
  <1>8. ClaimInv'
    <2>1. controller # c /\ inbox[c] = << >> BY <1>2 DEF ClaimInv
    <2>2. ASSUME NEW i \in DOMAIN port', IsClaim(port'[i])
          PROVE  /\ port'[i].from \in Clients
                 /\ pc'[port'[i].from] = "wait" /\ controller' # port'[i].from
                 /\ \A j \in DOMAIN port' : IsClaim(port'[j]) /\ port'[j].from = port'[i].from => i = j
      <3>1. \A j \in DOMAIN port : IsClaim(port[j]) => port[j].from # c BY <1>2 DEF ClaimInv
      <3>2. CASE i \in DOMAIN port /\ port'[i] = port[i]
        <4>1. /\ port[i].from \in Clients /\ pc[port[i].from] = "wait"
              /\ controller # port[i].from /\ port[i].from # c
              /\ \A j \in DOMAIN port : IsClaim(port[j]) /\ port[j].from = port[i].from => i = j
          BY <2>2, <3>1, <3>2 DEF ClaimInv
        <4>2. pc'[port[i].from] = "wait" BY <1>2, <4>1
        <4>3. \A j \in DOMAIN port' : IsClaim(port'[j]) /\ port'[j].from = port[i].from => i = j
          BY <1>1, <1>4, <4>1
        <4>4. QED BY <1>2, <3>2, <4>1, <4>2, <4>3
      <3>3. CASE i = Len(port) + 1 /\ port'[i] = m /\ pc' = [pc EXCEPT ![c] = "wait"]
        <4>1. \A j \in DOMAIN port' : IsClaim(port'[j]) /\ port'[j].from = c => i = j
          BY <1>4, <3>1, <3>3
        <4>2. QED BY <1>1, <1>2, <2>1, <3>3, <4>1
      <3>4. QED BY <1>4, <3>2, <3>3
    <2>3. \A d \in Clients \ {c} : pc'[d] = pc[d] BY <1>2
    <2>4. pc'[c] \in {"wait", "exited"} BY <1>2
    <2>5. QED BY <1>2, <2>1, <2>2, <2>3, <2>4 DEF ClaimInv
  <1>9. KeysInv'
    <2>1. \A i \in DOMAIN port' : IsKey(port'[i]) => i \in DOMAIN port /\ port'[i] = port[i]
      BY <1>1, <1>4
    <2>2. QED BY <1>2, <2>1 DEF KeysInv
  <1>10. PrintedInOrder' BY <1>1, <1>2, PrintKept
  <1>11. QED BY <1>5, <1>7, <1>8, <1>9, <1>10

(* Whatever is taken from an inbox, the rest is as it was. *)
LEMMA TakeKeeps ==
    ASSUME NEW c \in Clients, ConsoleIInv, inbox[c] # << >>,
           inbox' = [inbox EXCEPT ![c] = Tail(@)],
           UNCHANGED <<keyboard, pressed, server, controller, port, screen, libc, sent>>,
           NEW at \in {"print", "loop"}, pc' = [pc EXCEPT ![c] = at]
    PROVE  ConsoleIInv'
  <1> USE DEF ConsoleIInv, ConsoleTypeOK
  <1>1. /\ Tail(inbox[c]) \in Seq(Messages)
        /\ \A i \in DOMAIN Tail(inbox[c]) :
              /\ i \in Nat /\ i + 1 \in DOMAIN inbox[c]
              /\ Tail(inbox[c])[i] = inbox[c][i + 1]
    BY TailFacts
  <1>2. controller = c /\ pc[c] \in {"wait", "print", "loop"} BY DEF ClaimInv
  <1>3. ConsoleTypeOK' BY <1>1
  <1>4. \A d \in Clients \ {c} : inbox'[d] = inbox[d] /\ pc'[d] = pc[d] OBVIOUS
  <1>5. inbox'[c] = Tail(inbox[c]) /\ pc'[c] = at OBVIOUS
  <1>6. \A d \in Clients : \A i \in DOMAIN inbox'[d] : \E j \in DOMAIN inbox[d] : inbox'[d][i] = inbox[d][j]
    BY <1>1, <1>4, <1>5
  <1>7. StartInv'
    <2>1. Online BY <1>2 DEF StartInv
    <2>2. QED BY <1>6, <2>1 DEF StartInv, Online
  <1>8. ClaimInv'
    <2>1. \A i \in DOMAIN port : IsClaim(port[i]) => port[i].from \in Clients \ {c}
      BY <1>2 DEF ClaimInv
    <2>2. QED BY <1>2, <1>4, <1>5, <2>1 DEF ClaimInv
  <1>9. KeysInv'
    <2>1. ASSUME NEW d \in Clients, NEW i \in DOMAIN inbox'[d], NEW j \in DOMAIN inbox'[d],
                 IsKey(inbox'[d][i]), IsKey(inbox'[d][j]), i < j
          PROVE  inbox'[d][i].n < inbox'[d][j].n
      <3>1. CASE d = c
        <4>1. /\ i + 1 \in DOMAIN inbox[d] /\ inbox'[d][i] = inbox[d][i + 1]
              /\ j + 1 \in DOMAIN inbox[d] /\ inbox'[d][j] = inbox[d][j + 1]
              /\ i + 1 < j + 1
          BY <1>1, <1>5, <2>1, <3>1
        <4>2. QED BY <2>1, <4>1 DEF KeysInv
      <3>2. CASE d # c BY <1>4, <2>1, <3>2 DEF KeysInv
      <3>3. QED BY <3>1, <3>2
    <2>2. ASSUME NEW d \in Clients, NEW i \in DOMAIN inbox'[d], IsKey(inbox'[d][i])
          PROVE  /\ inbox'[d][i].n <= pressed
                 /\ \A k \in DOMAIN port : IsKey(port[k]) => inbox'[d][i].n < port[k].n
      <3>1. PICK j \in DOMAIN inbox[d] : inbox'[d][i] = inbox[d][j] BY <1>6
      <3>2. QED BY <2>2, <3>1 DEF KeysInv
    <2>3. QED BY <2>1, <2>2 DEF KeysInv
  <1>10. PrintedInOrder' BY DEF PrintedInOrder
  <1>11. QED BY <1>3, <1>7, <1>8, <1>9, <1>10

(* What the shell takes for the status of its claim is the reply. *)
LEMMA ReceiveReplyKeeps == ASSUME NEW c \in Clients, ConsoleIInv, ReceiveReply(c) PROVE ConsoleIInv'
  <1>1. /\ inbox[c] # << >> /\ pc[c] = "wait"
        /\ inbox' = [inbox EXCEPT ![c] = Tail(@)]
        /\ UNCHANGED <<keyboard, pressed, server, controller, port, screen, libc, sent>>
    BY DEF ReceiveReply, keys, console
  <1>2. inbox[c][1] = Reply BY <1>1 DEF ConsoleIInv, ClaimInv
  <1>3. Head(inbox[c]) = Reply BY <1>1, <1>2 DEF ConsoleIInv, ConsoleTypeOK
  <1>4. Reply.n = STATUS_OK BY DEF Reply, Message
  <1>5. pc' = [pc EXCEPT ![c] = "print"] BY <1>3, <1>4 DEF ReceiveReply
  <1>6. QED BY <1>1, <1>5, TakeKeeps

LEMMA ReceiveKeyKeeps == ASSUME NEW c \in Clients, ConsoleIInv, ReceiveKey(c) PROVE ConsoleIInv'
  <1>1. /\ inbox[c] # << >> /\ pc[c] = "loop"
        /\ inbox' = [inbox EXCEPT ![c] = Tail(@)]
        /\ UNCHANGED <<keyboard, pressed, server, controller, port, screen, libc, sent>>
        /\ pc' = pc \/ pc' = [pc EXCEPT ![c] = "print"]
    BY DEF ReceiveKey, keys, console
  <1>2. pc = [pc EXCEPT ![c] = "loop"] BY <1>1 DEF ConsoleIInv, ConsoleTypeOK
  <1>3. QED BY <1>1, <1>2, TakeKeeps

(* printf sends the next string, if it sends anything. *)
LEMMA PrintfKeeps == ASSUME NEW c \in Clients, ConsoleIInv, Printf(c) PROVE ConsoleIInv'
  <1> USE DEF ConsoleIInv, ConsoleTypeOK
  <1> DEFINE m == Draw(c, sent[c] + 1)
  <1>1. m \in Messages /\ ~IsKey(m) /\ ~IsClaim(m) /\ m.from = c
    BY DEF Messages, Draw, Message, IsKey, IsClaim
  <1>2. /\ UNCHANGED <<keyboard, pressed, server, controller, screen, libc, inbox>>
        /\ pc[c] = "print" /\ pc' = [pc EXCEPT ![c] = "loop"]
        /\ \/ port' = port /\ sent' = sent
           \/ port' = Append(port, m) /\ sent' = [sent EXCEPT ![c] = @ + 1]
    BY DEF Printf, keys, console
  <1>3. /\ Append(port, m) \in Seq(Messages)
        /\ \A i \in DOMAIN Append(port, m) :
              \/ i \in DOMAIN port /\ Append(port, m)[i] = port[i]
              \/ i = Len(port) + 1 /\ Append(port, m)[i] = m
    BY <1>1, AppendFacts
  <1>4. PrintedInOrder'
    <2>1. CASE port' = port /\ sent' = sent BY <1>2, <2>1 DEF PrintedInOrder
    <2>2. CASE port' = Append(port, m) /\ sent' = [sent EXCEPT ![c] = @ + 1]
      <3>1. screen' \o port' = Append(screen \o port, m) BY <1>1, <1>2, <2>2, ConcatAppend
      <3>2. PICK u : u = screen \o port OBVIOUS
      <3>3. u \in Seq(Messages) BY <3>2
      <3>4. \A d \in Clients : AllInOrder(u, d, sent[d]) BY <3>2 DEF PrintedInOrder
      <3>5. ASSUME NEW d \in Clients PROVE AllInOrder(Append(u, m), d, sent'[d])
        <4>1. sent[d] \in Nat /\ AllInOrder(u, d, sent[d]) BY <3>4
        <4>2. CASE d = c
          <5>1. sent'[d] = sent[d] + 1 /\ m = Draw(d, sent[d] + 1) BY <2>2, <4>2
          <5> HIDE DEF m
          <5>2. QED BY <1>1, <3>3, <4>1, <5>1, OrderPrint
        <4>3. CASE d # c
          <5>1. sent'[d] = sent[d] /\ ~IsMine(m, d) BY <1>1, <2>2, <4>3 DEF IsMine
          <5> HIDE DEF m
          <5>2. QED BY <1>1, <3>3, <4>1, <5>1, OrderAppend
        <4>4. QED BY <4>2, <4>3
      <3> HIDE DEF m
      <3>6. QED BY <3>1, <3>2, <3>5 DEF PrintedInOrder
    <2>3. QED BY <1>2, <2>1, <2>2
  <1> HIDE DEF m
  <1>5. \A i \in DOMAIN port' : \/ i \in DOMAIN port /\ port'[i] = port[i]
                                \/ port'[i] = m
    BY <1>2, <1>3
  <1>6. ConsoleTypeOK'
    <2>1. sent' \in [Clients -> Nat] BY <1>2
    <2>2. pc' \in [Clients -> {"init", "open", "spin", "claim", "wait", "print", "loop", "exited"}] BY <1>2
    <2>3. QED BY <1>2, <1>3, <2>1, <2>2
  <1>7. Online BY <1>2 DEF StartInv
  <1>8. StartInv' BY <1>1, <1>2, <1>5, <1>7 DEF StartInv, Online
  <1>9. ClaimInv'
    <2>1. \A i \in DOMAIN port' : IsClaim(port'[i]) =>
             i \in DOMAIN port /\ port'[i] = port[i] /\ port[i].from # c
      BY <1>1, <1>2, <1>5 DEF ClaimInv
    <2>2. \A d \in Clients \ {c} : pc'[d] = pc[d] BY <1>2
    <2>3. pc'[c] = "loop" BY <1>2
    <2>4. QED BY <1>2, <2>1, <2>2, <2>3 DEF ClaimInv
  <1>10. KeysInv'
    <2>1. \A i \in DOMAIN port' : IsKey(port'[i]) => i \in DOMAIN port /\ port'[i] = port[i]
      BY <1>1, <1>5
    <2>2. QED BY <1>2, <2>1 DEF KeysInv
  <1>11. QED BY <1>4, <1>6, <1>8, <1>9, <1>10

(* The keyboard server starts; it answers; it sends the next key. *)
LEMMA KeyboardKeeps ==
    ASSUME ConsoleIInv, KeyboardStarts \/ KeyboardAnswers \/ KeyboardSends
    PROVE  ConsoleIInv'
  <1> USE ConsoleAssumption DEF ConsoleIInv, ConsoleTypeOK
  <1>1. UNCHANGED <<server, controller, screen, pc, libc, inbox, sent>>
    BY DEF KeyboardStarts, KeyboardAnswers, KeyboardSends, console, clients
  <1>2. PICK k \in Nat :
          /\ \/ keyboard = "down" /\ keyboard' = "up" /\ pressed' = pressed /\ port' = port
             \/ /\ keyboard \in {"asked", "listened"} /\ keyboard' = "listened" /\ pressed' = k
                /\ port' = port \/ port' = Append(port, Key(k))
          /\ keyboard = "listened" => k = pressed + 1
          /\ keyboard # "listened" => k = 0
    <2>1. CASE KeyboardStarts BY <2>1 DEF KeyboardStarts
    <2>2. CASE KeyboardAnswers BY <2>2 DEF KeyboardAnswers, Enqueued, StartInv, STATUS_OK
    <2>3. CASE KeyboardSends
      <3>1. pressed + 1 \in Nat OBVIOUS
      <3>2. QED BY <2>3, <3>1 DEF KeyboardSends, Enqueued
    <2>4. QED BY <2>1, <2>2, <2>3
  <1> DEFINE m == Key(k)
  <1>3. m \in Messages /\ IsKey(m) /\ ~IsDraw(m) /\ ~IsClaim(m) /\ m.n = k
    BY DEF Messages, Key, Message, IsKey, IsDraw, IsClaim
  <1>4. port' = port \/ port' = Append(port, m) BY <1>2
  <1>5. port' # port => keyboard' = "listened" BY <1>2
  <1> HIDE DEF m
  <1>6. /\ Append(port, m) \in Seq(Messages)
        /\ \A i \in DOMAIN Append(port, m) :
              \/ i \in DOMAIN port /\ Append(port, m)[i] = port[i]
              \/ i = Len(port) + 1 /\ Append(port, m)[i] = m
    BY <1>3, AppendFacts
  <1>7. \A i \in DOMAIN port' : \/ i \in DOMAIN port /\ port'[i] = port[i]
                                \/ /\ i = Len(port) + 1 /\ port'[i] = m
                                   /\ keyboard' = "listened" /\ pressed' = k
    BY <1>2, <1>4, <1>6
  <1>8. ConsoleTypeOK' BY <1>1, <1>2, <1>4, <1>6
  <1>9. PrintedInOrder' BY <1>1, <1>3, <1>4, PrintKept
  <1>10. StartInv'
    <2>1. (server = "serve" <=> keyboard \in {"asked", "listened"})' BY <1>1, <1>2 DEF StartInv
    <2>2. port' # port => Online BY <1>2 DEF StartInv, Online
    <2>3. QED BY <1>1, <1>2, <1>7, <2>1, <2>2 DEF StartInv, Online
  <1>11. ClaimInv'
    <2>1. \A i \in DOMAIN port' : IsClaim(port'[i]) => i \in DOMAIN port /\ port'[i] = port[i]
      BY <1>3, <1>7
    <2>2. QED BY <1>1, <2>1 DEF ClaimInv
  <1>12. KeysInv'
    <2>1. pressed' >= pressed /\ pressed' \in Nat BY <1>2 DEF StartInv
    <2>2. \A i \in DOMAIN port : /\ i \in Nat /\ i <= Len(port)
                                 /\ IsKey(port[i]) => port[i].n \in Nat /\ port[i].n <= pressed
      <3>1. \A i \in DOMAIN port : i \in Nat /\ i <= Len(port) /\ port[i] \in Messages BY DomainFacts
      <3>2. \A x \in Messages : x.n \in Nat BY DEF Messages
      <3>3. QED BY <3>1, <3>2 DEF KeysInv
    <2>3. \A c \in Clients : \A i \in DOMAIN inbox[c] :
             IsKey(inbox[c][i]) => inbox[c][i].n \in Nat /\ inbox[c][i].n <= pressed
      <3>1. \A c \in Clients : \A i \in DOMAIN inbox[c] : inbox[c][i] \in Messages BY DomainFacts
      <3>2. \A x \in Messages : x.n \in Nat BY DEF Messages
      <3>3. QED BY <3>1, <3>2 DEF KeysInv
    <2>4. /\ \A i \in DOMAIN port : IsKey(port[i]) => port[i].n < k \/ keyboard' # "listened"
          /\ \A c \in Clients : \A i \in DOMAIN inbox[c] :
                IsKey(inbox[c][i]) => inbox[c][i].n < k \/ keyboard' # "listened"
      BY <1>2, <2>2, <2>3 DEF StartInv
    <2>5. ASSUME NEW i \in DOMAIN port', IsKey(port'[i])
          PROVE  /\ port'[i].n <= pressed'
                 /\ \A j \in DOMAIN port' : i < j /\ IsKey(port'[j]) => port'[i].n < port'[j].n
                 /\ \A c \in Clients : \A j \in DOMAIN inbox[c] :
                       IsKey(inbox[c][j]) => inbox[c][j].n < port'[i].n
      <3>1. CASE i \in DOMAIN port /\ port'[i] = port[i]
        <4>1. port[i].n <= pressed' BY <2>1, <2>2, <2>5, <3>1
        <4>2. \A j \in DOMAIN port' : i < j /\ IsKey(port'[j]) => port[i].n < port'[j].n
          BY <1>3, <1>7, <2>4, <2>5, <3>1 DEF KeysInv
        <4>3. QED BY <2>5, <3>1, <4>1, <4>2 DEF KeysInv
      <3>2. CASE i = Len(port) + 1 /\ port'[i] = m /\ keyboard' = "listened" /\ pressed' = k
        <4>1. \A j \in DOMAIN port' : ~(i < j)
          <5> SUFFICES ASSUME NEW j \in DOMAIN port' PROVE ~(i < j)
            OBVIOUS
          <5>1. Len(port) \in Nat OBVIOUS
          <5>2. j \in DOMAIN port \/ j = Len(port) + 1 BY <1>7
          <5>3. j \in Nat /\ j <= Len(port) + 1 BY <2>2, <5>1, <5>2
          <5>4. QED BY <3>2, <5>1, <5>3
        <4>2. QED BY <1>3, <2>4, <3>2, <4>1
      <3>3. QED BY <1>7, <3>1, <3>2
    <2>6. \A c \in Clients : \A i \in DOMAIN inbox[c] : IsKey(inbox[c][i]) => inbox[c][i].n <= pressed'
      BY <2>1, <2>3
    <2>7. QED BY <1>1, <2>5, <2>6 DEF KeysInv
  <1>13. QED BY <1>8, <1>9, <1>10, <1>11, <1>12

(* The console server up to its loop. *)
LEMMA ServerStartKeeps ==
    ASSUME ConsoleIInv, ServerOpens \/ ServerTestsAck \/ ServerCreates \/ ServerClaims
    PROVE  ConsoleIInv'
  <1> USE DEF ConsoleIInv, ConsoleTypeOK
  <1>1. /\ UNCHANGED <<pressed, controller, port, pc, libc, inbox, sent>>
        /\ server' \in {"ack", "create", "claim", "serve", "exited"}
        /\ Online => Online'
        /\ server # "serve"
        /\ server' = "serve" => keyboard' = "asked"
        /\ server' # "serve" => keyboard' = keyboard
    BY DEF ServerOpens, ServerTestsAck, ServerCreates, ServerClaims, keys, clients, Online
  <1>2. screen' = screen
    BY DEF ServerOpens, ServerTestsAck, ServerCreates, ServerClaims, StartInv, Online
  <1>3. ConsoleTypeOK' BY <1>1, <1>2
  <1>4. StartInv' BY <1>1, <1>2 DEF StartInv
  <1>5. ClaimInv' /\ KeysInv' /\ PrintedInOrder'
    BY <1>1, <1>2 DEF ClaimInv, KeysInv, PrintedInOrder
  <1>6. QED BY <1>3, <1>4, <1>5

(* Taking a message off the port leaves the others in order. *)
LEMMA ServedPort ==
    ASSUME ConsoleIInv, Serve
    PROVE  /\ port # << >> /\ port' \in Seq(Messages) /\ 1 \in DOMAIN port
           /\ Head(port) = port[1] /\ port[1] \in Messages
           /\ \A i \in DOMAIN port' : i \in Nat /\ i >= 1 /\ i + 1 \in DOMAIN port /\ port'[i] = port[i + 1]
           /\ UNCHANGED <<keyboard, pressed, server, pc, libc, sent>>
           /\ Online
  <1>1. port # << >> /\ port' = Tail(port) /\ UNCHANGED <<keyboard, pressed, server, pc, libc, sent>> /\ Online
    BY DEF Serve, keys, Online
  <1>2. QED BY <1>1, TailFacts DEF ConsoleIInv, ConsoleTypeOK

LEMMA ServedClaims ==
    ASSUME ConsoleIInv, Serve, NEW i \in DOMAIN port', IsClaim(port'[i])
    PROVE  /\ port'[i].from \in Clients
           /\ pc[port'[i].from] = "wait" /\ controller # port'[i].from
           /\ \A j \in DOMAIN port' : IsClaim(port'[j]) /\ port'[j].from = port'[i].from => i = j
           /\ IsClaim(port[1]) => port'[i].from # port[1].from
  <1>1. /\ 1 \in DOMAIN port
        /\ \A j \in DOMAIN port' : j \in Nat /\ j >= 1 /\ j + 1 \in DOMAIN port /\ port'[j] = port[j + 1]
    BY ServedPort
  <1>2. /\ port'[i].from \in Clients
        /\ pc[port'[i].from] = "wait" /\ controller # port'[i].from
        /\ \A j \in DOMAIN port : IsClaim(port[j]) /\ port[j].from = port'[i].from => i + 1 = j
    BY <1>1 DEF ConsoleIInv, ClaimInv
  <1>3. ASSUME NEW j \in DOMAIN port', IsClaim(port'[j]), port'[j].from = port'[i].from PROVE i = j
    <2>1. i + 1 = j + 1 BY <1>1, <1>2, <1>3
    <2>2. QED BY <1>1, <2>1
  <1>4. i + 1 # 1 BY <1>1
  <1>5. QED BY <1>1, <1>2, <1>3, <1>4

LEMMA ServedKeys ==
    ASSUME ConsoleIInv, Serve, NEW i \in DOMAIN port', IsKey(port'[i])
    PROVE  /\ port'[i].n <= pressed
           /\ \A j \in DOMAIN port' : i < j /\ IsKey(port'[j]) => port'[i].n < port'[j].n
           /\ \A c \in Clients : \A j \in DOMAIN inbox[c] :
                 IsKey(inbox[c][j]) => inbox[c][j].n < port'[i].n
           /\ IsKey(port[1]) => port[1].n < port'[i].n
  <1>1. /\ 1 \in DOMAIN port
        /\ \A j \in DOMAIN port' : j \in Nat /\ j >= 1 /\ j + 1 \in DOMAIN port /\ port'[j] = port[j + 1]
    BY ServedPort
  <1>2. /\ port'[i].n <= pressed
        /\ \A j \in DOMAIN port : i + 1 < j /\ IsKey(port[j]) => port'[i].n < port[j].n
        /\ \A c \in Clients : \A j \in DOMAIN inbox[c] :
              IsKey(inbox[c][j]) => inbox[c][j].n < port'[i].n
    BY <1>1 DEF ConsoleIInv, KeysInv
  <1>3. ASSUME NEW j \in DOMAIN port', i < j, IsKey(port'[j]) PROVE port'[i].n < port'[j].n
    <2>1. i + 1 < j + 1 BY <1>1, <1>3
    <2>2. QED BY <1>1, <1>2, <1>3, <2>1
  <1>4. IsKey(port[1]) => port[1].n < port'[i].n
    <2>1. 1 < i + 1 BY <1>1
    <2>2. QED BY <1>1, <2>1 DEF ConsoleIInv, KeysInv
  <1>5. QED BY <1>2, <1>3, <1>4

(* A key: newer than those the controller holds, older than those in the   *)
(* port.                                                                   *)
LEMMA HandleKeyKeeps ==
    ASSUME ConsoleIInv, Serve, IsKey(Head(port)), HandleKey(Head(port))
    PROVE  ConsoleIInv'
  <1> DEFINE m == port[1]
  <1>1. /\ port # << >> /\ port' \in Seq(Messages) /\ 1 \in DOMAIN port
        /\ Head(port) = m /\ m \in Messages
        /\ \A i \in DOMAIN port' : i \in Nat /\ i >= 1 /\ i + 1 \in DOMAIN port /\ port'[i] = port[i + 1]
        /\ UNCHANGED <<keyboard, pressed, server, pc, libc, sent>>
        /\ Online
    BY ServedPort
  <1>2. /\ screen' = Append(screen, m) /\ controller' = controller
        /\ \/ inbox' = inbox
           \/ /\ controller \in Clients
              /\ \/ inbox' = [inbox EXCEPT ![controller] = Append(@, m)]
                 \/ inbox' = [inbox EXCEPT ![controller] = @]
    BY <1>1 DEF HandleKey, Enqueued, ConsoleIInv, ConsoleTypeOK
  <1>3. IsKey(m) BY <1>1
  <1> HIDE DEF m
  <1> USE DEF ConsoleIInv, ConsoleTypeOK
  <1>4. PICK d \in Clients \cup {NullPointer} :
          /\ d = controller
          /\ \/ inbox' = inbox
             \/ d \in Clients /\ inbox' = [inbox EXCEPT ![d] = Append(@, m)]
    BY <1>2
  <1>5. \A c \in Clients : /\ Append(inbox[c], m) \in Seq(Messages)
                           /\ Append(inbox[c], m) # << >>
                           /\ \A i \in DOMAIN Append(inbox[c], m) :
                                 \/ i \in DOMAIN inbox[c] /\ Append(inbox[c], m)[i] = inbox[c][i]
                                 \/ i = Len(inbox[c]) + 1 /\ Append(inbox[c], m)[i] = m
                           /\ inbox[c] # << >> => Append(inbox[c], m)[1] = inbox[c][1]
    <2> SUFFICES ASSUME NEW c \in Clients
                 PROVE  /\ Append(inbox[c], m) \in Seq(Messages)
                        /\ Append(inbox[c], m) # << >>
                        /\ \A i \in DOMAIN Append(inbox[c], m) :
                              \/ i \in DOMAIN inbox[c] /\ Append(inbox[c], m)[i] = inbox[c][i]
                              \/ i = Len(inbox[c]) + 1 /\ Append(inbox[c], m)[i] = m
                        /\ inbox[c] # << >> => Append(inbox[c], m)[1] = inbox[c][1]
      OBVIOUS
    <2>1. inbox[c] \in Seq(Messages) OBVIOUS
    <2>2. inbox[c] # << >> => 1 \in DOMAIN inbox[c] BY <2>1
    <2>3. PICK q \in Seq(Messages) : q = inbox[c] BY <2>1
    <2>4. /\ Append(q, m) \in Seq(Messages) /\ Append(q, m) # << >>
          /\ \A i \in DOMAIN Append(q, m) :
                \/ i \in DOMAIN q /\ Append(q, m)[i] = q[i]
                \/ i = Len(q) + 1 /\ Append(q, m)[i] = m
          /\ \A i \in DOMAIN q : Append(q, m)[i] = q[i]
      <3>1. m \in Messages BY <1>1
      <3>2. QED BY <3>1, AppendFacts
    <2>5. q # << >> => Append(q, m)[1] = q[1] BY <2>2, <2>3, <2>4
    <2>6. QED BY <2>3, <2>4, <2>5
  <1>6. \A c \in Clients : \A i \in DOMAIN inbox'[c] :
           \/ i \in DOMAIN inbox[c] /\ inbox'[c][i] = inbox[c][i]
           \/ i = Len(inbox[c]) + 1 /\ inbox'[c][i] = m /\ c = controller
    <2> SUFFICES ASSUME NEW c \in Clients, NEW i \in DOMAIN inbox'[c]
                 PROVE  \/ i \in DOMAIN inbox[c] /\ inbox'[c][i] = inbox[c][i]
                        \/ i = Len(inbox[c]) + 1 /\ inbox'[c][i] = m /\ c = controller
      OBVIOUS
    <2>1. CASE inbox'[c] = inbox[c] BY <2>1
    <2>2. CASE inbox'[c] = Append(inbox[c], m) /\ c = controller BY <1>5, <2>2
    <2>3. QED BY <1>4, <2>1, <2>2
  <1>7. \A c \in Clients : /\ inbox[c] # << >> => inbox'[c] # << >> /\ inbox'[c][1] = inbox[c][1]
                           /\ inbox'[c] # inbox[c] => c = controller
    BY <1>4, <1>5
  <1>8. ConsoleTypeOK'
    <2>1. inbox' \in [Clients -> Seq(Messages)]
      <3>1. CASE inbox' = inbox BY <3>1
      <3>2. CASE d \in Clients /\ inbox' = [inbox EXCEPT ![d] = Append(@, m)]
        <4>1. Append(inbox[d], m) \in Seq(Messages) BY <1>5, <3>2
        <4>2. QED BY <3>2, <4>1
      <3>3. QED BY <1>4, <3>1, <3>2
    <2>2. screen' \in Seq(Messages) BY <1>1, <1>2
    <2>3. QED BY <1>1, <1>2, <2>1, <2>2
  <1>9. StartInv'
    <2>1. keyboard = "listened" BY <1>1, <1>3 DEF StartInv, m
    <2>2. QED BY <1>1, <2>1 DEF StartInv, Online
  <1>10. ClaimInv'
    <2>1. \A i \in DOMAIN port' : IsClaim(port'[i]) =>
             /\ port'[i].from \in Clients
             /\ pc[port'[i].from] = "wait" /\ controller # port'[i].from
             /\ \A j \in DOMAIN port' : IsClaim(port'[j]) /\ port'[j].from = port'[i].from => i = j
      BY ServedClaims
    <2>2. QED BY <1>1, <1>2, <1>7, <2>1 DEF ClaimInv
  <1>11. KeysInv'
    <2>1. /\ m.n \in Nat /\ m.n <= pressed
          /\ \A j \in DOMAIN port : 1 < j /\ IsKey(port[j]) => m.n < port[j].n
          /\ \A c \in Clients : \A j \in DOMAIN inbox[c] : IsKey(inbox[c][j]) => inbox[c][j].n < m.n
      <3>1. m.n \in Nat BY <1>1 DEF Messages
      <3>2. QED BY <1>1, <1>3, <3>1 DEF KeysInv, m
    <2>2. ASSUME NEW i \in DOMAIN port', IsKey(port'[i])
          PROVE  /\ port'[i].n <= pressed
                 /\ \A j \in DOMAIN port' : i < j /\ IsKey(port'[j]) => port'[i].n < port'[j].n
                 /\ \A c \in Clients : \A j \in DOMAIN inbox'[c] :
                       IsKey(inbox'[c][j]) => inbox'[c][j].n < port'[i].n
      <3>1. m.n < port'[i].n BY <1>3, <2>2, ServedKeys DEF m
      <3>2. ASSUME NEW c \in Clients, NEW j \in DOMAIN inbox'[c], IsKey(inbox'[c][j])
            PROVE  inbox'[c][j].n < port'[i].n
        <4>1. CASE j \in DOMAIN inbox[c] /\ inbox'[c][j] = inbox[c][j]
          BY <2>2, <3>2, <4>1, ServedKeys
        <4>2. CASE inbox'[c][j] = m BY <3>1, <4>2
        <4>3. QED BY <1>6, <4>1, <4>2
      <3>3. QED BY <2>2, <3>2, ServedKeys
    <2>3. ASSUME NEW c \in Clients, NEW i \in DOMAIN inbox'[c], IsKey(inbox'[c][i])
          PROVE  /\ inbox'[c][i].n <= pressed
                 /\ \A j \in DOMAIN inbox'[c] :
                       i < j /\ IsKey(inbox'[c][j]) => inbox'[c][i].n < inbox'[c][j].n
      <3>1. inbox'[c][i].n <= pressed
        <4>1. CASE i \in DOMAIN inbox[c] /\ inbox'[c][i] = inbox[c][i] BY <2>3, <4>1 DEF KeysInv
        <4>2. CASE inbox'[c][i] = m BY <2>1, <4>2
        <4>3. QED BY <1>6, <4>1, <4>2
      <3>2. ASSUME NEW j \in DOMAIN inbox'[c], i < j, IsKey(inbox'[c][j])
            PROVE  inbox'[c][i].n < inbox'[c][j].n
        <4>1. Len(inbox[c]) \in Nat /\ \A k \in DOMAIN inbox[c] : k \in Nat /\ k <= Len(inbox[c])
          BY DomainFacts
        <4>2. i \in DOMAIN inbox[c] /\ inbox'[c][i] = inbox[c][i]
          <5>1. j \in DOMAIN inbox[c] \/ j = Len(inbox[c]) + 1 BY <1>6
          <5>2. j \in Nat /\ j <= Len(inbox[c]) + 1 BY <4>1, <5>1
          <5>3. i # Len(inbox[c]) + 1 BY <3>2, <4>1, <5>2
          <5>4. QED BY <1>6, <5>3
        <4>3. CASE j \in DOMAIN inbox[c] /\ inbox'[c][j] = inbox[c][j]
          BY <2>3, <3>2, <4>2, <4>3 DEF KeysInv
        <4>4. CASE inbox'[c][j] = m BY <2>1, <2>3, <4>2, <4>4
        <4>5. QED BY <1>6, <4>3, <4>4
      <3>3. QED BY <3>1, <3>2
    <2>4. QED BY <1>1, <2>2, <2>3 DEF KeysInv
  <1>12. PrintedInOrder'
    <2>0. screen' = Append(screen, Head(port)) /\ port' = Tail(port)
      BY <1>1, <1>2 DEF Serve
    <2>a. Append(screen, Head(port)) \o Tail(port) = screen \o port
      BY <1>1, ConcatMove
    <2>1. screen' \o port' = screen \o port BY <2>0, <2>a
    <2>2. QED BY <1>1, <2>1 DEF PrintedInOrder
  <1>13. QED BY <1>8, <1>9, <1>10, <1>11, <1>12

(* The first claim makes a controller; its inbox was empty. *)
LEMMA HandleClaimKeeps ==
    ASSUME ConsoleIInv, Serve, IsClaim(Head(port)), HandleClaim(Head(port))
    PROVE  ConsoleIInv'
  <1> USE ConsoleAssumption DEF ConsoleIInv, ConsoleTypeOK
  <1>1. /\ port # << >> /\ port' \in Seq(Messages) /\ 1 \in DOMAIN port
        /\ Head(port) = port[1] /\ port[1] \in Messages
        /\ \A i \in DOMAIN port' : i \in Nat /\ i >= 1 /\ i + 1 \in DOMAIN port /\ port'[i] = port[i + 1]
        /\ UNCHANGED <<keyboard, pressed, server, pc, libc, sent>>
        /\ Online
    BY ServedPort
  <1>2. PICK d \in Clients : /\ d = port[1].from /\ pc[d] = "wait" /\ controller # d /\ inbox[d] = << >>
    BY <1>1 DEF ClaimInv
  <1>3. Reply \in Messages /\ ~IsKey(Reply) BY DEF Reply, Message, Messages, STATUS_OK, IsKey
  <1>4. /\ screen' = screen
        /\ \/ UNCHANGED <<controller, inbox>>
           \/ /\ controller = NullPointer /\ controller' = d
              /\ inbox' = [inbox EXCEPT ![d] = <<Reply>>]
    <2>1. Enqueued(<< >>, Reply) = <<Reply>> BY <1>3 DEF Enqueued, Full
    <2>2. screen' = screen BY DEF HandleClaim
    <2>3. CASE controller # NullPointer BY <2>2, <2>3 DEF HandleClaim
    <2>4. CASE controller = NullPointer
      <3>1. controller' = d /\ inbox' = [inbox EXCEPT ![d] = Enqueued(@, Reply)]
        BY <1>1, <1>2, <2>4 DEF HandleClaim
      <3>2. QED BY <1>2, <2>1, <2>2, <2>4, <3>1
    <2>5. QED BY <2>3, <2>4
  <1>5. <<Reply>> \in Seq(Messages) /\ <<Reply>> # << >> /\ <<Reply>>[1] = Reply
        /\ DOMAIN <<Reply>> = {1}
    BY <1>3
  <1>6. \A c \in Clients : \/ inbox'[c] = inbox[c]
                           \/ inbox'[c] = <<Reply>> /\ c = d /\ controller' = d
    BY <1>4
  <1>7. ConsoleTypeOK'
    <2>1. inbox' \in [Clients -> Seq(Messages)] BY <1>4, <1>5
    <2>2. controller' \in Clients \cup {NullPointer} BY <1>4
    <2>3. QED BY <1>1, <1>4, <2>1, <2>2
  <1>8. \A c \in Clients : \A i \in DOMAIN inbox'[c] :
           IsKey(inbox'[c][i]) => inbox'[c] = inbox[c]
    BY <1>3, <1>5, <1>6
  <1>9. StartInv' BY <1>1, <1>4, <1>8 DEF StartInv, Online
  <1>10. ClaimInv'
    <2>1. \A i \in DOMAIN port' : IsClaim(port'[i]) => port'[i].from # d
      BY <1>1, <1>2, ServedClaims
    <2>2. ASSUME NEW i \in DOMAIN port', IsClaim(port'[i])
          PROVE  /\ port'[i].from \in Clients
                 /\ pc[port'[i].from] = "wait" /\ controller' # port'[i].from
                 /\ \A j \in DOMAIN port' : IsClaim(port'[j]) /\ port'[j].from = port'[i].from => i = j
      BY <1>4, <2>1, <2>2, ServedClaims
    <2>3. CASE UNCHANGED <<controller, inbox>> BY <1>1, <2>2, <2>3 DEF ClaimInv
    <2>4. CASE /\ controller = NullPointer /\ controller' = d
               /\ inbox' = [inbox EXCEPT ![d] = <<Reply>>]
      <3>1. \A c \in Clients \ {d} : inbox'[c] = << >> /\ pc[c] \notin {"print", "loop"}
        BY <2>4 DEF ClaimInv
      <3>2. inbox'[d] # << >> /\ inbox'[d][1] = Reply BY <1>5, <2>4
      <3>3. QED BY <1>1, <1>2, <2>2, <2>4, <3>1, <3>2 DEF ClaimInv
    <2>5. QED BY <1>4, <2>3, <2>4
  <1>11. KeysInv'
    <2>1. ASSUME NEW i \in DOMAIN port', IsKey(port'[i])
          PROVE  /\ port'[i].n <= pressed
                 /\ \A j \in DOMAIN port' : i < j /\ IsKey(port'[j]) => port'[i].n < port'[j].n
                 /\ \A c \in Clients : \A j \in DOMAIN inbox'[c] :
                       IsKey(inbox'[c][j]) => inbox'[c][j].n < port'[i].n
      BY <1>8, <2>1, ServedKeys
    <2>2. \A c \in Clients : \A i \in DOMAIN inbox'[c] : IsKey(inbox'[c][i]) =>
             /\ inbox'[c][i].n <= pressed
             /\ \A j \in DOMAIN inbox'[c] :
                   i < j /\ IsKey(inbox'[c][j]) => inbox'[c][i].n < inbox'[c][j].n
      BY <1>8 DEF KeysInv
    <2>3. QED BY <1>1, <2>1, <2>2 DEF KeysInv
  <1>12. PrintedInOrder'
    <2>1. PICK u : u = screen \o port OBVIOUS
    <2>2. PICK t : t = screen \o port' OBVIOUS
    <2>3. /\ t \in Seq(Messages) /\ u \in Seq(Messages)
          /\ Drops(u, t, Len(screen)) /\ u[Len(screen) + 1] = Head(port)
      <3>1. port' = Tail(port) BY DEF Serve
      <3>2. screen \in Seq(Messages) /\ port \in Seq(Messages) OBVIOUS
      <3>3. port' \in Seq(Messages) /\ port # << >> BY <1>1
      <3> HIDE DEF ConsoleIInv, ConsoleTypeOK
      <3>4. ASSUME NEW s \in Seq(Messages), NEW q \in Seq(Messages), NEW r \in Seq(Messages),
                   q # << >>, r = Tail(q), u = s \o q, t = s \o r
            PROVE  /\ t \in Seq(Messages) /\ u \in Seq(Messages)
                   /\ Drops(u, t, Len(s)) /\ u[Len(s) + 1] = Head(q)
        BY <3>4, ConcatDrop
      <3>5. QED BY <2>1, <2>2, <3>1, <3>2, <3>3, <3>4
    <2>4. Len(screen) \in Nat OBVIOUS
    <2>5. \A c \in Clients : AllInOrder(t, c, sent[c])
      <3> SUFFICES ASSUME NEW c \in Clients PROVE AllInOrder(t, c, sent[c])
        OBVIOUS
      <3>1. sent[c] \in Nat /\ AllInOrder(u, c, sent[c]) BY <2>1 DEF PrintedInOrder
      <3>2. ~IsMine(u[Len(screen) + 1], c) BY <2>3 DEF IsMine, IsDraw, IsClaim
      <3>3. QED BY <2>3, <2>4, <3>1, <3>2, OrderDrop
    <2>6. QED BY <1>1, <1>4, <2>2, <2>5 DEF PrintedInOrder
  <1>13. QED BY <1>7, <1>9, <1>10, <1>11, <1>12

LEMMA HandleDrawKeeps ==
    ASSUME ConsoleIInv, Serve, HandleDraw(Head(port))
    PROVE  ConsoleIInv'
  <1> USE DEF ConsoleIInv, ConsoleTypeOK
  <1>1. /\ port # << >> /\ port' \in Seq(Messages) /\ 1 \in DOMAIN port
        /\ Head(port) = port[1] /\ port[1] \in Messages
        /\ \A i \in DOMAIN port' : i \in Nat /\ i >= 1 /\ i + 1 \in DOMAIN port /\ port'[i] = port[i + 1]
        /\ UNCHANGED <<keyboard, pressed, server, pc, libc, sent>>
        /\ Online
    BY ServedPort
  <1>2. screen' = Append(screen, Head(port)) /\ UNCHANGED <<controller, inbox>> BY DEF HandleDraw
  <1>3. ConsoleTypeOK'
    <2>1. screen' \in Seq(Messages) BY <1>1, <1>2
    <2>2. QED BY <1>1, <1>2, <2>1
  <1>4. StartInv' BY <1>1, <1>2 DEF StartInv, Online
  <1>5. ClaimInv' BY <1>1, <1>2, ServedClaims DEF ClaimInv
  <1>6. KeysInv' BY <1>1, <1>2, ServedKeys DEF KeysInv
  <1>7. PrintedInOrder'
    <2>1. screen' \o port' = screen \o port BY <1>1, <1>2, ConcatMove DEF Serve
    <2>2. QED BY <1>1, <2>1 DEF PrintedInOrder
  <1>8. QED BY <1>3, <1>4, <1>5, <1>6, <1>7

LEMMA ServeKeeps == ConsoleIInv /\ Serve => ConsoleIInv'
  <1> SUFFICES ASSUME ConsoleIInv, Serve PROVE ConsoleIInv'
    OBVIOUS
  <1>1. Head(port).type \in {"VGACONS_CLAIM_CONSOLE", "VGACONS_REQUEST_STRING_DRAW", "KBD_PROTOCOL_V0"}
    BY ServedPort DEF Messages
  <1>2. \/ IsKey(Head(port)) /\ HandleKey(Head(port))
        \/ IsClaim(Head(port)) /\ HandleClaim(Head(port))
        \/ HandleDraw(Head(port))
    BY <1>1 DEF Serve, IsKey, IsClaim
  <1>3. QED BY <1>2, HandleKeyKeeps, HandleClaimKeeps, HandleDrawKeeps

LEMMA ConsoleInvariant == Spec => []ConsoleIInv
  <1>1. Init => ConsoleIInv
    <2> SUFFICES ASSUME Init PROVE ConsoleIInv
      OBVIOUS
    <2> USE ConsoleAssumption DEF Init
    <2>1. ConsoleTypeOK BY DEF ConsoleTypeOK
    <2>2. StartInv BY DEF StartInv, Online
    <2>3. ClaimInv /\ KeysInv
      <3>1. DOMAIN port = {} /\ \A c \in Clients : inbox[c] = << >> /\ DOMAIN inbox[c] = {}
        OBVIOUS
      <3>2. ClaimInv BY <3>1 DEF ClaimInv
      <3>3. KeysInv BY <3>1 DEF KeysInv
      <3>4. QED BY <3>2, <3>3
    <2>4. PrintedInOrder
      <3>1. screen \o port = << >> OBVIOUS
      <3>2. \A c \in Clients : sent[c] = 0 OBVIOUS
      <3>5. PICK s : s = << >> OBVIOUS
      <3>6. DOMAIN s = {} /\ 1 .. 0 = {} BY <3>5
      <3>3. \A c \in Clients : AllInOrder(s, c, 0) BY <3>6, OrderMeaning
      <3>4. QED BY <3>1, <3>2, <3>3, <3>5 DEF PrintedInOrder
    <2>5. QED BY <2>1, <2>2, <2>3, <2>4 DEF ConsoleIInv
  <1>2. ConsoleIInv /\ [Next]_vars => ConsoleIInv'
    <2> SUFFICES ASSUME ConsoleIInv, [Next]_vars PROVE ConsoleIInv'
      OBVIOUS
    <2>1. CASE UNCHANGED vars
      BY <2>1 DEF vars, ConsoleIInv, ConsoleTypeOK, StartInv, Online, ClaimInv, KeysInv, PrintedInOrder
    <2>2. ASSUME NEW c \in Clients, Client(c) PROVE ConsoleIInv'
      BY <2>2, OpenKeeps, SendClaimKeeps, ReceiveReplyKeeps, PrintfKeeps, ReceiveKeyKeeps DEF Client
    <2>3. QED BY <2>1, <2>2, KeyboardKeeps, ServerStartKeeps, ServeKeeps DEF Next, Server
  <1>3. QED BY <1>1, <1>2, PTL DEF Spec

(* vgacons gives the console to the first client that claims it: that      *)
(* client alone gets keys, in order, and the first message the shell reads *)
(* is the reply to its claim.                                              *)
THEOREM ConsoleHasOneController == Spec => []OneController
  <1>1. ConsoleIInv => OneController
    <2> SUFFICES ASSUME ConsoleIInv PROVE OneController
      OBVIOUS
    <2>1. ASSUME NEW c \in Clients, pc[c] = "wait", inbox[c] # << >> PROVE Head(inbox[c]) = Reply
      <3>1. inbox[c][1] = Reply BY <2>1 DEF ConsoleIInv, ClaimInv
      <3>2. inbox[c] \in Seq(Messages) BY DEF ConsoleIInv, ConsoleTypeOK
      <3>3. QED BY <2>1, <3>1, <3>2
    <2>2. QED BY <2>1 DEF OneController, ConsoleIInv, ClaimInv, KeysInv
  <1>2. QED BY <1>1, ConsoleInvariant, PTL

(* libc's printf returns only once its string is in the port: the strings  *)
(* of a client reach the screen all, once and in order.                    *)
THEOREM ConsolePrintsInOrder == Spec => []PrintedInOrder
  <1>1. ConsoleIInv => PrintedInOrder BY DEF ConsoleIInv
  <1>2. QED BY <1>1, ConsoleInvariant, PTL
============================================================================
