------------------------------- MODULE MCIpc -------------------------------
(* Ipc with a server of two threads, one port for each, and a client.      *)
(* Quanta are a single tick.                                               *)
EXTENDS Ipc

CONSTANTS idle, m1, s1, m2, p1, p2, port1, port2, port3

MCThreads == {idle, m1, s1, m2}

MCBootThreads == <<m1, m2>>

MCOwner == [t \in MCThreads |-> IF t = m2 THEN p2 ELSE p1]

MCPriority == [t \in MCThreads |-> PRIORITY_LOW]

MCPorts == {port1, port2, port3}

MCPortOwner == [p \in MCPorts |-> IF p = port1 THEN m1 ELSE IF p = port2 THEN s1 ELSE m2]
=============================================================================
