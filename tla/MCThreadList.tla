--------------------------- MODULE MCThreadList ---------------------------
(* ThreadList with a process of three threads and one of a single thread.  *)
(* Every tick ends a quantum.                                              *)
EXTENDS ThreadList

CONSTANTS idle, m1, s1, s2, m2, p1, p2

MCThreads == {idle, m1, s1, s2, m2}

MCBootThreads == <<m1, m2>>

MCOwner == [t \in MCThreads |-> IF t = m2 THEN p2 ELSE p1]

MCPriority == [t \in MCThreads |-> NO_PRIORITY]

MCHandleOrder == <<s1, s2>>
=============================================================================
