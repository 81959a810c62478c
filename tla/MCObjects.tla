------------------------------ MODULE MCObjects ------------------------------
(***************************************************************************)
(* Two processes with tables of two handles and memory for two objects     *)
(* and two ports: a full table, a shared object, a port cell used again.   *)
(* Processes and memory cells are interchangeable.                         *)
(***************************************************************************)
EXTENDS Objects, TLC

Interchangeable ==
    Permutations(Processes) \cup Permutations(ObjCells) \cup Permutations(PortCells)
=============================================================================
