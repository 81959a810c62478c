----------------------------- MODULE MCDrivers -----------------------------
(***************************************************************************)
(* What the kernel grants a driver: I/O ports and an interrupt line.       *)
(* Three processes, one of them with two threads, and the idle thread      *)
(* share the I/O bitmap; the keyboard server has IRQ 1.  The two share no  *)
(* state: each moves only while the other is in a first state, so that one *)
(* run explores both and not their product.                                *)
(***************************************************************************)
EXTENDS IOPorts, Keyboard

CONSTANTS p1, p2, p3

Idle == 0
AllOwners == <<p1, p2, p3, p1>>
MCOwner == [t \in Threads |-> IF t = Idle THEN NoProcess ELSE AllOwners[t]]

PortsIdle == IOPortsInit /\ current_thread = Idle

DriversInit == IOPortsInit /\ Init

DriversNext ==
    \/ Init /\ IOPortsNext /\ UNCHANGED vars
    \/ PortsIdle /\ Next /\ UNCHANGED ioVars

driversVars == <<ioVars, vars>>

(* Interrupts are taken, and the scheduler runs the server. *)
DriversSpec ==
    /\ DriversInit /\ [][DriversNext]_driversVars
    /\ WF_driversVars(PortsIdle /\ IRQHandlerCallback /\ UNCHANGED ioVars)
    /\ WF_driversVars(PortsIdle /\ Server /\ UNCHANGED ioVars)
============================================================================
