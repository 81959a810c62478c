------------------------------ MODULE Objects ------------------------------
(***************************************************************************)
(* Kernel objects: the handle tables of processes (sys/iomgr/object.c),    *)
(* the objects they point to, the ports behind port objects and the global *)
(* list of named ports (sys/iomgr/port.c), and the system calls that move  *)
(* handles about (sys/syscall/object.c, the reply handle of _DWIPCSend).   *)
(*                                                                         *)
(* Memory is a pool of cells: kmalloc takes a free one, kfree frees it,    *)
(* and a pointer kept after that dangles until the cell is used again.     *)
(* Each system call is atomic.                                             *)
(***************************************************************************)
EXTENDS Integers, FiniteSets, FiniteSetsExt

CONSTANTS
    Processes,
    MAX_OBJ_PER_PROCESS,
    ObjCells, PortCells,    \* the memory for objects and for ports
    PortNames, LongNames,   \* LongNames are the ones CreatePort refuses
    MaxRefcnt,              \* bound on repeated PORT_OPEN of one object
    Freed,                  \* a name that was given to kfree
    NullPointer

(* What an object cell and a port cell hold. *)
KernelObject == [type : {"OBJ_PORT", "OBJ_OTHER"}, name : PortNames \cup {Freed, NullPointer},
                 data : PortCells \cup {NullPointer}, refcnt : Nat]
Port == [name : PortNames \cup {NullPointer}, owner : Processes]

ASSUME ObjectsAssumption ==
    /\ MAX_OBJ_PER_PROCESS \in Nat \ {0}
    /\ NullPointer \notin ObjCells \cup PortCells \cup PortNames \cup Processes \cup {Freed}
    /\ NullPointer \notin KernelObject \cup Port
    /\ Freed \notin PortNames
    /\ LongNames \subseteq PortNames
    /\ IsFiniteSet(Processes)

VARIABLES
    objlist,    \* HandleTable.objlist of each process
    object,     \* contents of the object cells, NullPointer when free
    port,       \* contents of the port cells, NullPointer when free
    port_list,  \* the ports in the PortNode list
    processes,  \* processes not deleted
    reply,      \* the reply port _DWIPCSend translated just now
    borrowed    \* objects that were put into a table as a reply port

vars == <<objlist, object, port, port_list, processes, reply, borrowed>>

Slot == 0 .. MAX_OBJ_PER_PROCESS - 1

NoReply == [to |-> NullPointer, handle |-> -1, object |-> NullPointer]

Handles(o) == {ps \in Processes \X Slot : objlist[ps[1]][ps[2]] = o}

-----------------------------------------------------------------------------
(* AppendToHandleTable: the lowest free slot, -1 when there is none. *)
FreeSlot(table) ==
    LET free == {i \in Slot : table[i] = NullPointer}
    IN  IF free = {} THEN -1 ELSE Min(free)

(* The slots that lead to o already. *)
AlreadyHas(p, o) == {j \in Slot : objlist[p][j] = o}

(* No two ports of the list have the same name. *)
FindPortByName(name) ==
    LET found == {c \in port_list : port[c].name = name}
    IN  IF found = {} THEN NullPointer ELSE CHOOSE c \in found : TRUE

(* What n calls of DeleteObject leave of object o.  Deleting an object     *)
(* twice (a process that goes with two uncounted handles to it) is taken   *)
(* to change nothing.                                                      *)
DeleteObject(o, n) ==
    IF n = 0 \/ object[o] = NullPointer THEN object[o]
    ELSE IF object[o].refcnt > n
    THEN [object[o] EXCEPT !.refcnt = @ - n]
    ELSE NullPointer

(* DeletePort for the objects that go when the cells become left: only a   *)
(* port in the list is ever freed.                                         *)
PortsBehind(left) ==
    LET gone == {o \in ObjCells : left[o] = NullPointer /\ object[o] # NullPointer}
    IN  {object[o].data : o \in {g \in gone : object[g].type = "OBJ_PORT"}} \cap port_list

(* The object cells become left once the tables are what they become. *)
DeleteObjects(left) ==
    /\ object' = left
    /\ port' = [c \in PortCells |-> IF c \in PortsBehind(left) THEN NullPointer ELSE port[c]]
    /\ port_list' = port_list \ PortsBehind(left)
    /\ borrowed' = {o \in borrowed : left[o] # NullPointer \/ Handles(o)' # {}}

-----------------------------------------------------------------------------
Init ==
    /\ objlist = [p \in Processes |-> [i \in Slot |-> NullPointer]]
    /\ object = [o \in ObjCells |-> NullPointer]
    /\ port = [c \in PortCells |-> NullPointer]
    /\ port_list = {}
    /\ processes = Processes
    /\ reply = NoReply
    /\ borrowed = {}

(* The object behind handle h of process p. *)
Target(p, h) == objlist[p][h]

IsPort(o) == o # NullPointer /\ object[o] # NullPointer /\ object[o].type = "OBJ_PORT"

(* _DWCreateObject.  When the table is full the new object stays allocated. *)
DWCreateObject(p, type, name) ==
    \E o \in ObjCells :
        LET i == FreeSlot(objlist[p]) IN
        /\ object[o] = NullPointer
        /\ object' = [object EXCEPT ![o] = [type |-> type, name |-> name,
                                            data |-> NullPointer, refcnt |-> 1]]
        /\ objlist' = IF i = -1 THEN objlist ELSE [objlist EXCEPT ![p][i] = o]
        /\ reply' = NoReply
        /\ UNCHANGED <<port, port_list, processes, borrowed>>

(* What reading the name of object o gives: anything once it was freed. *)
NameRead(o) == IF object[o].name = Freed THEN PortNames ELSE {object[o].name}

NewPort(p, o, name, c) ==
    /\ port[c] = NullPointer
    /\ port' = [port EXCEPT ![c] = [name |-> name, owner |-> p]]
    /\ IF name \in LongNames
       THEN UNCHANGED <<object, port_list>>
       ELSE /\ object' = [object EXCEPT ![o].data = c]
            /\ port_list' = IF name = NullPointer THEN port_list ELSE port_list \cup {c}

(* NAME_Fault, here and below, is NAME with a slip that the properties at  *)
(* the end must notice.                                                    *)
PortCreate_AnyName(p, h) ==
    /\ IsPort(Target(p, h))
    /\ \E c \in PortCells, name \in NameRead(Target(p, h)) : NewPort(p, Target(p, h), name, c)
    /\ reply' = NoReply
    /\ UNCHANGED <<objlist, processes, borrowed>>

(* PORT_CREATE: CreatePort under the object's name, which must be new.  A  *)
(* port the object had before is forgotten, and a port whose name turns    *)
(* out to be too long is neither used nor freed.                           *)
PortCreate(p, h) ==
    LET o == Target(p, h) IN
    /\ IsPort(o)
    /\ \E c \in PortCells, name \in NameRead(o) :
          /\ name # NullPointer => FindPortByName(name) = NullPointer
          /\ NewPort(p, o, name, c)
    /\ reply' = NoReply
    /\ UNCHANGED <<objlist, processes, borrowed>>

(* PORT_OPEN: it is the object's count that goes up, not the port's. *)
PortOpen(p, h, name) ==
    LET o == Target(p, h)
        c == FindPortByName(name) IN
    /\ IsPort(o)
    /\ c # NullPointer
    /\ object[o].refcnt < MaxRefcnt
    /\ object' = [object EXCEPT ![o].data = c, ![o].refcnt = @ + 1]
    /\ reply' = NoReply
    /\ UNCHANGED <<objlist, port, port_list, processes, borrowed>>

(* _DWDeleteObject frees the name whether or not the object goes. *)
DWDeleteObject(p, h) ==
    LET o    == Target(p, h)
        name == IF object[o].name = NullPointer THEN NullPointer ELSE Freed
        rest == DeleteObject(o, 1) IN
    /\ o # NullPointer
    /\ objlist' = [objlist EXCEPT ![p][h] = NullPointer]
    /\ DeleteObjects([object EXCEPT ![o] = IF rest = NullPointer THEN NullPointer
                                           ELSE [rest EXCEPT !.name = name]])
    /\ reply' = NoReply
    /\ UNCHANGED processes

DWTranslateHandle_NoCount(p, of, h, ok) ==
    LET o == Target(of, h)
        i == FreeSlot(objlist[p]) IN
    /\ p # of /\ of \in processes /\ o # NullPointer
    /\ AlreadyHas(p, o) = {}
    /\ i # -1
    /\ objlist' = [objlist EXCEPT ![p][i] = o]
    /\ reply' = NoReply
    /\ UNCHANGED <<object, port, port_list, processes, borrowed>>

(* _DWTranslateHandle by process p of a handle of another one.  A handle p *)
(* has already is reused.  When the answer cannot be copied out the handle *)
(* is dropped and the count goes down, whether or not it went up.          *)
DWTranslateHandle(p, of, h, ok) ==
    LET o    == Target(of, h)
        has  == AlreadyHas(p, o)
        i    == IF has # {} THEN Min(has) ELSE FreeSlot(objlist[p])
        up   == IF has # {} THEN 0 ELSE 1
        down == IF ok THEN 0 ELSE 1
    IN
    /\ p # of /\ of \in processes /\ o # NullPointer
    /\ i # -1
    /\ object[o].refcnt + up >= down
    /\ object' = [object EXCEPT ![o].refcnt = @ + up - down]
    /\ objlist' = [objlist EXCEPT ![p][i] = IF ok THEN o ELSE NullPointer]
    /\ reply' = NoReply
    /\ UNCHANGED <<port, port_list, processes, borrowed>>

SendWithReply_OwnTable(p, h, r) ==
    LET o  == Target(p, h)
        to == port[object[o].data].owner
        i  == FreeSlot(objlist[p])
    IN
    /\ IsPort(o) /\ object[o].data # NullPointer
    /\ port[object[o].data] # NullPointer
    /\ IsPort(Target(p, r)) /\ i # -1
    /\ objlist' = [objlist EXCEPT ![p][i] = Target(p, r)]
    /\ reply' = [to |-> to, handle |-> i, object |-> Target(p, r)]
    /\ borrowed' = borrowed \cup {Target(p, r)}
    /\ UNCHANGED <<object, port, port_list, processes>>

(* _DWIPCSend of a message with reply handle r, to the process that owns   *)
(* the port.  A reply port is put into the receiver's table, without being *)
(* counted, unless a scan that leaves out the last slot finds it there; a  *)
(* handle that leads to no port stays in the message as it is, and touches *)
(* no table.                                                               *)
SendWithReply(p, h, r) ==
    LET o  == Target(p, h)
        to == port[object[o].data].owner
        ro == Target(p, r)
        has == AlreadyHas(to, ro) \ {MAX_OBJ_PER_PROCESS - 1}
        i  == IF has # {} THEN Min(has) ELSE FreeSlot(objlist[to])
    IN
    /\ IsPort(o) /\ object[o].data # NullPointer
    /\ port[object[o].data] # NullPointer
    /\ to \in processes
    /\ IF IsPort(ro)
       THEN /\ objlist' = IF i = -1 THEN objlist ELSE [objlist EXCEPT ![to][i] = ro]
            /\ reply' = [to |-> to, handle |-> i, object |-> ro]
            /\ borrowed' = IF objlist' = objlist THEN borrowed ELSE borrowed \cup {ro}
       ELSE /\ reply' = NoReply
            /\ UNCHANGED <<objlist, borrowed>>
    /\ UNCHANGED <<object, port, port_list, processes>>

(* DeleteProcess drops every handle of the table. *)
DeleteProcess(p) ==
    /\ objlist' = [objlist EXCEPT ![p] = [i \in Slot |-> NullPointer]]
    /\ DeleteObjects([o \in ObjCells |-> DeleteObject(o, Cardinality(AlreadyHas(p, o)))])
    /\ processes' = processes \ {p}
    /\ reply' = NoReply

(* A handle to freed memory: what a use of it does is beyond this module,  *)
(* and a behaviour that has got there goes no further.                     *)
Dangling == \E p \in processes, h \in Slot : Target(p, h) # NullPointer /\ object[Target(p, h)] = NullPointer

Next ==
    ~ Dangling /\ \E p \in processes :
        \/ \E name \in PortNames \cup {NullPointer} : DWCreateObject(p, "OBJ_PORT", name)
        \/ DWCreateObject(p, "OBJ_OTHER", NullPointer)
        \/ \E h \in Slot : PortCreate(p, h)
        \/ \E h \in Slot, name \in PortNames : PortOpen(p, h, name)
        \/ \E h \in Slot : DWDeleteObject(p, h)
        \/ \E of \in Processes, h \in Slot, ok \in BOOLEAN :
              DWTranslateHandle(p, of, h, ok)
        \/ \E h, r \in Slot : SendWithReply(p, h, r)
        \/ DeleteProcess(p)

Spec == Init /\ [][Next]_vars

-----------------------------------------------------------------------------
(* "avoid a use after free if the original process tries to delete this    *)
(* object" (_DWTranslateHandle): an object with a handle anywhere is       *)
(* allocated, and its count covers all handles, so that the last deletion  *)
(* and no earlier one frees it.  Objects that were sent as reply ports are *)
(* left out: _DWIPCSend counts no handle for the receiver.  Nor has a      *)
(* process a second handle to any other object ("avoid duplication").      *)
HandlesLive ==
    /\ \A o \in ObjCells \ borrowed :
          Handles(o) # {} => /\ object[o] # NullPointer
                             /\ object[o].refcnt >= Cardinality(Handles(o))
    /\ \A p \in Processes, i, j \in Slot :
          (i # j /\ objlist[p][i] # NullPointer /\ objlist[p][i] = objlist[p][j])
              => objlist[p][i] \in borrowed

(* The list of global ports holds allocated ports only, under different    *)
(* names: FindPortByName has one answer.                                   *)
NamesUnique ==
    \A c, d \in port_list :
        /\ port[c] # NullPointer
        /\ port[c].name = port[d].name => c = d

(* A reply port that goes with a message is in the table of the process    *)
(* that gets it, or the handle is -1 and that table is full.               *)
ReplyPortReachable ==
    (reply.object # NullPointer /\ IsPort(reply.object)) =>
        IF reply.handle = -1
        THEN \A i \in Slot : objlist[reply.to][i] # NullPointer
        ELSE objlist[reply.to][reply.handle] = reply.object
=============================================================================
