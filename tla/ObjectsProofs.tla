--------------------------- MODULE ObjectsProofs ---------------------------
(***************************************************************************)
(* Handles, named ports and reply ports for any finite number of processes *)
(* and any size of their tables, of the pools and of the name space.       *)
(***************************************************************************)
EXTENDS Objects, FiniteSetTheorems, WellFoundedInduction, TLAPS

ObjectsTypeOK ==
    /\ objlist \in [Processes -> [Slot -> ObjCells \cup {NullPointer}]]
    /\ object \in [ObjCells -> KernelObject \cup {NullPointer}]
    /\ port \in [PortCells -> Port \cup {NullPointer}]
    /\ port_list \in SUBSET PortCells
    /\ processes \in SUBSET Processes
    /\ borrowed \in SUBSET ObjCells

(* The count of object o covers the handles that lead to it. *)
Covered(o) ==
    Handles(o) # {} => /\ object[o] # NullPointer
                       /\ object[o].refcnt >= Cardinality(Handles(o))

(* Only an object that was sent as a reply port has two handles in a table. *)
NoDuplication ==
    \A p \in Processes, i, j \in Slot :
        (i # j /\ objlist[p][i] # NullPointer /\ objlist[p][i] = objlist[p][j])
            => objlist[p][i] \in borrowed

ObjectsIInv == ObjectsTypeOK /\ NamesUnique /\ HandlesLive

-----------------------------------------------------------------------------
(* Slots *)

LEMMA MinOfSlots ==
  ASSUME NEW S, S \subseteq Slot, S # {}
  PROVE  Min(S) \in S
<1> DEFINE R == OpToRel(<, Nat)
<1>1. S \subseteq Nat
  BY ObjectsAssumption DEF Slot
<1>2. PICK m \in S : \A n \in S : ~(<<n, m>> \in R)
  <2>1. IsWellFoundedOn(R, Nat)
    BY NatLessThanWellFounded
  <2> HIDE DEF R
  <2> QED
    BY <1>1, <2>1, WFMin
<1>3. ASSUME NEW n \in S PROVE m <= n
  <2>1. m \in Nat /\ n \in Nat
    BY <1>1
  <2>2. n < m => <<n, m>> \in R
    BY <2>1 DEF OpToRel
  <2>3. ~(n < m)
    BY <1>2, <2>2
  <2> QED
    BY <2>1, <2>3
<1> QED
  BY <1>3 DEF Min

LEMMA FreeSlotFound ==
  ASSUME NEW table
  PROVE  \/ FreeSlot(table) = -1 /\ \A i \in Slot : table[i] # NullPointer
         \/ FreeSlot(table) \in Slot /\ table[FreeSlot(table)] = NullPointer
<1> DEFINE free == {i \in Slot : table[i] = NullPointer}
<1>1. FreeSlot(table) = IF free = {} THEN -1 ELSE Min(free)
  BY DEF FreeSlot
<1>2. free # {} => Min(free) \in free
  <2>1. free \subseteq Slot
    OBVIOUS
  <2> HIDE DEF free
  <2> QED
    BY <2>1, MinOfSlots
<1> QED
  BY <1>1, <1>2

LEMMA SlotFacts == (-1 \notin Slot) /\ Slot \subseteq Nat /\ IsFiniteSet(Slot)
<1>1. MAX_OBJ_PER_PROCESS - 1 \in Int
  BY ObjectsAssumption
<1>2. IsFiniteSet(0 .. MAX_OBJ_PER_PROCESS - 1)
  BY <1>1, FS_Interval
<1> QED
  BY <1>1, <1>2, ObjectsAssumption DEF Slot

LEMMA HandlesAreFinite ==
  ASSUME NEW o
  PROVE  /\ IsFiniteSet(Handles(o)) /\ Cardinality(Handles(o)) \in Nat
         /\ IsFiniteSet(Handles(o)') /\ Cardinality(Handles(o)') \in Nat
<1>1. IsFiniteSet(Processes \X Slot)
  BY SlotFacts, ObjectsAssumption, FS_Product
<1>2. Handles(o) \in SUBSET (Processes \X Slot) /\ Handles(o)' \in SUBSET (Processes \X Slot)
  BY DEF Handles
<1>3. IsFiniteSet(Handles(o)) /\ IsFiniteSet(Handles(o)')
  BY <1>1, <1>2, FS_Subset
<1> QED
  BY <1>3, FS_CardinalityType

-----------------------------------------------------------------------------
(* What a change of one slot does to the handles. *)

LEMMA SlotSet ==
  ASSUME ObjectsTypeOK, NEW p \in Processes, NEW i \in Slot,
         NEW v \in ObjCells \cup {NullPointer}, objlist' = [objlist EXCEPT ![p][i] = v]
  PROVE  /\ objlist' \in [Processes -> [Slot -> ObjCells \cup {NullPointer}]]
         /\ \A q \in Processes, j \in Slot :
               objlist'[q][j] = IF q = p /\ j = i THEN v ELSE objlist[q][j]
  BY DEF ObjectsTypeOK

LEMMA HandlesMeaning ==
  ASSUME NEW o, NEW q \in Processes, NEW j \in Slot
  PROVE  /\ <<q, j>> \in Handles(o) <=> objlist[q][j] = o
         /\ <<q, j>> \in Handles(o)' <=> objlist'[q][j] = o
  BY DEF Handles

LEMMA HandlesEqual ==
  ASSUME NEW o, NEW S, S \subseteq Processes \X Slot,
         \A q \in Processes, j \in Slot : objlist'[q][j] = o <=> <<q, j>> \in S
  PROVE  Handles(o)' = S
  BY DEF Handles

LEMMA HandlesElsewhere ==
  ASSUME ObjectsTypeOK, NEW p \in Processes, NEW i \in Slot,
         NEW v \in ObjCells \cup {NullPointer}, objlist' = [objlist EXCEPT ![p][i] = v],
         NEW o, o # v, o # objlist[p][i]
  PROVE  Handles(o)' = Handles(o)
<1>1. ASSUME NEW q \in Processes, NEW j \in Slot
      PROVE  objlist'[q][j] = o <=> <<q, j>> \in Handles(o)
  <2>1. objlist'[q][j] = IF q = p /\ j = i THEN v ELSE objlist[q][j]
    BY SlotSet
  <2>2. <<q, j>> \in Handles(o) <=> objlist[q][j] = o
    BY HandlesMeaning
  <2> QED
    BY <2>1, <2>2
<1>2. Handles(o) \subseteq Processes \X Slot
  BY DEF Handles
<1> QED
  BY <1>1, <1>2, HandlesEqual

LEMMA HandleAdded ==
  ASSUME ObjectsTypeOK, NEW p \in Processes, NEW i \in Slot, NEW o \in ObjCells,
         objlist[p][i] # o, objlist' = [objlist EXCEPT ![p][i] = o]
  PROVE  Cardinality(Handles(o)') = Cardinality(Handles(o)) + 1
<1>1. ASSUME NEW q \in Processes, NEW j \in Slot
      PROVE  objlist'[q][j] = o <=> <<q, j>> \in Handles(o) \cup {<<p, i>>}
  <2>1. objlist'[q][j] = IF q = p /\ j = i THEN o ELSE objlist[q][j]
    BY SlotSet
  <2>2. <<q, j>> \in Handles(o) <=> objlist[q][j] = o
    BY HandlesMeaning
  <2> QED
    BY <2>1, <2>2
<1>2. Handles(o) \cup {<<p, i>>} \subseteq Processes \X Slot
  BY DEF Handles
<1>3. Handles(o)' = Handles(o) \cup {<<p, i>>}
  BY <1>1, <1>2, HandlesEqual
<1>4. <<p, i>> \notin Handles(o)
  BY HandlesMeaning
<1> QED
  BY <1>3, <1>4, HandlesAreFinite, FS_AddElement

LEMMA HandleDropped ==
  ASSUME ObjectsTypeOK, NEW p \in Processes, NEW i \in Slot, NEW o \in ObjCells,
         <<p, i>> \in Handles(o), objlist' = [objlist EXCEPT ![p][i] = NullPointer]
  PROVE  Cardinality(Handles(o)') = Cardinality(Handles(o)) - 1
<1>1. o # NullPointer
  BY ObjectsAssumption
<1>2. ASSUME NEW q \in Processes, NEW j \in Slot
      PROVE  objlist'[q][j] = o <=> <<q, j>> \in Handles(o) \ {<<p, i>>}
  <2>1. objlist'[q][j] = IF q = p /\ j = i THEN NullPointer ELSE objlist[q][j]
    BY SlotSet
  <2>2. <<q, j>> \in Handles(o) <=> objlist[q][j] = o
    BY HandlesMeaning
  <2> QED
    BY <1>1, <2>1, <2>2
<1>3. Handles(o) \ {<<p, i>>} \subseteq Processes \X Slot
  BY DEF Handles
<1>4. Handles(o)' = Handles(o) \ {<<p, i>>}
  BY <1>2, <1>3, HandlesEqual
<1> QED
  BY <1>4, HandlesAreFinite, FS_RemoveElement

(* No handle leads to memory that was freed, in a step that is taken. *)
LEMMA TargetIsThere ==
  ASSUME ObjectsTypeOK, ~Dangling, NEW p \in processes, NEW h \in Slot,
         Target(p, h) # NullPointer
  PROVE  /\ p \in Processes /\ Target(p, h) = objlist[p][h]
         /\ Target(p, h) \in ObjCells /\ object[Target(p, h)] \in KernelObject
         /\ object[Target(p, h)] # NullPointer
<1>1. p \in Processes /\ Target(p, h) = objlist[p][h] /\ Target(p, h) \in ObjCells
  BY DEF ObjectsTypeOK, Target
<1>2. object[Target(p, h)] # NullPointer
  BY DEF Dangling
<1> QED
  BY <1>1, <1>2 DEF ObjectsTypeOK

LEMMA NullIsNoObject ==
  /\ \A r \in KernelObject \cup Port \cup ObjCells \cup PortCells : r # NullPointer
  BY ObjectsAssumption

LEMMA HandlesLiveParts ==
  /\ HandlesLive <=> NoDuplication /\ \A o \in ObjCells \ borrowed : Covered(o)
  /\ HandlesLive' <=> NoDuplication' /\ \A o \in ObjCells \ borrowed' : Covered(o)'
  BY DEF HandlesLive, NoDuplication, Covered

LEMMA DuplicatesWhenAdded ==
  ASSUME ObjectsTypeOK, NoDuplication, NEW p \in Processes, NEW i \in Slot, NEW o \in ObjCells,
         objlist' = [objlist EXCEPT ![p][i] = o], borrowed \subseteq borrowed',
         \A j \in Slot : j # i /\ objlist[p][j] = o => o \in borrowed'
  PROVE  NoDuplication'
<1> SUFFICES ASSUME NEW q \in Processes, NEW j \in Slot, NEW k \in Slot, j # k,
                    objlist'[q][j] # NullPointer, objlist'[q][j] = objlist'[q][k]
             PROVE  objlist'[q][j] \in borrowed'
  BY DEF NoDuplication
<1>1. /\ objlist'[q][j] = IF q = p /\ j = i THEN o ELSE objlist[q][j]
      /\ objlist'[q][k] = IF q = p /\ k = i THEN o ELSE objlist[q][k]
  BY SlotSet
<1> QED
  BY <1>1 DEF NoDuplication

LEMMA DuplicatesWhenDropped ==
  ASSUME ObjectsTypeOK, NoDuplication, NEW p \in Processes, NEW i \in Slot,
         objlist' = [objlist EXCEPT ![p][i] = NullPointer],
         \A o \in borrowed : Handles(o)' # {} => o \in borrowed'
  PROVE  NoDuplication'
<1> SUFFICES ASSUME NEW q \in Processes, NEW j \in Slot, NEW k \in Slot, j # k,
                    objlist'[q][j] # NullPointer, objlist'[q][j] = objlist'[q][k]
             PROVE  objlist'[q][j] \in borrowed'
  BY DEF NoDuplication
<1>1. /\ objlist'[q][j] = IF q = p /\ j = i THEN NullPointer ELSE objlist[q][j]
      /\ objlist'[q][k] = IF q = p /\ k = i THEN NullPointer ELSE objlist[q][k]
  BY SlotSet
<1>2. objlist'[q][j] = objlist[q][j] /\ objlist[q][j] \in borrowed
  BY <1>1 DEF NoDuplication
<1>3. PICK o : o = objlist'[q][j]
  OBVIOUS
<1>4. <<q, j>> \in Handles(o)'
  BY <1>3, HandlesMeaning
<1> QED
  BY <1>2, <1>3, <1>4

(* No handle moves and no count goes down. *)
LEMMA CountsKept ==
  ASSUME ObjectsTypeOK, HandlesLive, UNCHANGED <<objlist, borrowed>>,
         \A o \in ObjCells : object[o] # NullPointer =>
            /\ object'[o] # NullPointer
            /\ object'[o].refcnt \in Nat /\ object'[o].refcnt >= object[o].refcnt
  PROVE  HandlesLive'
<1>1. NoDuplication'
  BY HandlesLiveParts DEF NoDuplication
<1>2. ASSUME NEW o \in ObjCells \ borrowed PROVE Covered(o)'
  <2>1. Handles(o)' = Handles(o)
    BY DEF Handles
  <2>2. ASSUME Handles(o) # {}
        PROVE  object'[o] # NullPointer /\ object'[o].refcnt >= Cardinality(Handles(o))
    <3>1. object[o] # NullPointer /\ object[o].refcnt >= Cardinality(Handles(o))
      BY <2>2, HandlesLiveParts DEF Covered
    <3>2. object[o] \in KernelObject
      BY <3>1 DEF ObjectsTypeOK
    <3>3. object[o].refcnt \in Nat /\ Cardinality(Handles(o)) \in Nat
      BY <3>2, HandlesAreFinite DEF KernelObject
    <3> QED
      BY <3>1, <3>3
  <2> QED
    BY <2>1, <2>2 DEF Covered
<1> QED
  BY <1>1, <1>2, HandlesLiveParts

-----------------------------------------------------------------------------
(* One lemma for each action *)

LEMMA DWCreateObjectKeeps ==
  ASSUME ObjectsIInv, NEW p \in processes, NEW type \in {"OBJ_PORT", "OBJ_OTHER"},
         NEW name \in PortNames \cup {NullPointer}, DWCreateObject(p, type, name)
  PROVE  ObjectsIInv'
<1> USE DEF ObjectsIInv
<1>a. PICK o \in ObjCells :
         /\ object[o] = NullPointer
         /\ LET i == FreeSlot(objlist[p]) IN
              /\ object' = [object EXCEPT ![o] =
                    [type |-> type, name |-> name, data |-> NullPointer, refcnt |-> 1]]
              /\ objlist' = IF i = -1 THEN objlist ELSE [objlist EXCEPT ![p][i] = o]
  BY DEF DWCreateObject
<1>1. PICK i, new :
         /\ i = FreeSlot(objlist[p]) /\ object[o] = NullPointer
         /\ new = [type |-> type, name |-> name, data |-> NullPointer, refcnt |-> 1]
         /\ object' = [object EXCEPT ![o] = new]
         /\ objlist' = IF i = -1 THEN objlist ELSE [objlist EXCEPT ![p][i] = o]
  BY <1>a
<1>2. UNCHANGED <<port, port_list, processes, borrowed>>
  BY DEF DWCreateObject
<1>3. new \in KernelObject /\ new.refcnt = 1
  BY <1>1 DEF KernelObject
<1>4. p \in Processes
  BY DEF ObjectsTypeOK
<1>5. i # -1 => i \in Slot /\ objlist[p][i] = NullPointer
  BY <1>1, FreeSlotFound
<1>6. objlist' \in [Processes -> [Slot -> ObjCells \cup {NullPointer}]]
  BY <1>1, <1>4, <1>5, SlotSet DEF ObjectsTypeOK
<1>7. object' \in [ObjCells -> KernelObject \cup {NullPointer}]
  BY <1>1, <1>3 DEF ObjectsTypeOK
<1>8. ObjectsTypeOK'
  BY <1>2, <1>6, <1>7 DEF ObjectsTypeOK
<1>9. NamesUnique'
  BY <1>2 DEF NamesUnique
<1>10. o \notin borrowed => Handles(o) = {}
  BY <1>1, HandlesLiveParts DEF Covered
<1>11. ASSUME NEW x \in ObjCells \ borrowed' PROVE Covered(x)'
  <2>1. CASE x # o
    <3>1. object'[x] = object[x]
      BY <1>1, <2>1 DEF ObjectsTypeOK
    <3>2. Handles(x)' = Handles(x)
      <4>1. CASE i = -1
        BY <1>1, <4>1 DEF Handles
      <4>2. CASE i # -1
        <5>1. x # NullPointer
          BY NullIsNoObject
        <5>2. i \in Slot /\ objlist' = [objlist EXCEPT ![p][i] = o] /\ x # objlist[p][i]
          BY <1>1, <1>5, <4>2, <5>1
        <5> QED
          BY <1>4, <2>1, <5>2, HandlesElsewhere
      <4> QED
        BY <4>1, <4>2
    <3> QED
      BY <1>2, <3>1, <3>2, HandlesLiveParts DEF Covered
  <2>2. CASE x = o
    <3>1. Handles(o) = {} /\ Cardinality(Handles(o)) = 0
      BY <1>2, <1>10, <2>2, FS_EmptySet
    <3>2. object'[o] = new /\ new # NullPointer
      BY <1>1, <1>3, NullIsNoObject DEF ObjectsTypeOK
    <3>3. Cardinality(Handles(o)') <= 1
      <4>1. CASE i = -1
        <5>1. Handles(o)' = Handles(o)
          BY <1>1, <4>1 DEF Handles
        <5> QED
          BY <3>1, <5>1
      <4>2. CASE i # -1
        <5>1. objlist[p][i] # o /\ objlist' = [objlist EXCEPT ![p][i] = o] /\ i \in Slot
          BY <1>1, <1>5, <4>2, NullIsNoObject
        <5>2. Cardinality(Handles(o)') = Cardinality(Handles(o)) + 1
          BY <1>4, <5>1, HandleAdded
        <5> QED
          BY <3>1, <5>2
      <4> QED
        BY <4>1, <4>2
    <3>4. Cardinality(Handles(o)') \in Nat
      BY HandlesAreFinite
    <3> QED
      BY <1>3, <2>2, <3>2, <3>3, <3>4 DEF Covered
  <2> QED
    BY <2>1, <2>2
<1>12. NoDuplication'
  <2>1. NoDuplication
    BY HandlesLiveParts
  <2>2. CASE i = -1
    BY <1>1, <1>2, <2>1, <2>2 DEF NoDuplication
  <2>3. CASE i # -1
    <3>1. \A j \in Slot : objlist[p][j] = o => o \in borrowed
      BY <1>4, <1>10, HandlesMeaning
    <3>2. i \in Slot /\ objlist' = [objlist EXCEPT ![p][i] = o] /\ borrowed' = borrowed
      BY <1>1, <1>2, <1>5, <2>3
    <3>3. /\ borrowed \subseteq borrowed'
          /\ \A j \in Slot : j # i /\ objlist[p][j] = o => o \in borrowed'
      BY <3>1, <3>2
    <3> QED
      BY <1>4, <2>1, <3>2, <3>3, DuplicatesWhenAdded
  <2> QED
    BY <2>2, <2>3
<1> QED
  BY <1>8, <1>9, <1>11, <1>12, HandlesLiveParts

LEMMA NameIsNew ==
  ASSUME ObjectsTypeOK, NEW name, FindPortByName(name) = NullPointer
  PROVE  \A c \in port_list : port[c].name # name
<1> DEFINE found == {c \in port_list : port[c].name = name}
<1>1. found # {} => (CHOOSE c \in found : TRUE) \in PortCells
  BY DEF ObjectsTypeOK
<1>2. found = {}
  BY <1>1, NullIsNoObject DEF FindPortByName
<1> QED
  BY <1>2

LEMMA PortIsFound ==
  ASSUME ObjectsTypeOK, NEW name, FindPortByName(name) # NullPointer
  PROVE  FindPortByName(name) \in PortCells
<1> DEFINE found == {c \in port_list : port[c].name = name}
<1>1. found # {} => (CHOOSE c \in found : TRUE) \in PortCells
  BY DEF ObjectsTypeOK
<1> QED
  BY <1>1 DEF FindPortByName

LEMMA PortCreateKeeps ==
  ASSUME ObjectsIInv, ~Dangling, NEW p \in processes, NEW h \in Slot, PortCreate(p, h)
  PROVE  ObjectsIInv'
<1> USE DEF ObjectsIInv
<1>1. PICK o : o = Target(p, h)
  OBVIOUS
<1>2. /\ p \in Processes /\ o \in ObjCells /\ object[o] \in KernelObject /\ object[o] # NullPointer
  BY <1>1, TargetIsThere DEF PortCreate, IsPort
<1>3. PICK c \in PortCells, name \in NameRead(o) :
         /\ name # NullPointer => FindPortByName(name) = NullPointer
         /\ NewPort(p, o, name, c)
  BY <1>1 DEF PortCreate
<1>4. UNCHANGED <<objlist, processes, borrowed>>
  BY DEF PortCreate
<1>5. name \in PortNames \cup {NullPointer}
  BY <1>2, <1>3 DEF NameRead, KernelObject
<1>6. PICK new \in Port : new = [name |-> name, owner |-> p]
  BY <1>2, <1>5 DEF Port
<1>7. /\ port[c] = NullPointer /\ port' = [port EXCEPT ![c] = new]
      /\ object' = object \/ object' = [object EXCEPT ![o].data = c]
      /\ \/ port_list' = port_list
         \/ port_list' = port_list \cup {c} /\ name # NullPointer
  BY <1>3, <1>6 DEF NewPort
<1>8. object' \in [ObjCells -> KernelObject \cup {NullPointer}]
  <2>1. [object[o] EXCEPT !.data = c] \in KernelObject
    BY <1>2, <1>3 DEF KernelObject
  <2> QED
    BY <1>2, <1>7, <2>1 DEF ObjectsTypeOK
<1>9. ObjectsTypeOK'
  BY <1>3, <1>4, <1>6, <1>7, <1>8 DEF ObjectsTypeOK
<1>10. NamesUnique'
  <2>1. c \notin port_list
    BY <1>7 DEF NamesUnique
  <2>2. \A d \in port_list : d \in PortCells /\ d # c /\ port'[d] = port[d]
    BY <1>7, <2>1 DEF ObjectsTypeOK
  <2>3. port'[c] = new /\ new # NullPointer /\ new.name = name
    BY <1>3, <1>6, <1>7, NullIsNoObject DEF ObjectsTypeOK
  <2>4. CASE port_list' = port_list
    BY <2>2, <2>4 DEF NamesUnique
  <2>5. CASE port_list' = port_list \cup {c} /\ name # NullPointer
    <3>1. \A d \in port_list : port[d].name # name
      BY <1>3, <2>5, NameIsNew
    <3> QED
      BY <2>2, <2>3, <2>5, <3>1 DEF NamesUnique
  <2> QED
    BY <1>7, <2>4, <2>5
<1>11. ASSUME NEW x \in ObjCells, object[x] # NullPointer
       PROVE  /\ object'[x] # NullPointer
              /\ object'[x].refcnt \in Nat /\ object'[x].refcnt >= object[x].refcnt
  <2>1. object[x] \in KernelObject /\ object[x].refcnt \in Nat
    BY <1>11 DEF ObjectsTypeOK, KernelObject
  <2>2. CASE object'[x] = object[x]
    BY <1>11, <2>1, <2>2
  <2>3. CASE object'[x] = [object[x] EXCEPT !.data = c]
    <3>1. object'[x] \in KernelObject /\ object'[x].refcnt = object[x].refcnt
      BY <1>3, <2>1, <2>3 DEF KernelObject
    <3> QED
      BY <2>1, <3>1, NullIsNoObject
  <2>4. object'[x] = object[x] \/ object'[x] = [object[x] EXCEPT !.data = c]
    BY <1>7 DEF ObjectsTypeOK
  <2> QED
    BY <2>2, <2>3, <2>4
<1>12. HandlesLive'
  BY <1>4, <1>11, CountsKept
<1> QED
  BY <1>9, <1>10, <1>12

LEMMA PortOpenKeeps ==
  ASSUME ObjectsIInv, ~Dangling, NEW p \in processes, NEW h \in Slot, NEW name \in PortNames,
         PortOpen(p, h, name)
  PROVE  ObjectsIInv'
<1> USE DEF ObjectsIInv
<1>1. PICK o, c : o = Target(p, h) /\ c = FindPortByName(name)
  OBVIOUS
<1>2. /\ o \in ObjCells /\ object[o] \in KernelObject /\ object[o] # NullPointer
  BY <1>1, TargetIsThere DEF PortOpen, IsPort
<1>3. c \in PortCells
  BY <1>1, PortIsFound DEF PortOpen
<1>4. PICK new : new = [object[o] EXCEPT !.data = c, !.refcnt = @ + 1]
  OBVIOUS
<1>5. object[o].refcnt \in Nat
  BY <1>2 DEF KernelObject
<1>6. new \in KernelObject /\ new.refcnt = object[o].refcnt + 1
  <2>1. PICK ob, n : ob = object[o] /\ n = ob.refcnt + 1 /\ n \in Nat
    BY <1>5
  <2>2. ob \in KernelObject /\ new = [ob EXCEPT !.data = c, !.refcnt = n]
    BY <1>2, <1>4, <2>1
  <2>3. new = [type |-> ob.type, name |-> ob.name, data |-> c, refcnt |-> n]
    BY <2>2 DEF KernelObject
  <2>4. new \in KernelObject /\ new.refcnt = n
    BY <1>3, <2>1, <2>2, <2>3 DEF KernelObject
  <2> QED
    BY <2>1, <2>4
<1>7. /\ object' = [object EXCEPT ![o] = new]
      /\ UNCHANGED <<objlist, port, port_list, processes, borrowed>>
  <2>1. object' = [object EXCEPT ![o].data = c, ![o].refcnt = @ + 1]
    BY <1>1 DEF PortOpen
  <2> QED
    BY <1>2, <1>4, <2>1 DEF PortOpen, ObjectsTypeOK
<1>8. ObjectsTypeOK'
  BY <1>2, <1>6, <1>7 DEF ObjectsTypeOK
<1>9. NamesUnique'
  BY <1>7 DEF NamesUnique
<1>10. ASSUME NEW x \in ObjCells, object[x] # NullPointer
       PROVE  /\ object'[x] # NullPointer
              /\ object'[x].refcnt \in Nat /\ object'[x].refcnt >= object[x].refcnt
  <2>1. object[x].refcnt \in Nat
    BY <1>10 DEF ObjectsTypeOK, KernelObject
  <2>2. object'[x] = IF x = o THEN new ELSE object[x]
    BY <1>7 DEF ObjectsTypeOK
  <2>3. new # NullPointer
    BY <1>6, NullIsNoObject
  <2> QED
    BY <1>6, <1>10, <2>1, <2>2, <2>3
<1>11. HandlesLive'
  BY <1>7, <1>10, CountsKept
<1> QED
  BY <1>8, <1>9, <1>11

(* Freed ports leave the list. *)
LEMMA DeleteObjectsKeeps ==
  ASSUME ObjectsTypeOK, NamesUnique, NEW left \in [ObjCells -> KernelObject \cup {NullPointer}],
         DeleteObjects(left)
  PROVE  /\ object' = left
         /\ port' \in [PortCells -> Port \cup {NullPointer}]
         /\ port_list' \in SUBSET PortCells
         /\ borrowed' \in SUBSET ObjCells
         /\ NamesUnique'
         /\ \A o \in borrowed : Handles(o)' # {} => o \in borrowed'
         /\ \A o \in borrowed : o \notin borrowed' => Handles(o)' = {}
         /\ borrowed' \subseteq borrowed
<1>1. PICK gone : gone = PortsBehind(left)
  OBVIOUS
<1>2. /\ object' = left
      /\ port' = [c \in PortCells |-> IF c \in gone THEN NullPointer ELSE port[c]]
      /\ port_list' = port_list \ gone
      /\ borrowed' = {o \in borrowed : left[o] # NullPointer \/ Handles(o)' # {}}
  BY <1>1 DEF DeleteObjects
<1>3. NamesUnique'
  <2>1. \A c \in port_list' : c \in port_list /\ port'[c] = port[c]
    BY <1>2 DEF ObjectsTypeOK
  <2> QED
    BY <2>1 DEF NamesUnique
<1>4. port' \in [PortCells -> Port \cup {NullPointer}]
  BY <1>2 DEF ObjectsTypeOK
<1>5. port_list' \in SUBSET PortCells /\ borrowed' \in SUBSET ObjCells
  BY <1>2 DEF ObjectsTypeOK
<1> QED
  BY <1>2, <1>3, <1>4, <1>5

LEMMA DeleteObjectResult ==
  ASSUME ObjectsTypeOK, NEW o \in ObjCells, NEW n \in Nat
  PROVE  /\ DeleteObject(o, n) \in KernelObject \cup {NullPointer}
         /\ n = 0 => DeleteObject(o, n) = object[o]
         /\ n # 0 /\ object[o] # NullPointer /\ object[o].refcnt > n =>
               /\ DeleteObject(o, n) \in KernelObject
               /\ DeleteObject(o, n).refcnt = object[o].refcnt - n
         /\ n # 0 /\ object[o] # NullPointer /\ ~(object[o].refcnt > n) =>
               DeleteObject(o, n) = NullPointer
<1>1. object[o] \in KernelObject \cup {NullPointer}
  BY DEF ObjectsTypeOK
<1>2. CASE n = 0 \/ object[o] = NullPointer
  BY <1>1, <1>2 DEF DeleteObject
<1>3. CASE n # 0 /\ object[o] # NullPointer
  <2>1. PICK ob \in KernelObject : ob = object[o] /\ ob.refcnt \in Nat
    BY <1>1, <1>3 DEF KernelObject
  <2>2. CASE ob.refcnt > n
    <3>1. PICK k \in Nat : k = ob.refcnt - n
      BY <2>1, <2>2
    <3>2. DeleteObject(o, n) = [ob EXCEPT !.refcnt = k]
      BY <1>3, <2>1, <2>2, <3>1 DEF DeleteObject
    <3>3. [ob EXCEPT !.refcnt = k] \in KernelObject /\ [ob EXCEPT !.refcnt = k].refcnt = k
      BY DEF KernelObject
    <3> QED
      BY <1>3, <2>1, <2>2, <3>1, <3>2, <3>3
  <2>3. CASE ~(ob.refcnt > n)
    BY <1>3, <2>1, <2>3 DEF DeleteObject
  <2> QED
    BY <2>2, <2>3
<1> QED
  BY <1>2, <1>3

(* A handle goes, and with it one count or, if there is no more, the object. *)
LEMMA DroppedIsCovered ==
  ASSUME NEW o \in ObjCells, object[o] \in KernelObject, Covered(o), Handles(o) # {},
         Cardinality(Handles(o)') = Cardinality(Handles(o)) - 1,
         \/ object[o].refcnt > 1 /\ object'[o] \in KernelObject
                                /\ object'[o].refcnt = object[o].refcnt - 1
         \/ ~(object[o].refcnt > 1)
  PROVE  Covered(o)'
<1>1. object[o].refcnt \in Nat /\ Cardinality(Handles(o)) \in Nat /\ Cardinality(Handles(o)') \in Nat
  BY HandlesAreFinite DEF KernelObject
<1>2. object[o].refcnt >= Cardinality(Handles(o))
  BY DEF Covered
<1>3. CASE /\ object[o].refcnt > 1 /\ object'[o] \in KernelObject
           /\ object'[o].refcnt = object[o].refcnt - 1
  <2>1. object'[o] # NullPointer
    BY <1>3, NullIsNoObject
  <2>2. object'[o].refcnt >= Cardinality(Handles(o)')
    BY <1>1, <1>2, <1>3
  <2> QED
    BY <2>1, <2>2 DEF Covered
<1>4. CASE ~(object[o].refcnt > 1)
  <2>1. Cardinality(Handles(o)') = 0
    BY <1>1, <1>2, <1>4
  <2>2. Handles(o)' = {}
    BY <2>1, HandlesAreFinite, FS_EmptySet
  <2> QED
    BY <2>2 DEF Covered
<1> QED
  BY <1>3, <1>4

LEMMA DWDeleteObjectKeeps ==
  ASSUME ObjectsIInv, ~Dangling, NEW p \in processes, NEW h \in Slot, DWDeleteObject(p, h)
  PROVE  ObjectsIInv'
<1> USE DEF ObjectsIInv
<1>1. PICK o : o = Target(p, h)
  OBVIOUS
<1>2. /\ p \in Processes /\ o \in ObjCells /\ o = objlist[p][h]
      /\ object[o] \in KernelObject /\ object[o] # NullPointer
  BY <1>1, TargetIsThere DEF DWDeleteObject
<1>3. PICK rest, name : /\ name = IF object[o].name = NullPointer THEN NullPointer ELSE Freed
                        /\ rest = DeleteObject(o, 1)
  OBVIOUS
<1>4. PICK last : last = IF rest = NullPointer THEN NullPointer ELSE [rest EXCEPT !.name = name]
  OBVIOUS
<1>5. PICK left : left = [object EXCEPT ![o] = last]
  OBVIOUS
<1>6. DeleteObjects(left)
  BY <1>1, <1>3, <1>4, <1>5 DEF DWDeleteObject
<1>7. /\ object[o].refcnt > 1 => last \in KernelObject /\ last.refcnt = object[o].refcnt - 1
      /\ last \in KernelObject \cup {NullPointer}
  <2>1. /\ rest \in KernelObject \cup {NullPointer}
        /\ object[o].refcnt > 1 => rest \in KernelObject /\ rest.refcnt = object[o].refcnt - 1
        /\ ~(object[o].refcnt > 1) => rest = NullPointer
    BY <1>2, <1>3, DeleteObjectResult
  <2>2. ASSUME rest \in KernelObject
        PROVE  [rest EXCEPT !.name = name] \in KernelObject /\ [rest EXCEPT !.name = name].refcnt = rest.refcnt
    <3>1. name \in PortNames \cup {Freed, NullPointer}
      BY <1>3
    <3> QED
      BY <2>2, <3>1 DEF KernelObject
  <2> QED
    BY <1>4, <2>1, <2>2, NullIsNoObject
<1>8. left \in [ObjCells -> KernelObject \cup {NullPointer}]
  BY <1>2, <1>5, <1>7 DEF ObjectsTypeOK
<1>9. /\ object' = left
      /\ port' \in [PortCells -> Port \cup {NullPointer}]
      /\ port_list' \in SUBSET PortCells
      /\ borrowed' \in SUBSET ObjCells
      /\ NamesUnique'
      /\ \A x \in borrowed : Handles(x)' # {} => x \in borrowed'
  BY <1>6, <1>8, DeleteObjectsKeeps
<1>10. objlist' = [objlist EXCEPT ![p][h] = NullPointer] /\ processes' = processes
  BY DEF DWDeleteObject
<1>11. ObjectsTypeOK'
  BY <1>2, <1>8, <1>9, <1>10, SlotSet DEF ObjectsTypeOK
<1>12. NoDuplication /\ \A x \in ObjCells \ borrowed : Covered(x)
  BY HandlesLiveParts
<1>13. NoDuplication'
  BY <1>2, <1>9, <1>10, <1>12, DuplicatesWhenDropped
<1>14. ASSUME NEW x \in ObjCells \ borrowed' PROVE Covered(x)'
  <2>1. CASE x \in borrowed
    BY <1>9, <2>1 DEF Covered
  <2>2. CASE x \notin borrowed /\ x # o
    <3>1. x # NullPointer /\ x # objlist[p][h]
      BY <1>2, <2>2, NullIsNoObject
    <3>2. Handles(x)' = Handles(x)
      BY <1>2, <1>10, <3>1, HandlesElsewhere
    <3>3. object'[x] = object[x]
      BY <1>5, <1>9, <2>2 DEF ObjectsTypeOK
    <3> QED
      BY <1>12, <2>2, <3>2, <3>3 DEF Covered
  <2>3. CASE x \notin borrowed /\ x = o
    <3>1. <<p, h>> \in Handles(o)
      BY <1>2, HandlesMeaning
    <3>2. Cardinality(Handles(o)') = Cardinality(Handles(o)) - 1
      BY <1>2, <1>10, <3>1, HandleDropped
    <3>3. object'[o] = last
      BY <1>2, <1>5, <1>9 DEF ObjectsTypeOK
    <3>4. Covered(o)
      BY <1>2, <1>12, <2>3
    <3>5. \/ object[o].refcnt > 1 /\ object'[o] \in KernelObject
                                  /\ object'[o].refcnt = object[o].refcnt - 1
          \/ ~(object[o].refcnt > 1)
      BY <1>7, <3>3
    <3>6. Covered(o)'
      BY <1>2, <3>1, <3>2, <3>4, <3>5, DroppedIsCovered
    <3> QED
      BY <2>3, <3>6
  <2> QED
    BY <2>1, <2>2, <2>3
<1> QED
  BY <1>9, <1>11, <1>13, <1>14, HandlesLiveParts

LEMMA DWTranslateHandleKeeps ==
  ASSUME ObjectsIInv, ~Dangling, NEW p \in processes, NEW of \in Processes, NEW h \in Slot,
         NEW ok \in BOOLEAN, DWTranslateHandle(p, of, h, ok)
  PROVE  ObjectsIInv'
<1> USE DEF ObjectsIInv
<1>1. PICK o, has, i, up, down :
         /\ o = Target(of, h) /\ has = AlreadyHas(p, o)
         /\ i = IF has # {} THEN Min(has) ELSE FreeSlot(objlist[p])
         /\ up = IF has # {} THEN 0 ELSE 1
         /\ down = IF ok THEN 0 ELSE 1
  OBVIOUS
<1>2. /\ of \in processes /\ o # NullPointer /\ i # -1
      /\ object[o].refcnt + up >= down
      /\ object' = [object EXCEPT ![o].refcnt = @ + up - down]
      /\ objlist' = [objlist EXCEPT ![p][i] = IF ok THEN o ELSE NullPointer]
      /\ UNCHANGED <<port, port_list, processes, borrowed>>
  BY <1>1 DEF DWTranslateHandle
<1>3. o \in ObjCells /\ object[o] \in KernelObject /\ object[o] # NullPointer
  BY <1>1, <1>2, TargetIsThere
<1>4. p \in Processes
  BY DEF ObjectsTypeOK
<1>5. \/ has = {} /\ i \in Slot /\ objlist[p][i] = NullPointer
      \/ has # {} /\ i \in Slot /\ objlist[p][i] = o
  <2>1. has \subseteq Slot /\ \A j \in has : objlist[p][j] = o
    BY <1>1 DEF AlreadyHas
  <2> QED
    BY <1>1, <1>2, <2>1, MinOfSlots, FreeSlotFound
<1>6. object[o].refcnt \in Nat /\ up \in 0..1 /\ down \in 0..1
  BY <1>1, <1>3 DEF KernelObject
<1>7. PICK n \in Nat : n = object[o].refcnt + up - down
  BY <1>2, <1>6
<1>8. PICK new : new = [object[o] EXCEPT !.refcnt = n]
  OBVIOUS
<1>9. new \in KernelObject /\ new.refcnt = n /\ new # NullPointer
  <2>1. new \in KernelObject /\ new.refcnt = n
    BY <1>3, <1>8 DEF KernelObject
  <2> QED
    BY <2>1, NullIsNoObject
<1>10. object' = [object EXCEPT ![o] = new]
  BY <1>2, <1>3, <1>7, <1>8 DEF ObjectsTypeOK
<1>11. ObjectsTypeOK'
  <2>1. object' \in [ObjCells -> KernelObject \cup {NullPointer}]
    BY <1>3, <1>9, <1>10 DEF ObjectsTypeOK
  <2>2. objlist' \in [Processes -> [Slot -> ObjCells \cup {NullPointer}]]
    BY <1>2, <1>3, <1>4, <1>5 DEF ObjectsTypeOK
  <2> QED
    BY <1>2, <2>1, <2>2 DEF ObjectsTypeOK
<1>12. NamesUnique'
  BY <1>2 DEF NamesUnique
<1>13. \A x \in ObjCells : object'[x] = IF x = o THEN new ELSE object[x]
  BY <1>10 DEF ObjectsTypeOK
<1>14. NoDuplication /\ \A x \in ObjCells \ borrowed : Covered(x)
  BY HandlesLiveParts
<1>15. CASE has = {} /\ ok
  <2>1. /\ objlist' = [objlist EXCEPT ![p][i] = o] /\ i \in Slot /\ objlist[p][i] = NullPointer
        /\ objlist[p][i] # o
    BY <1>2, <1>5, <1>15
  <2>2. n = object[o].refcnt + 1
    BY <1>1, <1>6, <1>7, <1>15
  <2>3. \A j \in Slot : objlist[p][j] # o
    BY <1>1, <1>15 DEF AlreadyHas
  <2>4. NoDuplication'
    <3>1. /\ borrowed \subseteq borrowed'
          /\ \A j \in Slot : j # i /\ objlist[p][j] = o => o \in borrowed'
      BY <1>2, <2>3
    <3> QED
      BY <1>3, <1>4, <1>14, <2>1, <3>1, DuplicatesWhenAdded
  <2>5. ASSUME NEW x \in ObjCells \ borrowed', x # o PROVE Covered(x)'
    <3>1. x # objlist[p][i]
      BY <2>1, NullIsNoObject
    <3>2. Handles(x)' = Handles(x)
      <4>1. objlist' = [objlist EXCEPT ![p][i] = o] /\ i \in Slot
        BY <2>1
      <4>2. o \in ObjCells \cup {NullPointer} /\ x # o
        BY <1>3, <2>5
      <4> QED
        BY <1>4, <3>1, <4>1, <4>2, HandlesElsewhere
    <3> QED
      BY <1>2, <1>13, <1>14, <2>5, <3>2 DEF Covered
  <2>6. ASSUME o \notin borrowed' PROVE Covered(o)'
    <3>1. Cardinality(Handles(o)') = Cardinality(Handles(o)) + 1
      BY <1>3, <1>4, <2>1, HandleAdded
    <3>2. Cardinality(Handles(o)) \in Nat
      BY HandlesAreFinite
    <3>3. object[o].refcnt >= Cardinality(Handles(o))
      <4>1. Target(of, h) = objlist[of][h]
        BY DEF Target
      <4>2. <<of, h>> \in Handles(o)
        BY <1>1, <4>1, HandlesMeaning
      <4> QED
        BY <1>2, <1>3, <1>14, <2>6, <4>2 DEF Covered
    <3> QED
      BY <1>3, <1>6, <1>9, <1>13, <2>2, <3>1, <3>2, <3>3 DEF Covered
  <2> QED
    BY <1>11, <1>12, <2>4, <2>5, <2>6, HandlesLiveParts
<1>16. CASE has # {} /\ ~ok
  <2>1. objlist' = [objlist EXCEPT ![p][i] = NullPointer] /\ i \in Slot /\ objlist[p][i] = o
    BY <1>2, <1>5, <1>16
  <2>2. n = object[o].refcnt - 1
    BY <1>1, <1>6, <1>7, <1>16
  <2>3. NoDuplication'
    BY <1>2, <1>4, <1>14, <2>1, DuplicatesWhenDropped
  <2>4. ASSUME NEW x \in ObjCells \ borrowed', x # o PROVE Covered(x)'
    <3>1. x # objlist[p][i] /\ x # NullPointer
      BY <2>1, <2>4, NullIsNoObject
    <3>2. Handles(x)' = Handles(x)
      BY <1>4, <2>1, <3>1, HandlesElsewhere
    <3> QED
      BY <1>2, <1>13, <1>14, <2>4, <3>2 DEF Covered
  <2>5. ASSUME o \notin borrowed' PROVE Covered(o)'
    <3>1. <<p, i>> \in Handles(o)
      BY <1>4, <2>1, HandlesMeaning
    <3>2. Cardinality(Handles(o)') = Cardinality(Handles(o)) - 1
      BY <1>3, <1>4, <2>1, <3>1, HandleDropped
    <3>3. Covered(o) /\ object'[o] \in KernelObject /\ object'[o].refcnt = object[o].refcnt - 1
      BY <1>2, <1>3, <1>9, <1>13, <1>14, <2>2, <2>5
    <3> QED
      BY <1>3, <3>1, <3>2, <3>3, DroppedIsCovered
  <2> QED
    BY <1>11, <1>12, <2>3, <2>4, <2>5, HandlesLiveParts
<1>17. CASE has = {} <=> ~ok
  <2>1. objlist' = objlist
    BY <1>2, <1>4, <1>5, <1>17 DEF ObjectsTypeOK
  <2>2. n = object[o].refcnt
    BY <1>1, <1>6, <1>7, <1>17
  <2>3. ASSUME NEW x \in ObjCells, object[x] # NullPointer
        PROVE  /\ object'[x] # NullPointer
               /\ object'[x].refcnt \in Nat /\ object'[x].refcnt >= object[x].refcnt
    <3>1. object[x].refcnt \in Nat
      BY <2>3 DEF ObjectsTypeOK, KernelObject
    <3> QED
      BY <1>9, <1>13, <2>2, <2>3, <3>1
  <2>4. HandlesLive'
    BY <1>2, <2>1, <2>3, CountsKept
  <2> QED
    BY <1>11, <1>12, <2>4
<1> QED
  BY <1>15, <1>16, <1>17

LEMMA SendWithReplyKeeps ==
  ASSUME ObjectsIInv, ~Dangling, NEW p \in processes, NEW h \in Slot, NEW r \in Slot,
         SendWithReply(p, h, r)
  PROVE  ObjectsIInv' /\ ReplyPortReachable'
<1> USE DEF ObjectsIInv
<1>1. PICK o, to, ro, has, i :
         /\ o = Target(p, h) /\ to = port[object[o].data].owner /\ ro = Target(p, r)
         /\ has = AlreadyHas(to, ro) \ {MAX_OBJ_PER_PROCESS - 1}
         /\ i = IF has # {} THEN Min(has) ELSE FreeSlot(objlist[to])
  OBVIOUS
<1>2. /\ to \in processes
      /\ IF IsPort(ro)
         THEN /\ objlist' = IF i = -1 THEN objlist ELSE [objlist EXCEPT ![to][i] = ro]
              /\ reply' = [to |-> to, handle |-> i, object |-> ro]
              /\ borrowed' = IF objlist' = objlist THEN borrowed ELSE borrowed \cup {ro}
         ELSE /\ reply' = NoReply
              /\ UNCHANGED <<objlist, borrowed>>
      /\ UNCHANGED <<object, port, port_list, processes>>
  BY <1>1 DEF SendWithReply
<1>3. to \in Processes
  BY <1>2 DEF ObjectsTypeOK
<1>4. NamesUnique'
  BY <1>2 DEF NamesUnique
<1>5. ASSUME UNCHANGED <<objlist, borrowed>> PROVE ObjectsIInv'
  <2>1. ObjectsTypeOK'
    BY <1>2, <1>5 DEF ObjectsTypeOK
  <2>2. \A x \in ObjCells : object[x] # NullPointer =>
            /\ object'[x] # NullPointer
            /\ object'[x].refcnt \in Nat /\ object'[x].refcnt >= object[x].refcnt
    BY <1>2 DEF ObjectsTypeOK, KernelObject
  <2> QED
    BY <1>4, <1>5, <2>1, <2>2, CountsKept
<1>6. CASE ~IsPort(ro)
  BY <1>2, <1>5, <1>6 DEF ReplyPortReachable, NoReply
<1>7. CASE IsPort(ro)
  <2>1. ro \in ObjCells /\ ro # NullPointer
    BY <1>1, <1>7, TargetIsThere DEF IsPort
  <2>2. \/ i = -1 /\ \A j \in Slot : objlist[to][j] # NullPointer
        \/ i \in Slot /\ (objlist[to][i] = NullPointer \/ objlist[to][i] = ro)
    <3>1. has \subseteq Slot /\ \A j \in has : objlist[to][j] = ro
      BY <1>1 DEF AlreadyHas
    <3> QED
      BY <1>1, <3>1, MinOfSlots, FreeSlotFound
  <2>3. i = -1 => i \notin Slot
    BY SlotFacts
  <2>4. reply'.to = to /\ reply'.handle = i /\ reply'.object = ro
    BY <1>2, <1>7
  <2>5. ReplyPortReachable'
    <3>1. CASE i = -1
      BY <1>2, <1>7, <2>2, <2>3, <2>4, <3>1 DEF ReplyPortReachable
    <3>2. CASE i # -1
      <4>1. objlist' = [objlist EXCEPT ![to][i] = ro] /\ i \in Slot
        BY <1>2, <1>7, <2>2, <3>2
      <4>2. objlist'[to][i] = ro
        BY <1>3, <2>1, <4>1, SlotSet
      <4> QED
        BY <2>4, <3>2, <4>2 DEF ReplyPortReachable
    <3> QED
      BY <3>1, <3>2
  <2>6. CASE objlist' = objlist
    BY <1>2, <1>5, <1>7, <2>5, <2>6
  <2>7. CASE objlist' # objlist
    <3>1. /\ objlist' = [objlist EXCEPT ![to][i] = ro] /\ borrowed' = borrowed \cup {ro}
          /\ i \in Slot /\ (objlist[to][i] = NullPointer \/ objlist[to][i] = ro)
      BY <1>2, <1>7, <2>2, <2>7
    <3>2. ObjectsTypeOK'
      <4>1. objlist' \in [Processes -> [Slot -> ObjCells \cup {NullPointer}]]
        BY <1>3, <2>1, <3>1, SlotSet
      <4> QED
        BY <1>2, <2>1, <3>1, <4>1 DEF ObjectsTypeOK
    <3>3. NoDuplication /\ \A x \in ObjCells \ borrowed : Covered(x)
      BY HandlesLiveParts
    <3>4. NoDuplication'
      <4>1. /\ borrowed \subseteq borrowed'
            /\ \A j \in Slot : j # i /\ objlist[to][j] = ro => ro \in borrowed'
        BY <3>1
      <4>2. objlist' = [objlist EXCEPT ![to][i] = ro] /\ i \in Slot
        BY <3>1
      <4> QED
        BY <1>3, <2>1, <3>3, <4>1, <4>2, DuplicatesWhenAdded
    <3>5. ASSUME NEW x \in ObjCells \ borrowed' PROVE Covered(x)'
      <4>1. x # ro /\ x # objlist[to][i] /\ x \notin borrowed
        BY <3>1, NullIsNoObject
      <4>2. objlist' = [objlist EXCEPT ![to][i] = ro] /\ i \in Slot
        BY <3>1
      <4>3. Handles(x)' = Handles(x)
        BY <1>3, <2>1, <4>1, <4>2, HandlesElsewhere
      <4> QED
        BY <1>2, <3>3, <4>1, <4>3 DEF Covered
    <3> QED
      BY <1>4, <2>5, <3>2, <3>4, <3>5, HandlesLiveParts
  <2> QED
    BY <2>6, <2>7
<1> QED
  BY <1>6, <1>7

LEMMA DeleteProcessKeeps ==
  ASSUME ObjectsIInv, NEW p \in processes, DeleteProcess(p)
  PROVE  ObjectsIInv'
<1> USE DEF ObjectsIInv
<1>1. PICK left : left = [o \in ObjCells |-> DeleteObject(o, Cardinality(AlreadyHas(p, o)))]
  OBVIOUS
<1>2. /\ objlist' = [objlist EXCEPT ![p] = [i \in Slot |-> NullPointer]]
      /\ DeleteObjects(left) /\ processes' = processes \ {p}
  BY <1>1 DEF DeleteProcess
<1>3. p \in Processes
  BY DEF ObjectsTypeOK
<1>4. \A o : Cardinality(AlreadyHas(p, o)) \in Nat
  <2> SUFFICES ASSUME NEW o PROVE Cardinality(AlreadyHas(p, o)) \in Nat
    OBVIOUS
  <2>1. AlreadyHas(p, o) \in SUBSET Slot
    BY DEF AlreadyHas
  <2> QED
    BY <2>1, SlotFacts, FS_Subset, FS_CardinalityType
<1>5. left \in [ObjCells -> KernelObject \cup {NullPointer}]
  BY <1>1, <1>4, DeleteObjectResult
<1>6. /\ object' = left
      /\ port' \in [PortCells -> Port \cup {NullPointer}]
      /\ port_list' \in SUBSET PortCells
      /\ borrowed' \in SUBSET ObjCells
      /\ NamesUnique'
      /\ \A o \in borrowed : Handles(o)' # {} => o \in borrowed'
  BY <1>2, <1>5, DeleteObjectsKeeps
<1>7. \A q \in Processes, j \in Slot :
         objlist'[q][j] = IF q = p THEN NullPointer ELSE objlist[q][j]
  BY <1>2, <1>3 DEF ObjectsTypeOK
<1>8. ObjectsTypeOK'
  <2>1. objlist' \in [Processes -> [Slot -> ObjCells \cup {NullPointer}]]
    BY <1>2, <1>3 DEF ObjectsTypeOK
  <2> QED
    BY <1>2, <1>5, <1>6, <2>1 DEF ObjectsTypeOK
<1>9. NoDuplication /\ \A o \in ObjCells \ borrowed : Covered(o)
  BY HandlesLiveParts
<1>10. NoDuplication'
  <2> SUFFICES ASSUME NEW q \in Processes, NEW j \in Slot, NEW k \in Slot, j # k,
                      objlist'[q][j] # NullPointer, objlist'[q][j] = objlist'[q][k]
               PROVE  objlist'[q][j] \in borrowed'
    BY DEF NoDuplication
  <2>1. objlist'[q][j] = objlist[q][j] /\ objlist[q][j] \in borrowed
    BY <1>7, <1>9 DEF NoDuplication
  <2>2. PICK o : o = objlist'[q][j]
    OBVIOUS
  <2>3. <<q, j>> \in Handles(o)'
    BY <2>2, HandlesMeaning
  <2> QED
    BY <1>6, <2>1, <2>2, <2>3
<1>11. ASSUME NEW o \in ObjCells \ borrowed' PROVE Covered(o)'
  <2>1. CASE o \in borrowed
    BY <1>6, <2>1 DEF Covered
  <2>2. CASE o \notin borrowed
    <3>1. Covered(o) /\ o # NullPointer
      BY <1>9, <2>2, NullIsNoObject
    <3>2. CASE AlreadyHas(p, o) = {}
      <4>1. object'[o] = object[o]
        <5>1. Cardinality(AlreadyHas(p, o)) = 0
          BY <3>2, FS_EmptySet
        <5> QED
          BY <1>1, <1>6, <5>1, DeleteObjectResult
      <4>2. ASSUME NEW q \in Processes, NEW j \in Slot
            PROVE  objlist'[q][j] = o <=> <<q, j>> \in Handles(o)
        <5>1. objlist[p][j] # o
          BY <3>2 DEF AlreadyHas
        <5>2. <<q, j>> \in Handles(o) <=> objlist[q][j] = o
          BY HandlesMeaning
        <5> QED
          BY <1>7, <3>1, <5>1, <5>2
      <4>3. Handles(o) \subseteq Processes \X Slot
        BY DEF Handles
      <4>4. Handles(o)' = Handles(o)
        BY <4>2, <4>3, HandlesEqual
      <4> QED
        BY <3>1, <4>1, <4>4 DEF Covered
    <3>3. CASE AlreadyHas(p, o) # {}
      <4>1. PICK i \in Slot : objlist[p][i] = o
        BY <3>3 DEF AlreadyHas
      <4>2. \A j \in Slot : objlist[p][j] = o => j = i
        BY <1>3, <1>9, <2>2, <3>1, <4>1 DEF NoDuplication
      <4>3. Cardinality(AlreadyHas(p, o)) = 1
        <5>1. AlreadyHas(p, o) = {i}
          BY <4>1, <4>2 DEF AlreadyHas
        <5> QED
          BY <5>1, FS_Singleton
      <4>4. <<p, i>> \in Handles(o)
        BY <1>3, <4>1, HandlesMeaning
      <4>5. object[o] \in KernelObject /\ object[o] # NullPointer
        BY <3>1, <4>4 DEF Covered, ObjectsTypeOK
      <4>6. object'[o] = DeleteObject(o, 1)
        BY <1>1, <1>6, <4>3
      <4>7. \/ object[o].refcnt > 1 /\ object'[o] \in KernelObject
                                    /\ object'[o].refcnt = object[o].refcnt - 1
            \/ ~(object[o].refcnt > 1)
        BY <4>5, <4>6, DeleteObjectResult
      <4>8. ASSUME NEW q \in Processes, NEW j \in Slot
            PROVE  objlist'[q][j] = o <=> <<q, j>> \in Handles(o) \ {<<p, i>>}
        <5>1. <<q, j>> \in Handles(o) <=> objlist[q][j] = o
          BY HandlesMeaning
        <5> QED
          BY <1>7, <3>1, <4>2, <5>1
      <4>9. Handles(o) \ {<<p, i>>} \subseteq Processes \X Slot
        BY DEF Handles
      <4>10. Handles(o)' = Handles(o) \ {<<p, i>>}
        BY <4>8, <4>9, HandlesEqual
      <4>11. Cardinality(Handles(o)') = Cardinality(Handles(o)) - 1
        BY <4>4, <4>10, HandlesAreFinite, FS_RemoveElement
      <4> QED
        BY <3>1, <4>4, <4>5, <4>7, <4>11, DroppedIsCovered
    <3> QED
      BY <3>2, <3>3
  <2> QED
    BY <2>1, <2>2
<1> QED
  BY <1>6, <1>8, <1>10, <1>11, HandlesLiveParts

-----------------------------------------------------------------------------
LEMMA InitObjectsIInv == Init => ObjectsIInv
<1> SUFFICES ASSUME Init PROVE ObjectsIInv
  OBVIOUS
<1>1. ObjectsTypeOK
  BY DEF Init, ObjectsTypeOK
<1>2. NamesUnique
  BY DEF Init, NamesUnique
<1>3. \A q \in Processes, j \in Slot : objlist[q][j] = NullPointer
  BY DEF Init
<1>4. ASSUME NEW o \in ObjCells PROVE Handles(o) = {}
  BY <1>3, NullIsNoObject DEF Handles
<1>5. HandlesLive
  BY <1>3, <1>4 DEF HandlesLive
<1> QED
  BY <1>1, <1>2, <1>5 DEF ObjectsIInv

LEMMA NextObjectsIInv ==
  ASSUME ObjectsIInv, [Next]_vars
  PROVE  ObjectsIInv'
<1>1. CASE Next
  <2>1. ~Dangling
    BY <1>1 DEF Next
  <2>2. PICK p \in processes :
        \/ \E name \in PortNames \cup {NullPointer} : DWCreateObject(p, "OBJ_PORT", name)
        \/ DWCreateObject(p, "OBJ_OTHER", NullPointer)
        \/ \E h \in Slot : PortCreate(p, h)
        \/ \E h \in Slot, name \in PortNames : PortOpen(p, h, name)
        \/ \E h \in Slot : DWDeleteObject(p, h)
        \/ \E of \in Processes, h \in Slot, ok \in BOOLEAN :
              DWTranslateHandle(p, of, h, ok)
        \/ \E h, r \in Slot : SendWithReply(p, h, r)
        \/ DeleteProcess(p)
    BY <1>1 DEF Next
  <2>3. ASSUME NEW type \in {"OBJ_PORT", "OBJ_OTHER"}, NEW name \in PortNames \cup {NullPointer},
               DWCreateObject(p, type, name)
        PROVE  ObjectsIInv'
    BY <2>3, DWCreateObjectKeeps
  <2>4. CASE \E h \in Slot : PortCreate(p, h) \/ DWDeleteObject(p, h)
    BY <2>1, <2>4, PortCreateKeeps, DWDeleteObjectKeeps
  <2>5. CASE \E h \in Slot, name \in PortNames : PortOpen(p, h, name)
    BY <2>1, <2>5, PortOpenKeeps
  <2>6. CASE \E of \in Processes, h \in Slot, ok \in BOOLEAN : DWTranslateHandle(p, of, h, ok)
    BY <2>1, <2>6, DWTranslateHandleKeeps
  <2>7. CASE \E h, r \in Slot : SendWithReply(p, h, r)
    BY <2>1, <2>7, SendWithReplyKeeps
  <2>8. CASE DeleteProcess(p)
    BY <2>8, DeleteProcessKeeps
  <2> QED
    BY <2>2, <2>3, <2>4, <2>5, <2>6, <2>7, <2>8
<1>2. CASE UNCHANGED vars
  BY <1>2 DEF vars, ObjectsIInv, ObjectsTypeOK, NamesUnique, HandlesLive, Handles
<1> QED
  BY <1>1, <1>2

LEMMA ReplyStep ==
  ASSUME ObjectsIInv, ReplyPortReachable, [Next]_vars
  PROVE  ReplyPortReachable'
<1>1. ASSUME reply' = NoReply PROVE ReplyPortReachable'
  BY <1>1 DEF ReplyPortReachable, NoReply
<1>2. ASSUME NEW p \in processes, NEW h \in Slot, NEW r \in Slot, ~Dangling, SendWithReply(p, h, r)
      PROVE  ReplyPortReachable'
  BY <1>2, SendWithReplyKeeps
<1>3. CASE UNCHANGED vars
  BY <1>3 DEF vars, ReplyPortReachable, IsPort
<1>4. ASSUME Next
      PROVE  \/ reply' = NoReply
             \/ ~Dangling /\ \E p \in processes : \E h, r \in Slot : SendWithReply(p, h, r)
  <2>1. ASSUME NEW p, NEW type, NEW name, DWCreateObject(p, type, name) PROVE reply' = NoReply
    BY <2>1 DEF DWCreateObject
  <2>2. ASSUME NEW p, NEW h, PortCreate(p, h) PROVE reply' = NoReply
    BY <2>2 DEF PortCreate
  <2>3. ASSUME NEW p, NEW h, NEW name, PortOpen(p, h, name) PROVE reply' = NoReply
    BY <2>3 DEF PortOpen
  <2>4. ASSUME NEW p, NEW h, DWDeleteObject(p, h) PROVE reply' = NoReply
    BY <2>4 DEF DWDeleteObject
  <2>5. ASSUME NEW p, NEW of, NEW h, NEW ok, DWTranslateHandle(p, of, h, ok) PROVE reply' = NoReply
    BY <2>5 DEF DWTranslateHandle
  <2>6. ASSUME NEW p, DeleteProcess(p) PROVE reply' = NoReply
    BY <2>6 DEF DeleteProcess
  <2> QED
    BY <1>4, <2>1, <2>2, <2>3, <2>4, <2>5, <2>6 DEF Next
<1> QED
  BY <1>1, <1>2, <1>3, <1>4

LEMMA ObjectsInvariant == Spec => []ObjectsIInv
<1>1. ObjectsIInv /\ [Next]_vars => ObjectsIInv'
  BY NextObjectsIInv
<1> QED
  BY <1>1, InitObjectsIInv, PTL DEF Spec

(* An object that some process has a handle to is allocated and counted at *)
(* least as often as there are handles, for any processes and tables of    *)
(* any size: _DWTranslateHandle counts what it adds and _DWDeleteObject    *)
(* and DeleteProcess take off what they drop.  Objects that _DWIPCSend has *)
(* handed over as reply ports, uncounted, are the only exception.          *)
THEOREM ObjectsHandlesLive == Spec => []HandlesLive
<1>1. ObjectsIInv => HandlesLive
  BY DEF ObjectsIInv
<1> QED
  BY <1>1, ObjectsInvariant, PTL

(* PORT_CREATE never lists a second port under a name, and DeleteObject    *)
(* takes a port it frees off the list, so that FindPortByName has one      *)
(* answer and that one is allocated.                                       *)
THEOREM ObjectsNamesUnique == Spec => []NamesUnique
<1>1. ObjectsIInv => NamesUnique
  BY DEF ObjectsIInv
<1> QED
  BY <1>1, ObjectsInvariant, PTL

(* The reply handle that _DWIPCSend puts into a message is one of the      *)
(* receiver's and leads to the sender's reply port, or it is -1 and the    *)
(* receiver's table is full, whatever the size of the tables.              *)
THEOREM ObjectsReplyPortReachable == Spec => []ReplyPortReachable
<1>1. Init => ReplyPortReachable
  BY DEF Init, ReplyPortReachable, NoReply
<1>2. ObjectsIInv /\ ReplyPortReachable /\ [Next]_vars => ReplyPortReachable'
  BY ReplyStep
<1> QED
  BY <1>1, <1>2, ObjectsInvariant, PTL DEF Spec

============================================================================
