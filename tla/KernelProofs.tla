---------------------------- MODULE KernelProofs ----------------------------
(***************************************************************************)
(* The frame allocator conserves frames for any amount of memory.  The     *)
(* kernel and a server never share a device, and the kernel's list of      *)
(* outputs and its primary output agree, whatever the drivers and however  *)
(* many servers there are.                                                 *)
(***************************************************************************)
EXTENDS Devices, FrameAllocator, TLAPS

-----------------------------------------------------------------------------
(* The frame allocator *)

(* FramesConserved is inductive on its own: an allocation moves a frame    *)
(* from the bitmap to its holder, FreeFrame moves it back, and returning a *)
(* free frame or 0 changes nothing.                                        *)
LEMMA FramesConservedStep == FramesConserved /\ [Next]_vars => FramesConserved'
<1> SUFFICES ASSUME FramesConserved, [Next]_vars PROVE FramesConserved'
  OBVIOUS
<1> USE DEF FramesConserved
<1>1. ASSUME NEW range, Allocate(range) PROVE FramesConserved'
  <2>1. PICK f \in Frames : /\ IsFirst(f, range)
                            /\ bitmap' = bitmap \ {f}
                            /\ held' = held \cup {f}
    BY <1>1 DEF Allocate
  <2>2. f \in bitmap
    BY <2>1 DEF IsFirst
  <2> QED BY <1>1, <2>1, <2>2 DEF Allocate
<1>2. ASSUME NEW f \in Frames, FreeFrame(f) PROVE FramesConserved'
  <2>1. CASE f \in bitmap
    BY <1>2, <2>1 DEF FreeFrame
  <2>2. CASE f \in held
    <3>1. f \in usable /\ f \notin bitmap /\ f # 0 /\ f # 1
      BY <2>2
    <3>2. ~(f < 2)
      BY <3>1, FrameAllocatorAssumption DEF Frames
    <3>3. bitmap' = bitmap \cup {f} /\ held' = held \ {f} /\ usable' = usable
      BY <1>2, <3>1, <3>2 DEF FreeFrame, Marked
    <3> QED BY <2>2, <3>3
  <2>3. CASE f = 0 /\ f \notin held /\ f \notin bitmap
    BY <1>2, <2>3 DEF FreeFrame, Marked
  <2> QED BY <1>2, <2>1, <2>2, <2>3 DEF FreeFrame
<1>3. CASE UNCHANGED vars
  BY <1>3 DEF vars
<1> QED BY <1>1, <1>2, <1>3 DEF Next, AllocateFrame, AllocateLowMemory

(* AllocateFrame and AllocateLowMemory never give a frame to two callers,  *)
(* and FreeFrame neither loses nor makes up one, whatever the machine has. *)
THEOREM FramesAlwaysConserved == Spec => []FramesConserved
<1>1. Init => FramesConserved
  BY DEF Init, FramesConserved
<1> QED BY <1>1, FramesConservedStep, PTL DEF Spec

-----------------------------------------------------------------------------
(* Drivers, outputs and the log *)

Booting == pc \in {"manager", "early", "late", "flush"}

(* BringBuiltinDriversOnline has passed d in the current pass. *)
Passed(d) == \E i \in DOMAIN DriverDescriptors : i < next_driver /\ DriverDescriptors[i] = d

(* A driver is called once: in the early pass or in the late one. *)
BroughtOnline(d) ==
    /\ pc # "manager"
    /\ pc = "early" => InitEarlier(d) /\ Passed(d)
    /\ pc = "late" => InitEarlier(d) \/ Passed(d)

NoDuplicates(s) == \A i, j \in DOMAIN s : s[i] = s[j] => i = j

(* The outputs of the kernel, as a list. *)
ListOK ==
    /\ list \in Seq(Devices)
    /\ NoDuplicates(list)
    /\ \A d \in ToSet(list) : BroughtOnline(d)

(* Only a device that a server has claimed is mapped into a server, and    *)
(* none is claimed before the kernel has booted.                           *)
ClaimsOK ==
    /\ Booting => claimed = {}
    /\ usermap \in [Servers -> SUBSET claimed]
    /\ \A d \in ToSet(list) : d \in mapped \cup {"serial86"} /\ d \notin claimed

CurrentOK ==
    /\ current = NullPointer <=> list = << >>
    /\ current # NullPointer => current \in ToSet(list)

DevicesIInv == next_driver \in Nat \ {0} /\ ListOK /\ ClaimsOK /\ CurrentOK

LEMMA InvariantLetsGo == DevicesIInv => KernelLetsGo
<1> SUFFICES ASSUME DevicesIInv PROVE KernelLetsGo
  OBVIOUS
<1>1. ASSUME NEW d \in ToSet(list), NEW p \in Servers PROVE d \notin usermap[p]
  BY <1>1 DEF DevicesIInv, ClaimsOK
<1> QED
  BY <1>1 DEF DevicesIInv, ClaimsOK, CurrentOK, KernelLetsGo

LEMMA InitDevicesIInv == DevicesInit => DevicesIInv
<1> SUFFICES ASSUME DevicesInit PROVE DevicesIInv
  OBVIOUS
<1>1. list = << >> /\ ToSet(list) = {}
  BY DEF DevicesInit, ToSet
<1>2. ListOK
  BY <1>1 DEF ListOK, NoDuplicates
<1>3. ClaimsOK
  BY <1>1 DEF ClaimsOK, DevicesInit
<1> QED
  BY <1>1, <1>2, <1>3 DEF DevicesIInv, CurrentOK, DevicesInit

-----------------------------------------------------------------------------
(* Steps that leave the registry and the mappings alone *)

(* Where the kernel goes when it does not get on with booting. *)
PcStays == pc' = pc /\ next_driver' = next_driver
PcLeaves ==
    /\ pc' \in {"run", "banner", "registers", "backtrace", "advice", "stalled", "reboot"}
    /\ next_driver' = next_driver
PcLeavesBoot == pc' \in {"banner", "reboot"}

LEMMA ListKept ==
  ASSUME ListOK, UNCHANGED list, PcStays \/ PcLeaves
  PROVE  ListOK'
<1>1. ToSet(list)' = ToSet(list)
  BY DEF ToSet
<1>2. ASSUME NEW d \in ToSet(list) PROVE BroughtOnline(d)'
  BY <1>2 DEF ListOK, BroughtOnline, Passed, PcStays, PcLeaves
<1> QED
  BY <1>1, <1>2 DEF ListOK, NoDuplicates

LEMMA QuietStep ==
  ASSUME DevicesIInv, UNCHANGED registry, PcStays \/ PcLeaves,
         usermap' \in [Servers -> SUBSET claimed]
  PROVE  DevicesIInv'
<1>1. UNCHANGED <<list, current, mapped, claimed>> /\ next_driver' = next_driver
  BY DEF registry, PcStays, PcLeaves
<1>2. ToSet(list)' = ToSet(list)
  BY <1>1 DEF ToSet
<1>3. ListOK'
  BY <1>1, ListKept DEF DevicesIInv
<1>4. Booting' => Booting
  BY DEF Booting, PcStays, PcLeaves
<1>5. ClaimsOK'
  BY <1>1, <1>2, <1>4 DEF DevicesIInv, ClaimsOK
<1> QED
  BY <1>1, <1>2, <1>3, <1>5 DEF DevicesIInv, CurrentOK

LEMMA FatalErrorLeaves ==
  ASSUME FatalError, next_driver' = next_driver
  PROVE  PcLeaves
  BY DEF FatalError, PcLeaves

-----------------------------------------------------------------------------
(* Booting *)

LEMMA PassEndsKeeps ==
  ASSUME DevicesIInv, PassEnds
  PROVE  DevicesIInv'
<1>1. UNCHANGED <<list, current, mapped, claimed, usermap>> /\ next_driver' = 1
  BY DEF PassEnds, registry, processes
<1>2. ToSet(list)' = ToSet(list)
  BY <1>1 DEF ToSet
<1>3. \/ pc = "early" /\ pc' = "late"
      \/ pc = "late" /\ pc' = "flush"
  BY DEF PassEnds
<1>4. ASSUME NEW d \in ToSet(list) PROVE BroughtOnline(d)'
  BY <1>3, <1>4 DEF DevicesIInv, ListOK, BroughtOnline, InitEarlier
<1>5. ListOK'
  BY <1>1, <1>2, <1>4 DEF DevicesIInv, ListOK, NoDuplicates
<1>6. ClaimsOK'
  BY <1>1, <1>2, <1>3 DEF DevicesIInv, ClaimsOK, Booting
<1> QED
  BY <1>1, <1>2, <1>5, <1>6 DEF DevicesIInv, CurrentOK

LEMMA AppendToList ==
  ASSUME NEW S, NEW s \in Seq(S), NEW e \in S, NoDuplicates(s), e \notin ToSet(s)
  PROVE  /\ Append(s, e) \in Seq(S) /\ Append(s, e) # << >>
         /\ ToSet(Append(s, e)) = ToSet(s) \cup {e}
         /\ NoDuplicates(Append(s, e))
         /\ Head(Append(s, e)) \in ToSet(Append(s, e))
<1> DEFINE t == Append(s, e)
<1>1. t \in Seq(S) /\ Len(t) = Len(s) + 1 /\ t[Len(s) + 1] = e
  OBVIOUS
<1>2. \A i \in 1..Len(s) : t[i] = s[i]
  OBVIOUS
<1>3. DOMAIN t = 1..(Len(s) + 1) /\ DOMAIN s = 1..Len(s) /\ Len(s) \in Nat
  BY <1>1
<1>4. ToSet(t) = ToSet(s) \cup {e}
  BY <1>1, <1>2, <1>3 DEF ToSet
<1>5. \A i \in 1..Len(s) : s[i] # e
  BY <1>3 DEF ToSet
<1>6. NoDuplicates(t)
  BY <1>1, <1>2, <1>3, <1>5 DEF NoDuplicates
<1>7. t # << >> /\ Head(t) = t[1] /\ 1 \in DOMAIN t
  BY <1>1, <1>3
<1> QED
  BY <1>1, <1>4, <1>6, <1>7 DEF ToSet

(* One driver of the pass, whose device is not an output yet. *)
LEMMA DriverIsNew ==
  ASSUME DevicesIInv, pc \in {"early", "late"},
         next_driver \in DOMAIN DriverDescriptors,
         InitEarlier(DriverDescriptors[next_driver]) <=> pc = "early"
  PROVE  DriverDescriptors[next_driver] \notin ToSet(list)
<1> DEFINE d == DriverDescriptors[next_driver]
<1>1. SUFFICES ASSUME d \in ToSet(list) PROVE FALSE
  OBVIOUS
<1>2. BroughtOnline(d)
  BY <1>1 DEF DevicesIInv, ListOK
<1>3. Passed(d)
  BY <1>2 DEF BroughtOnline
<1>4. PICK i \in DOMAIN DriverDescriptors : i < next_driver /\ DriverDescriptors[i] = d
  BY <1>3 DEF Passed
<1>5. i = next_driver
  BY <1>4, DevicesAssumption
<1> QED
  BY <1>4, <1>5 DEF DevicesIInv

LEMMA PassedGrows ==
  ASSUME next_driver \in Nat, next_driver' = next_driver + 1, pc' = pc,
         DriverDescriptors \in Seq(Devices),
         NEW d, BroughtOnline(d)
  PROVE  BroughtOnline(d)'
<1>1. Passed(d) => Passed(d)'
  BY DEF Passed
<1> QED
  BY <1>1 DEF BroughtOnline, InitEarlier

LEMMA RegisteredKeeps ==
  ASSUME DevicesIInv, pc \in {"early", "late"},
         next_driver \in DOMAIN DriverDescriptors,
         InitEarlier(DriverDescriptors[next_driver]) <=> pc = "early",
         Registered(DriverDescriptors[next_driver]),
         next_driver' = next_driver + 1, UNCHANGED usermap
  PROVE  DevicesIInv'
<1>0. DriverDescriptors \in Seq(Devices)
  BY DevicesAssumption DEF Devices
<1>1. PICK d \in Devices : d = DriverDescriptors[next_driver]
  BY <1>0
<1>2. d \notin ToSet(list)
  BY <1>1, DriverIsNew
<1>3. /\ UNCHANGED <<pc, claimed>>
      /\ mapped' = mapped \cup ({d} \ {"serial86"})
      /\ AddNewOutputDevice(d)
  BY <1>1 DEF Registered, AddDevice
<1>4. next_driver \in Nat /\ list \in Seq(Devices) /\ NoDuplicates(list)
  BY DEF DevicesIInv, ListOK
<1>5. claimed = {} /\ claimed' = {} /\ usermap' \in [Servers -> SUBSET claimed']
  BY <1>3 DEF DevicesIInv, ClaimsOK, Booting
<1>6. \A e \in ToSet(list) : BroughtOnline(e)'
  BY <1>0, <1>3, <1>4, PassedGrows DEF DevicesIInv, ListOK
<1>7. \A e \in ToSet(list) : e \in mapped' \cup {"serial86"}
  BY <1>3 DEF DevicesIInv, ClaimsOK
<1>8. CASE UNCHANGED <<list, current>>
  <2>1. ToSet(list)' = ToSet(list)
    BY <1>8 DEF ToSet
  <2>2. ListOK'
    BY <1>4, <1>6, <1>8, <2>1 DEF ListOK, NoDuplicates
  <2>3. ClaimsOK'
    BY <1>5, <1>7, <2>1 DEF ClaimsOK
  <2> QED
    BY <1>4, <1>8, <2>1, <2>2, <2>3 DEF DevicesIInv, CurrentOK
<1>9. CASE list' = Append(list, d) /\ current' = IF current = NullPointer THEN Head(list') ELSE current
  <2>1. /\ list' \in Seq(Devices) /\ list' # << >>
        /\ ToSet(list') = ToSet(list) \cup {d}
        /\ NoDuplicates(list')
        /\ Head(list') \in ToSet(list')
    BY <1>1, <1>2, <1>4, <1>9, AppendToList
  <2>2. Passed(d)'
    BY <1>1, <1>4 DEF Passed
  <2>3. BroughtOnline(d)'
    BY <1>1, <1>3, <2>2 DEF BroughtOnline, InitEarlier
  <2>4. ListOK'
    BY <1>6, <2>1, <2>3 DEF ListOK, NoDuplicates, ToSet
  <2>5. ClaimsOK'
    BY <1>3, <1>5, <1>7, <2>1 DEF ClaimsOK, ToSet
  <2>6. ToSet(list') \subseteq Devices /\ NullPointer \notin Devices
    BY <2>1, DevicesAssumption DEF ToSet, Devices
  <2>7. CurrentOK'
    BY <1>9, <2>1, <2>6 DEF DevicesIInv, CurrentOK, ToSet
  <2> QED
    BY <1>4, <2>4, <2>5, <2>7 DEF DevicesIInv
<1> QED
  BY <1>3, <1>8, <1>9 DEF AddNewOutputDevice

LEMMA BringDriverOnlineKeeps ==
  ASSUME DevicesIInv, BringDriverOnline
  PROVE  DevicesIInv'
<1> DEFINE d == DriverDescriptors[next_driver]
<1>1. /\ pc \in {"early", "late"}
      /\ next_driver \in Nat \ {0} /\ next_driver' = next_driver + 1
      /\ UNCHANGED usermap
      /\ usermap \in [Servers -> SUBSET claimed]
      /\ DriverDescriptors \in Seq(Devices)
  BY DevicesAssumption DEF BringDriverOnline, DevicesIInv, ClaimsOK, processes, Devices
<1>2. ASSUME pc' = pc \/ PcLeavesBoot, UNCHANGED <<list, current, claimed>>, mapped \subseteq mapped'
      PROVE  DevicesIInv'
  <2>1. ToSet(list)' = ToSet(list)
    BY <1>2 DEF ToSet
  <2>2. \A e \in ToSet(list) : BroughtOnline(e)'
    <3>1. CASE pc' = pc
      BY <1>1, <3>1, PassedGrows DEF DevicesIInv, ListOK
    <3>2. CASE PcLeavesBoot
      BY <3>2 DEF PcLeavesBoot, BroughtOnline
    <3> QED
      BY <1>2, <3>1, <3>2
  <2>3. ListOK'
    BY <1>2, <2>1, <2>2 DEF DevicesIInv, ListOK, NoDuplicates
  <2>4. Booting' => Booting
    BY <1>2 DEF Booting, PcLeavesBoot
  <2>5. ClaimsOK'
    BY <1>1, <1>2, <2>1, <2>4 DEF DevicesIInv, ClaimsOK
  <2> QED
    BY <1>1, <1>2, <2>1, <2>3, <2>5 DEF DevicesIInv, CurrentOK
<1>3. CASE InitEarlier(d) # (pc = "early")
  <2>1. UNCHANGED <<pc, registry>>
    BY <1>3 DEF BringDriverOnline
  <2> QED
    BY <1>2, <2>1 DEF registry
<1>4. CASE ~(InitEarlier(d) # (pc = "early"))
  <2>1. next_driver \in DOMAIN DriverDescriptors /\ (InitEarlier(d) <=> pc = "early")
    BY <1>1, <1>4 DEF BringDriverOnline, InitEarlier
  <2>2. \/ d = "serial86" /\ Serial86Init
        \/ d = "vgatext" /\ VGATextInit
        \/ d = "vbe86" /\ VBE86DriverInit
    BY <1>4 DEF BringDriverOnline
  <2>3. \/ Registered(d) \/ Skipped \/ Faulted
        \/ mapped' = mapped \cup {"vbe86"} /\ UNCHANGED <<tree, list, current, claimed, pc, panicking>>
    BY <2>2 DEF Serial86Init, VGATextInit, VBE86DriverInit
  <2>4. CASE Registered(d)
    BY <1>1, <2>1, <2>4, RegisteredKeeps
  <2>5. CASE Skipped
    BY <1>2, <2>5 DEF Skipped, registry
  <2>6. CASE Faulted
    BY <1>2, <2>6 DEF Faulted, FatalError, PcLeavesBoot, registry
  <2>7. CASE mapped' = mapped \cup {"vbe86"} /\ UNCHANGED <<tree, list, current, claimed, pc, panicking>>
    BY <1>2, <2>7
  <2> QED
    BY <2>3, <2>4, <2>5, <2>6, <2>7
<1> QED
  BY <1>3, <1>4

-----------------------------------------------------------------------------
(* Servers *)

LEMMA RemoveFromList ==
  ASSUME NEW S, NEW s \in Seq(S), NoDuplicates(s), NEW i \in DOMAIN s
  PROVE  /\ RemoveAt(s, i) \in Seq(S)
         /\ ToSet(RemoveAt(s, i)) = ToSet(s) \ {s[i]}
         /\ NoDuplicates(RemoveAt(s, i))
         /\ RemoveAt(s, i) = << >> <=> Len(s) = 1
<1> DEFINE t == RemoveAt(s, i)
           before == SubSeq(s, 1, i - 1)
           after == SubSeq(s, i + 1, Len(s))
           old(k) == IF k < i THEN k ELSE k + 1
<1>1. i \in 1..Len(s) /\ Len(s) \in Nat /\ DOMAIN s = 1..Len(s)
  OBVIOUS
<1>2. /\ before \in Seq(S) /\ Len(before) = i - 1
      /\ \A k \in 1..(i - 1) : before[k] = s[k]
  BY <1>1
<1>3. /\ after \in Seq(S) /\ Len(after) = Len(s) - i
      /\ \A k \in 1..(Len(s) - i) : after[k] = s[k + i]
  BY <1>1
<1>4. t \in Seq(S) /\ Len(t) = Len(s) - 1 /\ DOMAIN t = 1..(Len(s) - 1)
  BY <1>1, <1>2, <1>3 DEF RemoveAt
<1>5. \A k \in DOMAIN t : old(k) \in DOMAIN s /\ old(k) # i /\ t[k] = s[old(k)]
  <2> SUFFICES ASSUME NEW k \in DOMAIN t PROVE old(k) \in DOMAIN s /\ old(k) # i /\ t[k] = s[old(k)]
    OBVIOUS
  <2>1. k \in 1..(Len(s) - 1) /\ old(k) \in DOMAIN s /\ old(k) # i
    BY <1>1, <1>4
  <2>2. CASE k < i
    <3>1. t[k] = before[k]
      BY <1>1, <1>2, <1>3, <2>1, <2>2 DEF RemoveAt
    <3> QED
      BY <1>1, <1>2, <2>1, <2>2, <3>1
  <2>3. CASE k >= i
    <3>1. t[k] = after[k - (i - 1)]
      <4>1. t = before \o after
        BY DEF RemoveAt
      <4>2. before \in Seq(S) /\ after \in Seq(S) /\ Len(before) = i - 1 /\ Len(after) = Len(s) - i
        BY <1>2, <1>3
      <4> HIDE DEF t, before, after
      <4>3. k \in Len(before) + 1..Len(before) + Len(after)
        BY <1>1, <2>1, <2>3, <4>2
      <4>4. (before \o after)[k] = after[k - Len(before)]
        BY <4>2, <4>3
      <4>5. t[k] = after[k - (i - 1)]
        BY <4>1, <4>2, <4>4
      <4> QED
        BY <4>5 DEF after
    <3>2. k - (i - 1) \in 1..(Len(s) - i) /\ (k - (i - 1)) + i = k + 1
      BY <1>1, <2>1, <2>3
    <3>3. after[k - (i - 1)] = s[(k - (i - 1)) + i]
      BY <1>3, <3>2
    <3> QED
      BY <1>1, <2>1, <2>3, <3>1, <3>2, <3>3
  <2> QED
    BY <1>1, <2>1, <2>2, <2>3
<1>6. \A j \in DOMAIN s \ {i} : \E k \in DOMAIN t : old(k) = j
  <2> SUFFICES ASSUME NEW j \in DOMAIN s \ {i} PROVE \E k \in DOMAIN t : old(k) = j
    OBVIOUS
  <2>1. CASE j < i
    BY <1>1, <1>4, <2>1
  <2>2. CASE j > i
    <3>1. j - 1 \in DOMAIN t /\ old(j - 1) = j
      BY <1>1, <1>4, <2>2
    <3> QED
      BY <3>1
  <2> QED
    BY <1>1, <2>1, <2>2
<1>7. ToSet(t) \subseteq ToSet(s) \ {s[i]}
  BY <1>5 DEF ToSet, NoDuplicates
<1>8. ToSet(s) \ {s[i]} \subseteq ToSet(t)
  <2> SUFFICES ASSUME NEW j \in DOMAIN s, s[j] # s[i] PROVE s[j] \in ToSet(t)
    BY DEF ToSet
  <2>1. PICK k \in DOMAIN t : old(k) = j
    BY <1>6
  <2> QED
    BY <1>5, <2>1 DEF ToSet
<1>9. NoDuplicates(t)
  <2> SUFFICES ASSUME NEW k \in DOMAIN t, NEW l \in DOMAIN t, t[k] = t[l] PROVE k = l
    BY DEF NoDuplicates
  <2>1. old(k) = old(l)
    BY <1>5 DEF NoDuplicates
  <2> QED
    BY <1>1, <1>4, <2>1
<1>10. t = << >> <=> Len(s) = 1
  BY <1>1, <1>4
<1> QED
  BY <1>4, <1>7, <1>8, <1>9, <1>10

LEMMA RemovedOutput ==
  ASSUME DevicesIInv, NEW d, RemoveKernelOutput(d)
  PROVE  /\ list' \in Seq(Devices) /\ NoDuplicates(list')
         /\ ToSet(list') = ToSet(list) \ {d}
         /\ mapped \ {d} \subseteq mapped'
         /\ CurrentOK'
<1>1. list \in Seq(Devices) /\ NoDuplicates(list) /\ CurrentOK
  BY DEF DevicesIInv, ListOK
<1>2. CASE d \notin ToSet(list)
  <2>1. UNCHANGED <<list, current, mapped>>
    BY <1>2 DEF RemoveKernelOutput
  <2> QED
    BY <1>1, <1>2, <2>1 DEF CurrentOK, ToSet
<1>3. CASE d \in ToSet(list)
  <2> DEFINE found == CHOOSE j \in DOMAIN list : list[j] = d
  <2>1. found \in DOMAIN list /\ list[found] = d
    BY <1>3 DEF ToSet
  <2>2. PICK i \in DOMAIN list : i = found /\ list[i] = d
    BY <2>1
  <2>3. /\ mapped' = mapped \ {d}
        /\ list' = RemoveAt(list, i)
        /\ current' = CASE d # current -> current
                        [] d = current /\ i < Len(list) -> list[i + 1]
                        [] d = current /\ i = Len(list) /\ list' # << >> -> Head(list')
                        [] OTHER -> NullPointer
    BY <1>3, <2>2 DEF RemoveKernelOutput
  <2>4. /\ list' \in Seq(Devices) /\ NoDuplicates(list')
        /\ ToSet(list') = ToSet(list) \ {d}
        /\ list' = << >> <=> Len(list) = 1
    BY <1>1, <2>2, <2>3, RemoveFromList
  <2>5. i \in 1..Len(list) /\ Len(list) \in Nat /\ DOMAIN list = 1..Len(list)
    BY <1>1
  <2>6. ToSet(list) \subseteq Devices /\ NullPointer \notin Devices
    BY <1>1, DevicesAssumption DEF ToSet, Devices
  <2>7. current \in ToSet(list) /\ current # NullPointer
    BY <1>1, <2>5, <2>6 DEF CurrentOK
  <2>8. CASE d # current
    <3>1. current' = current /\ current \in ToSet(list')
      BY <2>3, <2>4, <2>7, <2>8
    <3>2. list' # << >>
      BY <3>1 DEF ToSet
    <3> QED
      BY <2>3, <2>4, <2>7, <3>1, <3>2 DEF CurrentOK, ToSet
  <2>9. CASE d = current /\ i < Len(list)
    <3>1. current' = list[i + 1] /\ i + 1 \in DOMAIN list
      BY <2>3, <2>5, <2>9
    <3>2. list[i + 1] # d /\ list[i + 1] \in ToSet(list)
      BY <1>1, <2>2, <2>5, <3>1 DEF NoDuplicates, ToSet
    <3>3. current' \in ToSet(list') /\ current' # NullPointer
      BY <2>4, <2>6, <3>1, <3>2
    <3>4. list' # << >>
      BY <3>3 DEF ToSet
    <3> QED
      BY <2>3, <2>4, <3>3, <3>4 DEF CurrentOK, ToSet
  <2>10. CASE d = current /\ i = Len(list) /\ list' # << >>
    <3>1. current' = Head(list')
      BY <2>3, <2>5, <2>10
    <3>2. Head(list') \in ToSet(list')
      BY <2>4, <2>10 DEF ToSet
    <3>3. current' # NullPointer
      BY <2>4, <2>6, <3>1, <3>2
    <3> QED
      BY <2>3, <2>4, <2>10, <3>1, <3>2, <3>3 DEF CurrentOK, ToSet
  <2>11. CASE d = current /\ i = Len(list) /\ list' = << >>
    <3>1. current' = NullPointer
      BY <2>3, <2>5, <2>11
    <3> QED
      BY <2>3, <2>4, <2>11, <3>1 DEF CurrentOK
  <2> QED
    BY <2>5, <2>8, <2>9, <2>10, <2>11
<1> QED
  BY <1>2, <1>3

LEMMA DeviceClaimKeeps ==
  ASSUME DevicesIInv, NEW p \in Servers, DeviceClaim(p)
  PROVE  DevicesIInv'
<1>1. PICK d : d = object[p]
  OBVIOUS
<1>2. /\ pc = "run" /\ UNCHANGED <<pc, next_driver, usermap>>
      /\ claimed' = claimed \cup {d}
      /\ RemoveKernelOutput(d)
  BY <1>1 DEF DeviceClaim, boot, processes
<1>3. /\ list' \in Seq(Devices) /\ NoDuplicates(list')
      /\ ToSet(list') = ToSet(list) \ {d}
      /\ mapped \ {d} \subseteq mapped'
      /\ CurrentOK'
  BY <1>2, RemovedOutput
<1>4. \A e : BroughtOnline(e)'
  BY <1>2 DEF BroughtOnline
<1>5. ListOK'
  BY <1>3, <1>4 DEF ListOK, NoDuplicates
<1>6. usermap' \in [Servers -> SUBSET claimed']
  BY <1>2 DEF DevicesIInv, ClaimsOK
<1>7. ClaimsOK'
  BY <1>2, <1>3, <1>6 DEF DevicesIInv, ClaimsOK, Booting, ToSet
<1> QED
  BY <1>2, <1>3, <1>5, <1>7 DEF DevicesIInv

LEMMA ServerKeeps ==
  ASSUME DevicesIInv, NEW p \in Servers, DeviceGet(p) \/ DeviceMap(p) \/ UserException(p)
  PROVE  DevicesIInv'
<1>1. UNCHANGED registry /\ next_driver' = next_driver /\ usermap \in [Servers -> SUBSET claimed]
  BY DEF DeviceGet, DeviceMap, UserException, boot, DevicesIInv, ClaimsOK
<1>2. CASE DeviceGet(p)
  BY <1>1, <1>2, QuietStep DEF DeviceGet, PcStays
<1>3. CASE DeviceMap(p)
  <2>1. usermap' \in [Servers -> SUBSET claimed]
    BY <1>1, <1>3 DEF DeviceMap
  <2>2. PcStays \/ PcLeaves
    BY <1>1, <1>3, FatalErrorLeaves DEF DeviceMap, PcStays
  <2> QED
    BY <1>1, <2>1, <2>2, QuietStep
<1>4. CASE UserException(p)
  <2>1. usermap' \in [Servers -> SUBSET claimed]
    BY <1>1, <1>4 DEF UserException
  <2> QED
    BY <1>1, <1>4, <2>1, QuietStep DEF UserException, PcStays
<1> QED
  BY <1>2, <1>3, <1>4

-----------------------------------------------------------------------------
LEMMA NextDevicesIInv ==
  ASSUME DevicesIInv, [DevicesNext]_deviceVars
  PROVE  DevicesIInv'
<1>1. usermap \in [Servers -> SUBSET claimed]
  BY DEF DevicesIInv, ClaimsOK
<1>2. CASE LogMessage
  BY <1>1, <1>2, QuietStep DEF LogMessage, PcStays, boot, processes
<1>3. CASE FlushAllLogs
  BY <1>1, <1>3, QuietStep DEF FlushAllLogs, PcLeaves, boot, processes
<1>4. CASE KernelException
  <2>1. UNCHANGED registry /\ next_driver' = next_driver /\ UNCHANGED usermap
    BY <1>4 DEF KernelException, boot, processes
  <2>2. PcStays \/ PcLeaves
    BY <1>4, <2>1, FatalErrorLeaves DEF KernelException, PcStays, PcLeaves
  <2> QED
    BY <1>1, <2>1, <2>2, QuietStep
<1>5. CASE Panic
  <2>1. UNCHANGED registry /\ next_driver' = next_driver /\ UNCHANGED usermap
    BY <1>5 DEF Panic, boot, processes
  <2>2. PcLeaves
    BY <1>5, <2>1, FatalErrorLeaves
    DEF Panic, PanicStep, DumpRegisterValues, DumpBacktraceFromFramePointer, PcLeaves
  <2> QED
    BY <1>1, <2>1, <2>2, QuietStep
<1>6. CASE InitDeviceManager
  <2>1. /\ UNCHANGED <<list, current, mapped, claimed>> /\ next_driver' = next_driver
        /\ UNCHANGED usermap
        /\ pc = "manager"
    BY <1>6 DEF InitDeviceManager, registry, boot, processes
  <2>2. ToSet(list) = {} /\ ToSet(list)' = {}
    BY <2>1 DEF DevicesIInv, ListOK, BroughtOnline, ToSet
  <2>3. ListOK'
    BY <2>1, <2>2 DEF DevicesIInv, ListOK, NoDuplicates
  <2>4. ClaimsOK'
    BY <1>1, <2>1, <2>2 DEF DevicesIInv, ClaimsOK, Booting
  <2> QED
    BY <2>1, <2>2, <2>3, <2>4 DEF DevicesIInv, CurrentOK
<1>7. CASE BringDriverOnline
  BY <1>7, BringDriverOnlineKeeps
<1>8. CASE PassEnds
  BY <1>8, PassEndsKeeps
<1>9. CASE \E p \in Servers : DeviceGet(p) \/ DeviceClaim(p) \/ DeviceMap(p) \/ UserException(p)
  BY <1>9, DeviceClaimKeeps, ServerKeeps
<1>10. CASE UNCHANGED deviceVars
  BY <1>1, <1>10, QuietStep DEF deviceVars, registry, boot, processes, PcStays
<1> QED
  BY <1>2, <1>3, <1>4, <1>5, <1>6, <1>7, <1>8, <1>9, <1>10 DEF DevicesNext

(* The kernel and the servers never share a device, and the primary output *)
(* is one of the outputs: RemoveKernelOutput takes a claimed device out of *)
(* the list, with its only entry, and BringBuiltinDriversOnline, which     *)
(* puts devices in, is over before the first claim.                        *)
THEOREM DevicesLetGo == DevicesSpec => []KernelLetsGo
<1>1. DevicesInit => DevicesIInv
  BY InitDevicesIInv
<1>2. DevicesIInv /\ [DevicesNext]_deviceVars => DevicesIInv'
  BY NextDevicesIInv
<1>3. DevicesIInv => KernelLetsGo
  BY InvariantLetsGo
<1> QED
  BY <1>1, <1>2, <1>3, PTL DEF DevicesSpec

-----------------------------------------------------------------------------
(* The log *)

(* The buffer holds the first messages, as many as fit; before FlushAllLogs *)
(* every message counts as unflushed.                                       *)
BufferOK ==
    /\ logged \in Nat /\ unflushed \in Nat /\ unflushed <= logged
    /\ logs_flushed \in BOOLEAN /\ (~logs_flushed => unflushed = logged)
    /\ logbuffer \in Seq(Nat) /\ \A i \in DOMAIN logbuffer : logbuffer[i] = i
    /\ Len(logbuffer) = IF logged < LOG_BUFSIZE THEN logged ELSE LOG_BUFSIZE - 1

(* The log is flushed when the kernel has booted, and the last words are   *)
(* written by a kernel that cannot go on.                                  *)
PhaseOK ==
    /\ panicking \in BOOLEAN
    /\ logs_flushed => ~Booting
    /\ pc \in {"banner", "registers", "backtrace", "advice"} => panicking

(* Message m is on an output; it was kept for the outputs. *)
IsShown(m) == \E d \in Devices : \E i \in DOMAIN shown[d] : shown[d][i] = m
IsKept(m) == m \in 1..logged /\ (m < LOG_BUFSIZE \/ m > unflushed)

(* Nothing is printed before FlushAllLogs, and afterwards an output grows  *)
(* by messages newer than all it shows.                                    *)
ShownOK ==
    ~panicking =>
        /\ shown \in [Devices -> Seq(Nat)]
        /\ \A d \in Devices : \A i \in DOMAIN shown[d] :
              /\ shown[d][i] <= logged
              /\ \A j \in DOMAIN shown[d] : i < j => shown[d][i] < shown[d][j]
        /\ ~logs_flushed => \A d \in Devices : shown[d] = << >>
        /\ logs_flushed /\ list # << >> => \A m : IsShown(m) <=> IsKept(m)

LogIInv == BufferOK /\ PhaseOK /\ ShownOK

LEMMA LogInvariantShows == LogIInv => LogIsShown
<1> SUFFICES ASSUME LogIInv, ~panicking PROVE LogIsShown
  BY DEF LogIsShown
<1>1. ASSUME logs_flushed, list # << >>
      PROVE  UNION {ToSet(shown[d]) : d \in Devices}
                 = {m \in 1..logged : m < LOG_BUFSIZE \/ m > unflushed}
  <2>1. \A m : m \in UNION {ToSet(shown[d]) : d \in Devices} <=> IsShown(m)
    BY DEF ToSet, IsShown
  <2>2. \A m : m \in {n \in 1..logged : n < LOG_BUFSIZE \/ n > unflushed} <=> IsKept(m)
    BY DEF IsKept
  <2>3. \A m : IsShown(m) <=> IsKept(m)
    BY <1>1 DEF LogIInv, ShownOK
  <2> QED
    BY <2>1, <2>2, <2>3
<1> QED
  BY <1>1 DEF LogIInv, ShownOK, LogIsShown

LEMMA InitLogIInv == DevicesInit => LogIInv
<1> SUFFICES ASSUME DevicesInit PROVE LogIInv
  OBVIOUS
<1>1. BufferOK
  <2>1. LOG_BUFSIZE \in Nat \ {0}
    BY DevicesAssumption
  <2>2. logged = 0 /\ unflushed = 0 /\ logs_flushed = FALSE /\ logbuffer = << >>
    BY DEF DevicesInit
  <2>3. logbuffer \in Seq(Nat) /\ Len(logbuffer) = 0 /\ DOMAIN logbuffer = {}
    BY <2>2
  <2>4. logged \in Nat /\ unflushed \in Nat /\ unflushed <= logged /\ unflushed = logged
    BY <2>2
  <2>6. logs_flushed \in BOOLEAN
    BY <2>2
  <2>5. Len(logbuffer) = IF logged < LOG_BUFSIZE THEN logged ELSE LOG_BUFSIZE - 1
    BY <2>1, <2>2, <2>3
  <2> QED
    BY <2>3, <2>4, <2>5, <2>6 DEF BufferOK
<1>2. PhaseOK
  BY DEF DevicesInit, PhaseOK, Booting
<1>3. ShownOK
  BY DEF DevicesInit, ShownOK
<1> QED
  BY <1>1, <1>2, <1>3 DEF LogIInv

(* Where a step may leave the kernel that is no fatal error. *)
PcPlain ==
    \/ pc' = pc
    \/ pc' = "stalled"
    \/ Booting /\ pc' \in {"early", "late", "flush"}

LEMMA PhaseKept ==
  ASSUME PhaseOK, UNCHANGED <<logs_flushed, panicking>>, PcPlain
  PROVE  PhaseOK'
  BY DEF PhaseOK, PcPlain, Booting

(* The list of outputs never becomes non-empty once the log is flushed. *)
LEMMA SilentStep ==
  ASSUME LogIInv, UNCHANGED log, UNCHANGED <<shown, panicking>>, PcPlain,
         list' = list
  PROVE  LogIInv'
<1>1. UNCHANGED <<logged, logbuffer, logs_flushed, unflushed>>
  BY DEF log
<1>2. BufferOK'
  BY <1>1 DEF LogIInv, BufferOK
<1>3. PhaseOK'
  BY <1>1, PhaseKept DEF LogIInv
<1>4. \A m : (IsShown(m)' <=> IsShown(m)) /\ (IsKept(m)' <=> IsKept(m))
  BY <1>1 DEF IsShown, IsKept
<1>5. ShownOK'
  BY <1>1, <1>4 DEF LogIInv, ShownOK
<1> QED
  BY <1>2, <1>3, <1>5 DEF LogIInv

LEMMA FatalStep ==
  ASSUME LogIInv, UNCHANGED log, panicking' = TRUE,
         pc' \in {"banner", "registers", "backtrace", "advice", "stalled", "reboot"}
  PROVE  LogIInv'
<1>1. UNCHANGED <<logged, logbuffer, logs_flushed, unflushed>>
  BY DEF log
<1>2. BufferOK'
  BY <1>1 DEF LogIInv, BufferOK
<1>3. PhaseOK'
  BY DEF PhaseOK, Booting
<1>4. ShownOK'
  BY DEF ShownOK
<1> QED
  BY <1>2, <1>3, <1>4 DEF LogIInv

(* While there is an output, what is printed goes to one of the devices. *)
LEMMA SomeOutput ==
  ASSUME DevicesIInv, list # << >>
  PROVE  \E d \in Devices : d \in Outputs
<1>1. current \in ToSet(list) /\ list \in Seq(Devices)
  BY DEF DevicesIInv, CurrentOK, ListOK
<1>2. current \in Devices
  BY <1>1 DEF ToSet
<1> QED
  BY <1>1, <1>2 DEF Outputs

LEMMA Concatenated ==
  ASSUME NEW s \in Seq(Nat), NEW t \in Seq(Nat), NEW v, v = s \o t
  PROVE  /\ v \in Seq(Nat)
         /\ \A i \in DOMAIN v :
               \/ i \in DOMAIN s /\ v[i] = s[i]
               \/ i > Len(s) /\ i - Len(s) \in DOMAIN t /\ v[i] = t[i - Len(s)]
         /\ \A i \in DOMAIN s : i \in DOMAIN v /\ v[i] = s[i]
         /\ \A i \in DOMAIN t : i + Len(s) \in DOMAIN v /\ v[i + Len(s)] = t[i]
  OBVIOUS

(* klog: the message is the newest, in the buffer, if there is room, and   *)
(* on the outputs, if the log has been flushed.                            *)
LEMMA BufferGrows ==
  ASSUME BufferOK, klog
  PROVE  BufferOK'
<1>1. /\ logged \in Nat /\ unflushed \in Nat /\ logs_flushed \in BOOLEAN
      /\ logged' = logged + 1 /\ logs_flushed' = logs_flushed
      /\ unflushed' = IF logs_flushed THEN unflushed ELSE logged + 1
      /\ unflushed <= logged
  BY DEF BufferOK, klog
<1>2. /\ logged' \in Nat /\ unflushed' \in Nat /\ unflushed' <= logged'
      /\ logs_flushed' \in BOOLEAN /\ (~logs_flushed' => unflushed' = logged')
  BY <1>1
<1>3. LOG_BUFSIZE \in Nat \ {0}
  BY DevicesAssumption
<1>4. /\ logbuffer \in Seq(Nat) /\ \A i \in DOMAIN logbuffer : logbuffer[i] = i
      /\ Len(logbuffer) = IF logged < LOG_BUFSIZE THEN logged ELSE LOG_BUFSIZE - 1
      /\ logbuffer' = IF Len(logbuffer) + 1 >= LOG_BUFSIZE THEN logbuffer ELSE Append(logbuffer, logged + 1)
  BY DEF BufferOK, klog
<1>5. CASE Len(logbuffer) + 1 >= LOG_BUFSIZE
  BY <1>1, <1>2, <1>3, <1>4, <1>5 DEF BufferOK
<1>6. CASE ~(Len(logbuffer) + 1 >= LOG_BUFSIZE)
  <2>1. logbuffer' = Append(logbuffer, logged + 1) /\ Len(logbuffer) = logged /\ logged + 1 < LOG_BUFSIZE
    BY <1>1, <1>3, <1>4, <1>6
  <2>2. logbuffer' \in Seq(Nat) /\ Len(logbuffer') = logged'
    BY <1>1, <1>4, <2>1
  <2>3. \A i \in DOMAIN logbuffer' : logbuffer'[i] = i
    BY <1>1, <1>4, <2>1
  <2> QED
    BY <1>1, <1>2, <1>3, <2>1, <2>2, <2>3 DEF BufferOK
<1> QED
  BY <1>5, <1>6

LEMMA ShownGrows ==
  ASSUME DevicesIInv, LogIInv, klog, panicking' = panicking,
         logs_flushed /\ list' # << >> => list # << >>
  PROVE  ShownOK'
<1> SUFFICES ASSUME ~panicking PROVE ShownOK'
  BY DEF ShownOK
<1>1. /\ logged \in Nat /\ unflushed \in Nat /\ unflushed <= logged
      /\ logged' = logged + 1 /\ logs_flushed' = logs_flushed /\ logs_flushed \in BOOLEAN
      /\ shown \in [Devices -> Seq(Nat)]
      /\ \A d \in Devices : \A i \in DOMAIN shown[d] :
            /\ shown[d][i] <= logged
            /\ \A j \in DOMAIN shown[d] : i < j => shown[d][i] < shown[d][j]
  BY DEF LogIInv, BufferOK, ShownOK, klog
<1>2. CASE ~logs_flushed
  <2>1. shown' = shown /\ \A d \in Devices : shown[d] = << >>
    BY <1>2 DEF LogIInv, ShownOK, klog
  <2> QED
    BY <1>1, <1>2, <2>1 DEF ShownOK
<1>3. CASE logs_flushed
  <2>1. shown' = PrintToOutputs(<<logged + 1>>) /\ unflushed' = unflushed
    BY <1>3 DEF klog
  <2>2. PICK t \in Seq(Nat) : t = <<logged + 1>>
    <3>1. \A n \in Nat : <<n>> \in Seq(Nat)
      OBVIOUS
    <3>2. logged + 1 \in Nat
      BY <1>1
    <3> QED
      BY <3>1, <3>2
  <2>3. DOMAIN t = {1} /\ Len(t) = 1 /\ t[1] = logged + 1
    BY <2>2
  <2>4. ASSUME NEW d \in Devices
        PROVE  /\ shown'[d] \in Seq(Nat)
               /\ \A i \in DOMAIN shown'[d] :
                     \/ i \in DOMAIN shown[d] /\ shown'[d][i] = shown[d][i]
                     \/ d \in Outputs /\ i = Len(shown[d]) + 1 /\ shown'[d][i] = logged + 1
               /\ \A i \in DOMAIN shown[d] : i \in DOMAIN shown'[d] /\ shown'[d][i] = shown[d][i]
               /\ d \in Outputs => \E i \in DOMAIN shown'[d] : shown'[d][i] = logged + 1
    <3>1. shown[d] \in Seq(Nat) /\ shown'[d] = IF d \in Outputs THEN shown[d] \o t ELSE shown[d]
      BY <1>1, <2>1, <2>2 DEF PrintToOutputs
    <3>2. CASE d \notin Outputs
      BY <3>1, <3>2
    <3>3. CASE d \in Outputs
      <4>a. PICK u \in Seq(Nat) : u = shown[d]
        BY <3>1
      <4>1. PICK v : u = shown[d] /\ v = u \o t /\ v = shown'[d]
        BY <3>1, <3>3, <4>a
      <4>2. /\ v \in Seq(Nat)
            /\ \A i \in DOMAIN v :
                  \/ i \in DOMAIN u /\ v[i] = u[i]
                  \/ i > Len(u) /\ i - Len(u) \in DOMAIN t /\ v[i] = t[i - Len(u)]
            /\ \A i \in DOMAIN u : i \in DOMAIN v /\ v[i] = u[i]
            /\ \A i \in DOMAIN t : i + Len(u) \in DOMAIN v /\ v[i + Len(u)] = t[i]
        <5>1. v = u \o t
          BY <4>1
        <5>2. v \in Seq(Nat)
          BY <5>1
        <5>3. \A i \in DOMAIN v :
                 \/ i \in DOMAIN u /\ v[i] = u[i]
                 \/ i > Len(u) /\ i - Len(u) \in DOMAIN t /\ v[i] = t[i - Len(u)]
          BY <5>1
        <5>4. \A i \in DOMAIN u : i \in DOMAIN v /\ v[i] = u[i]
          BY <5>1
        <5>5. \A i \in DOMAIN t : i + Len(u) \in DOMAIN v /\ v[i + Len(u)] = t[i]
          BY <5>1
        <5> QED
          BY <5>2, <5>3, <5>4, <5>5
      <4>3. 1 + Len(u) \in DOMAIN v /\ v[1 + Len(u)] = logged + 1
        BY <2>3, <4>2
      <4>4. \A i \in DOMAIN v : i \in Int
        BY <4>2
      <4>5. Len(u) \in Nat
        BY <4>1
      <4>6. \A i \in DOMAIN v :
                \/ i \in DOMAIN u /\ v[i] = u[i]
                \/ i = Len(u) + 1 /\ v[i] = logged + 1
        BY <2>3, <4>2, <4>4, <4>5
      <4> QED
        BY <3>3, <4>1, <4>2, <4>3, <4>6
    <3> QED
      BY <3>2, <3>3
  <2>5. shown' \in [Devices -> Seq(Nat)]
    BY <2>1, <2>4 DEF PrintToOutputs
  <2>6. ASSUME NEW d \in Devices, NEW i \in DOMAIN shown'[d]
        PROVE  /\ shown'[d][i] <= logged'
               /\ \A j \in DOMAIN shown'[d] : i < j => shown'[d][i] < shown'[d][j]
    <3>1. shown[d] \in Seq(Nat) /\ \A j \in DOMAIN shown[d] : shown[d][j] \in Nat /\ j <= Len(shown[d])
      BY <1>1
    <3>2. shown'[d] \in Seq(Nat) /\ \A j \in DOMAIN shown'[d] : shown'[d][j] \in Nat /\ j \in Nat
      BY <2>4
    <3>3. shown'[d][i] <= logged'
      <4>1. CASE i \in DOMAIN shown[d] /\ shown'[d][i] = shown[d][i]
        <5>1. shown[d][i] \in Nat /\ shown[d][i] <= logged
          BY <1>1, <3>1, <4>1
        <5> QED
          BY <1>1, <4>1, <5>1
      <4>2. CASE shown'[d][i] = logged + 1
        BY <1>1, <4>2
      <4> QED
        BY <2>4, <4>1, <4>2
    <3>4. ASSUME NEW j \in DOMAIN shown'[d], i < j PROVE shown'[d][i] < shown'[d][j]
      <4>1. CASE j \in DOMAIN shown[d]
        <5>1. i \in DOMAIN shown[d]
          <6>1. DOMAIN shown[d] = 1 .. Len(shown[d]) /\ DOMAIN shown'[d] = 1 .. Len(shown'[d])
            BY <3>1, <3>2
          <6>2. i \in Nat /\ i >= 1 /\ i < j /\ j <= Len(shown[d]) /\ Len(shown[d]) \in Nat
            BY <3>1, <3>2, <3>4, <4>1, <6>1
          <6> QED
            BY <6>1, <6>2
        <5> QED
          BY <1>1, <2>4, <3>4, <4>1, <5>1
      <4>2. CASE j \notin DOMAIN shown[d]
        <5>1. j = Len(shown[d]) + 1 /\ shown'[d][j] = logged + 1
          BY <2>4, <4>2
        <5>2. i \in DOMAIN shown[d] /\ shown'[d][i] = shown[d][i]
          BY <2>4, <3>1, <3>2, <3>4, <5>1
        <5> QED
          BY <1>1, <3>1, <5>1, <5>2
      <4> QED
        BY <4>1, <4>2
    <3> QED
      BY <3>3, <3>4
  <2>7. ASSUME list' # << >>, NEW m PROVE IsShown(m)' <=> IsKept(m)'
    <3>1. list # << >>
      BY <1>3, <2>7
    <3>2. IsShown(m) <=> IsKept(m)
      BY <1>3, <3>1 DEF LogIInv, ShownOK
    <3>3. PICK e \in Devices : e \in Outputs
      BY <3>1, SomeOutput
    <3>4. IsShown(m)' <=> IsShown(m) \/ m = logged + 1
      <4>1. ASSUME IsShown(m)' PROVE IsShown(m) \/ m = logged + 1
        <5>1. PICK d \in Devices : \E i \in DOMAIN shown'[d] : shown'[d][i] = m
          BY <4>1 DEF IsShown
        <5>2. PICK i \in DOMAIN shown'[d] : shown'[d][i] = m
          BY <5>1
        <5> QED
          BY <2>4, <5>2 DEF IsShown
      <4>2. ASSUME IsShown(m) PROVE IsShown(m)'
        <5>1. PICK d \in Devices : \E i \in DOMAIN shown[d] : shown[d][i] = m
          BY <4>2 DEF IsShown
        <5>2. \E i \in DOMAIN shown'[d] : shown'[d][i] = m
          BY <2>4, <5>1
        <5> QED
          BY <5>2 DEF IsShown
      <4>3. \E i \in DOMAIN shown'[e] : shown'[e][i] = logged + 1
        BY <2>4, <3>3
      <4>4. ASSUME m = logged + 1 PROVE IsShown(m)'
        BY <4>3, <4>4 DEF IsShown
      <4> QED
        BY <4>1, <4>2, <4>4
    <3>5. IsKept(m)' <=> IsKept(m) \/ m = logged + 1
      BY <1>1, <2>1, DevicesAssumption DEF IsKept
    <3> QED
      BY <3>2, <3>4, <3>5
  <2> QED
    BY <1>1, <1>3, <2>5, <2>6, <2>7 DEF ShownOK
<1> QED
  BY <1>1, <1>2, <1>3

-----------------------------------------------------------------------------
LEMMA KlogStep ==
  ASSUME DevicesIInv, LogIInv, klog, panicking' = panicking, PcPlain,
         logs_flushed /\ list' # << >> => list # << >>
  PROVE  LogIInv'
<1>1. BufferOK'
  BY BufferGrows DEF LogIInv
<1>2. PhaseOK'
  BY PhaseKept DEF LogIInv, klog
<1> QED
  BY <1>1, <1>2, ShownGrows DEF LogIInv

(* What the buffer holds comes first on every output. *)
LEMMA FlushAllLogsKeeps ==
  ASSUME DevicesIInv, LogIInv, FlushAllLogs
  PROVE  LogIInv'
<1>1. /\ UNCHANGED <<logged, logbuffer, unflushed, panicking, list>> /\ logs_flushed' = TRUE
      /\ pc = "flush" /\ pc' = "run"
  BY DEF FlushAllLogs, registry
<1>2. ~logs_flushed /\ panicking \in BOOLEAN
  BY <1>1 DEF LogIInv, PhaseOK, Booting
<1>3. /\ logged \in Nat /\ unflushed = logged /\ logbuffer \in Seq(Nat)
      /\ \A i \in DOMAIN logbuffer : logbuffer[i] = i
      /\ Len(logbuffer) = IF logged < LOG_BUFSIZE THEN logged ELSE LOG_BUFSIZE - 1
  BY <1>2 DEF LogIInv, BufferOK
<1>4. BufferOK'
  BY <1>1, <1>3 DEF BufferOK
<1>5. PhaseOK'
  BY <1>1, <1>2 DEF PhaseOK, Booting
<1>6. ASSUME ~panicking PROVE ShownOK'
  <2>1. /\ \A d \in Devices : shown[d] = << >>
        /\ shown' = PrintToOutputs(logbuffer)
    BY <1>2, <1>6 DEF LogIInv, ShownOK, FlushAllLogs
  <2>2. ASSUME NEW d \in Devices
        PROVE  shown'[d] = IF d \in Outputs THEN logbuffer ELSE << >>
    <3>1. << >> \o logbuffer = logbuffer
      BY <1>3
    <3> QED
      BY <2>1, <3>1 DEF PrintToOutputs
  <2>3. << >> \in Seq(Nat) /\ DOMAIN << >> = {}
    OBVIOUS
  <2>4. shown' \in [Devices -> Seq(Nat)]
    <3>1. \A d \in Devices : shown'[d] \in Seq(Nat)
      BY <1>3, <2>2, <2>3
    <3> QED
      BY <2>1, <3>1 DEF PrintToOutputs
  <2>5. LOG_BUFSIZE \in Nat \ {0}
    BY DevicesAssumption
  <2>6. /\ DOMAIN logbuffer = 1 .. Len(logbuffer) /\ Len(logbuffer) \in Nat
        /\ Len(logbuffer) <= logged /\ Len(logbuffer) < LOG_BUFSIZE
    BY <1>3, <2>5
  <2>7. ASSUME NEW d \in Devices, NEW i \in DOMAIN shown'[d]
        PROVE  /\ shown'[d][i] <= logged'
               /\ \A j \in DOMAIN shown'[d] : i < j => shown'[d][i] < shown'[d][j]
    <3>1. shown'[d] = logbuffer
      BY <2>2, <2>3
    <3> QED
      BY <1>1, <1>3, <2>6, <3>1
  <2>8. ASSUME list # << >>, NEW m PROVE IsShown(m)' <=> IsKept(m)'
    <3>1. PICK e \in Devices : e \in Outputs
      BY <2>8, SomeOutput
    <3>2. IsShown(m)' <=> \E i \in DOMAIN logbuffer : logbuffer[i] = m
      BY <2>2, <2>3, <3>1 DEF IsShown
    <3>3. (\E i \in DOMAIN logbuffer : logbuffer[i] = m) <=> m \in DOMAIN logbuffer
      BY <1>3
    <3>4. IsKept(m)' <=> m \in 1..logged /\ (m < LOG_BUFSIZE \/ m > logged)
      BY <1>1, <1>3 DEF IsKept
    <3>5. m \in DOMAIN logbuffer <=> m \in 1..logged /\ (m < LOG_BUFSIZE \/ m > logged)
      BY <1>3, <2>5, <2>6
    <3> QED
      BY <3>2, <3>3, <3>4, <3>5
  <2> QED
    BY <1>1, <2>4, <2>7, <2>8 DEF ShownOK
<1>7. ShownOK'
  BY <1>1, <1>6 DEF ShownOK
<1> QED
  BY <1>4, <1>5, <1>7 DEF LogIInv

LEMMA BringDriverOnlineLogs ==
  ASSUME DevicesIInv, LogIInv, BringDriverOnline
  PROVE  LogIInv'
<1>1. ~logs_flushed
  BY DEF LogIInv, PhaseOK, Booting, BringDriverOnline
<1>2. CASE UNCHANGED <<pc, panicking, shown, registry, log>>
  BY <1>2, SilentStep DEF PcPlain, registry
<1>3. CASE \E d \in Devices : Registered(d)
  BY <1>1, <1>3, KlogStep DEF Registered, PcPlain
<1>4. CASE Skipped
  BY <1>1, <1>4, KlogStep DEF Skipped, PcPlain
<1>5. CASE Faulted
  BY <1>5, FatalStep DEF Faulted, FatalError
<1>6. CASE klog /\ UNCHANGED <<tree, list, current, claimed, pc, panicking>>
  BY <1>1, <1>6, KlogStep DEF PcPlain
<1> QED
  BY <1>2, <1>3, <1>4, <1>5, <1>6
  DEF BringDriverOnline, Serial86Init, VGATextInit, VBE86DriverInit, Devices

LEMMA DeviceClaimLogs ==
  ASSUME DevicesIInv, LogIInv, NEW p \in Servers, DeviceClaim(p)
  PROVE  LogIInv'
<1>1. list' # << >> => list # << >>
  <2>1. CASE object[p] \notin ToSet(list)
    BY <2>1 DEF DeviceClaim, RemoveKernelOutput
  <2>2. CASE object[p] \in ToSet(list)
    BY <2>2 DEF ToSet
  <2> QED
    BY <2>1, <2>2
<1> QED
  BY <1>1, KlogStep DEF DeviceClaim, PcPlain

LEMMA NextLogIInv ==
  ASSUME DevicesIInv, LogIInv, [DevicesNext]_deviceVars
  PROVE  LogIInv'
<1>1. CASE LogMessage
  BY <1>1, KlogStep DEF LogMessage, PcPlain, registry
<1>2. CASE FlushAllLogs
  BY <1>2, FlushAllLogsKeeps
<1>3. CASE KernelException
  <2>1. CASE FatalError /\ UNCHANGED log
    BY <2>1, FatalStep DEF FatalError
  <2>2. CASE klog /\ pc' \in {pc, "stalled"} /\ UNCHANGED panicking
    BY <1>3, <2>2, KlogStep DEF KernelException, PcPlain, registry
  <2> QED
    BY <1>3, <2>1, <2>2 DEF KernelException
<1>4. CASE Panic
  <2>1. UNCHANGED log /\ pc' \in {"banner", "registers", "backtrace", "advice", "stalled", "reboot"}
    BY <1>4 DEF Panic, PanicStep, DumpRegisterValues, DumpBacktraceFromFramePointer, FatalError
  <2>2. pc \in {"banner", "registers", "backtrace", "advice"}
    BY <1>4 DEF Panic, PanicStep, DumpRegisterValues, DumpBacktraceFromFramePointer
  <2>3. panicking = TRUE
    BY <2>2 DEF LogIInv, PhaseOK
  <2>4. panicking' = TRUE
    BY <1>4, <2>3 DEF Panic, PanicStep, DumpRegisterValues, DumpBacktraceFromFramePointer, FatalError
  <2> QED
    BY <2>1, <2>4, FatalStep
<1>5. CASE InitDeviceManager
  <2>1. CASE klog /\ pc' = "early" /\ UNCHANGED panicking
    BY <1>5, <2>1, KlogStep DEF InitDeviceManager, PcPlain, Booting, registry
  <2>2. CASE FatalError /\ UNCHANGED log
    BY <2>2, FatalStep DEF FatalError
  <2> QED
    BY <1>5, <2>1, <2>2 DEF InitDeviceManager
<1>6. CASE BringDriverOnline
  BY <1>6, BringDriverOnlineLogs
<1>7. CASE PassEnds
  BY <1>7, SilentStep DEF PassEnds, PcPlain, Booting, registry
<1>8. ASSUME NEW p \in Servers, DeviceGet(p) PROVE LogIInv'
  BY <1>8, SilentStep DEF DeviceGet, PcPlain, registry
<1>9. ASSUME NEW p \in Servers, DeviceMap(p) PROVE LogIInv'
  <2>1. CASE FatalError
    BY <1>9, <2>1, FatalStep DEF DeviceMap, FatalError
  <2>2. CASE UNCHANGED <<pc, shown, panicking>>
    BY <1>9, <2>2, SilentStep DEF DeviceMap, PcPlain, registry
  <2> QED
    BY <1>9, <2>1, <2>2 DEF DeviceMap
<1>10. ASSUME NEW p \in Servers, UserException(p) PROVE LogIInv'
  BY <1>10, KlogStep DEF UserException, PcPlain, registry
<1>11. CASE UNCHANGED deviceVars
  BY <1>11, SilentStep DEF deviceVars, PcPlain, registry
<1> QED
  BY <1>1, <1>2, <1>3, <1>4, <1>5, <1>6, <1>7, <1>8, <1>9, <1>10, <1>11, DeviceClaimLogs
  DEF DevicesNext

(* Until a fatal error no output shows a message of klog twice or out of   *)
(* order, and once FlushAllLogs has run, every message that the buffer     *)
(* kept or that came later has been shown while there was an output,       *)
(* whatever the size of the buffer: FlushAllLogs prints the whole buffer   *)
(* before klog prints anything, and a device that is claimed leaves only   *)
(* after the message about it.                                             *)
THEOREM DevicesShowTheLog == DevicesSpec => []LogIsShown
<1>1. DevicesInit => DevicesIInv /\ LogIInv
  BY InitDevicesIInv, InitLogIInv
<1>2. DevicesIInv /\ LogIInv /\ [DevicesNext]_deviceVars => DevicesIInv' /\ LogIInv'
  BY NextDevicesIInv, NextLogIInv
<1>3. LogIInv => LogIsShown
  BY LogInvariantShows
<1> QED
  BY <1>1, <1>2, <1>3, PTL DEF DevicesSpec
=============================================================================
