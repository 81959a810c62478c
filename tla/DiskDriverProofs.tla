-------------------------- MODULE DiskDriverProofs -------------------------
(***************************************************************************)
(* The sector cache of idedrv, for any number of sectors and any size of   *)
(* the cache: what it holds is what the disks hold, and what is read       *)
(* through it is what the disks hold.  Where a request may name a sector   *)
(* in two ways, or a drive keeps an interrupt that nobody waits for, this  *)
(* is not so; the theorems say it as their assumptions.                    *)
(***************************************************************************)
EXTENDS DiskDriver, TLAPS

(* Clients name drives and sectors as the drive does. *)
NamesAreUnique == Masters \subseteq {0, 1} /\ Lbas \subseteq 0 .. LbaLimit - 1

Reading == {"lookup", "hit", "command", "wait", "load"}
Writing == {"write", "invalidate"}

Entry ==
    [valid : {0, 1}, bus : {0, 1}, master : Nat, lba : Nat, data : Data \cup {NullPointer}]

Status ==
    {"IDEDRV_SUCCESS", "IDEDRV_BUG_CHECK", "IDEDRV_HARDWARE_FAILURE",
     "IDEDRV_INVALID_HANDLE", "IDEDRV_OUT_OF_MEMORY"}

Places == {"absent", "start", "receive", "reply"} \cup Reading \cup Writing

DiskTypeOK ==
    /\ scan \in Nat
    /\ disk \in [Listeners -> [Sectors -> Data]]
    /\ cache \in [Index -> Entry]
    /\ n_cache_stored \in Index
    /\ pc \in [Listeners -> Places]
    /\ req \in [Listeners -> Request \cup {NullPointer}]
    /\ pos \in [Listeners -> Int]
    /\ buf \in [Listeners -> Data \cup {NullPointer}]
    /\ reply \in [Listeners -> Status]
    /\ drive \in [Listeners -> {"idle", "busy", "ready", "error"}]
    /\ irq \in [Listeners -> Nat]

(* A listener works on a request of the right kind. *)
RequestOK(b) ==
    /\ scan <= 4 + b => pc[b] = "absent"
    /\ pc[b] \in Reading => req[b] \in Request /\ req[b].op = "read"
    /\ pc[b] \in Writing => req[b] \in Request /\ req[b].op = "write" /\ buf[b] \in Data

(* An interrupt waits for the listener only if the listener waits for it. *)
DriveOK(b) ==
    \/ pc[b] = "wait" /\ drive[b] = "busy" /\ irq[b] = 0
    \/ pc[b] = "wait" /\ drive[b] \in {"ready", "error"} /\ irq[b] = 1
    \/ pc[b] # "wait" /\ drive[b] = "idle" /\ irq[b] = 0

(* The sector to be loaded is in no position: only b caches sectors of its *)
(* bus.                                                                    *)
LoadOK(b) ==
    /\ pc[b] \in {"command", "wait", "load"} => \A i \in Index : ~Cached(i, b, req[b])
    /\ pc[b] = "load" => buf[b] = disk[b][SectorOf(req[b])]

HitOK(b) ==
    pc[b] = "hit" => pos[b] \in Index /\ (b \notin misled => Cached(pos[b], b, req[b]))

FreshOK(b) ==
    (b \notin misled /\ pc[b] = "reply" /\ reply[b] = "IDEDRV_SUCCESS" /\ req[b].op = "read")
        => buf[b] = disk[b][SectorOf(req[b])]

Local(b) == RequestOK(b) /\ DriveOK(b) /\ LoadOK(b) /\ HitOK(b) /\ FreshOK(b)

Stale(i) ==
    /\ pc[cache[i].bus] = "invalidate"
    /\ Matches(cache[i], cache[i].bus, req[cache[i].bus])

EntryOK(i) ==
    cache[i].valid # 0 =>
        /\ cache[i].bus \in Listeners /\ cache[i].master \in Masters /\ cache[i].lba \in Lbas
        /\ i \in torn \/ Stale(i) \/ cache[i].data = disk[cache[i].bus][SectorOf(cache[i])]

Once ==
    \A i, j \in Index :
        (cache[i].valid # 0 /\ cache[j].valid # 0 /\ Matches(cache[i], cache[j].bus, cache[j]))
            => i = j

DiskIInv ==
    /\ DiskTypeOK
    /\ \A b \in Listeners : Local(b)
    /\ \A i \in Index : EntryOK(i)
    /\ Once

LEMMA InvariantIsCoherent == DiskIInv => CacheCoherent /\ ReadsAreFresh
<1> SUFFICES ASSUME DiskIInv PROVE CacheCoherent /\ ReadsAreFresh
  OBVIOUS
<1>1. CacheCoherent
  BY DEF DiskIInv, EntryOK, Stale, Once, CacheCoherent
<1>2. ReadsAreFresh
  BY DEF DiskIInv, Local, FreshOK, ReadsAreFresh
<1> QED
  BY <1>1, <1>2

LEMMA InitDiskIInv == Init => DiskIInv
<1> SUFFICES ASSUME Init PROVE DiskIInv
  OBVIOUS
<1>1. Zeroed \in Entry /\ Zeroed.valid = 0 /\ 0 \in Index
  BY DiskDriverAssumption DEF Zeroed, Entry, Index
<1>2. DiskTypeOK
  <2>1. disk \in [Listeners -> [Sectors -> Data]]
    BY DEF Init
  <2>2. cache \in [Index -> Entry] /\ n_cache_stored \in Index /\ scan \in Nat
    BY <1>1 DEF Init
  <2>3. /\ pos \in [Listeners -> Int] /\ irq \in [Listeners -> Nat]
        /\ req \in [Listeners -> Request \cup {NullPointer}]
        /\ buf \in [Listeners -> Data \cup {NullPointer}]
    BY DEF Init
  <2>4. /\ pc \in [Listeners -> Places]
        /\ reply \in [Listeners -> Status]
        /\ drive \in [Listeners -> {"idle", "busy", "ready", "error"}]
    BY DEF Init, Places, Status
  <2> QED
    BY <2>1, <2>2, <2>3, <2>4 DEF DiskTypeOK
<1>3. \A i \in Index : cache[i].valid = 0
  BY <1>1 DEF Init
<1>4. \A b \in Listeners : Local(b)
  BY DEF Init, Local, RequestOK, DriveOK, LoadOK, HitOK, FreshOK, Reading, Writing
<1> QED
  BY <1>2, <1>3, <1>4 DEF DiskIInv, EntryOK, Once

-----------------------------------------------------------------------------
(* What a step does not touch *)

Untouched(c) ==
    /\ pc'[c] = pc[c] /\ req'[c] = req[c] /\ pos'[c] = pos[c] /\ buf'[c] = buf[c]
    /\ reply'[c] = reply[c] /\ drive'[c] = drive[c] /\ irq'[c] = irq[c]
    /\ disk'[c] = disk[c]
    /\ scan' = scan

(* Another listener's step: it may only take entries of c's bus away from  *)
(* the cache, and says so when c has found one of them.                    *)
LEMMA LocalKept ==
  ASSUME NEW c \in Listeners, Local(c), Untouched(c),
         \A i \in Index : Cached(i, c, req[c])' => Cached(i, c, req[c]),
         c \notin misled' => c \notin misled,
         pc[c] = "hit" /\ c \notin misled' => Cached(pos[c], c, req[c])'
  PROVE  Local(c)'
<1>1. RequestOK(c)' /\ DriveOK(c)'
  BY DEF Local, RequestOK, DriveOK, Untouched
<1>2. LoadOK(c)'
  BY DEF Local, LoadOK, Untouched, Cached
<1>3. HitOK(c)'
  BY DEF Local, HitOK, Untouched, Cached
<1>4. FreshOK(c)'
  BY DEF Local, FreshOK, Untouched
<1> QED
  BY <1>1, <1>2, <1>3, <1>4 DEF Local

(* A step that leaves the cache, the disks and the invalidations alone. *)
LEMMA CacheKept ==
  ASSUME DiskIInv, UNCHANGED <<cache, disk, torn>>,
         \A c \in Listeners : pc[c] = "invalidate" => pc'[c] = "invalidate" /\ req'[c] = req[c]
  PROVE  (\A i \in Index : EntryOK(i)') /\ Once'
<1>1. ASSUME NEW i \in Index PROVE EntryOK(i)'
  <2>1. EntryOK(i)
    BY DEF DiskIInv
  <2>2. cache[i].bus \in Listeners /\ Stale(i) => Stale(i)'
    BY DEF Stale
  <2> QED
    BY <2>1, <2>2 DEF EntryOK
<1>2. Once'
  BY DEF DiskIInv, Once
<1> QED
  BY <1>1, <1>2

OnlyOf(b) == \A c \in Listeners \ {b} : Untouched(c)

LEMMA QuietStep ==
  ASSUME DiskIInv, NEW b \in Listeners, DiskTypeOK', OnlyOf(b), Local(b)',
         UNCHANGED <<cache, disk, torn>>,
         \A c \in Listeners \ {b} : c \in misled' <=> c \in misled,
         pc[b] = "invalidate" => pc'[b] = "invalidate" /\ req'[b] = req[b]
  PROVE  DiskIInv'
<1>1. ASSUME NEW c \in Listeners PROVE Local(c)'
  <2>1. CASE c = b
    BY <2>1
  <2>2. CASE c # b
    <3>1. Local(c) /\ Untouched(c) /\ (c \in misled' <=> c \in misled)
      BY <2>2 DEF DiskIInv, OnlyOf
    <3>2. \A i \in Index : Cached(i, c, req[c])' <=> Cached(i, c, req[c])
      BY <3>1 DEF Cached, Untouched
    <3>3. pc[c] = "hit" /\ c \notin misled' => Cached(pos[c], c, req[c])'
      BY <3>1 DEF Local, HitOK, Cached, Untouched
    <3> QED
      BY <3>1, <3>2, <3>3, LocalKept
  <2> QED
    BY <2>1, <2>2
<1>2. \A c \in Listeners : pc[c] = "invalidate" => pc'[c] = "invalidate" /\ req'[c] = req[c]
  BY DEF OnlyOf, Untouched
<1>3. (\A i \in Index : EntryOK(i)') /\ Once'
  BY <1>2, CacheKept
<1> QED
  BY <1>1, <1>3 DEF DiskIInv

-----------------------------------------------------------------------------
(* Starting *)

LEMMA IdentifyDriveKeeps ==
  ASSUME DiskIInv, IdentifyDrive
  PROVE  DiskIInv'
<1>1. /\ UNCHANGED <<disk, cache, n_cache_stored, drive, irq, pc, req, pos, buf, reply, torn, misled>>
      /\ scan \in 0 .. 3 /\ scan' = scan + 1
  BY DEF IdentifyDrive, driverVars, history
<1>2. DiskTypeOK'
  BY <1>1 DEF DiskIInv, DiskTypeOK
<1>3. ASSUME NEW c \in Listeners PROVE Local(c)'
  <2>1. Local(c) /\ c \in {0, 1}
    BY DiskDriverAssumption DEF DiskIInv
  <2>2. pc[c] = "absent"
    BY <1>1, <2>1 DEF Local, RequestOK
  <2>3. drive[c] = "idle" /\ irq[c] = 0
    BY <2>1, <2>2 DEF Local, DriveOK
  <2> QED
    BY <1>1, <2>2, <2>3
    DEF Local, RequestOK, DriveOK, LoadOK, HitOK, FreshOK, Reading, Writing
<1>4. (\A i \in Index : EntryOK(i)') /\ Once'
  BY <1>1, CacheKept
<1> QED
  BY <1>2, <1>3, <1>4 DEF DiskIInv

LEMMA SpawnListenerKeeps ==
  ASSUME DiskIInv, SpawnListener
  PROVE  DiskIInv'
<1>1. /\ UNCHANGED <<disk, cache, n_cache_stored, drive, irq, req, pos, buf, reply, torn, misled>>
      /\ scan \in {4, 5} /\ scan' = scan + 1
      /\ pc' \in {pc} \cup {[pc EXCEPT ![b] = "start"] : b \in Listeners \cap {scan - 4}}
  BY DEF SpawnListener, history
<1>2. pc \in [Listeners -> Places] /\ pc' \in [Listeners -> Places]
  BY <1>1 DEF DiskIInv, DiskTypeOK, Places
<1>3. DiskTypeOK'
  BY <1>1, <1>2 DEF DiskIInv, DiskTypeOK
<1>4. \A c \in Listeners : Local(c) /\ c \in {0, 1}
  BY DiskDriverAssumption DEF DiskIInv
<1>5. \A c \in Listeners :
          \/ pc'[c] = pc[c] /\ (scan' <= 4 + c => scan <= 4 + c)
          \/ pc[c] = "absent" /\ pc'[c] = "start" /\ ~(scan' <= 4 + c)
  BY <1>1, <1>2, <1>4 DEF Local, RequestOK
<1>6. ASSUME NEW c \in Listeners PROVE Local(c)'
  <2>1. CASE pc'[c] = pc[c] /\ (scan' <= 4 + c => scan <= 4 + c)
    <3>1. RequestOK(c)' /\ DriveOK(c)'
      BY <1>1, <1>4, <2>1 DEF Local, RequestOK, DriveOK
    <3>2. LoadOK(c)' /\ HitOK(c)' /\ FreshOK(c)'
      BY <1>1, <1>4, <2>1 DEF Local, LoadOK, HitOK, FreshOK, Cached
    <3> QED
      BY <3>1, <3>2 DEF Local
  <2>2. CASE pc[c] = "absent" /\ pc'[c] = "start" /\ ~(scan' <= 4 + c)
    <3>1. drive[c] = "idle" /\ irq[c] = 0
      BY <1>4, <2>2 DEF Local, DriveOK
    <3> QED
      BY <1>1, <2>2, <3>1
      DEF Local, RequestOK, DriveOK, LoadOK, HitOK, FreshOK, Reading, Writing
  <2> QED
    BY <1>5, <2>1, <2>2
<1>7. \A c \in Listeners : pc[c] = "invalidate" => pc'[c] = "invalidate" /\ req'[c] = req[c]
  BY <1>1, <1>5
<1>8. (\A i \in Index : EntryOK(i)') /\ Once'
  BY <1>1, <1>7, CacheKept
<1> QED
  BY <1>3, <1>6, <1>8 DEF DiskIInv

LEMMA StartListenerKeeps ==
  ASSUME DiskIInv, NEW b \in Listeners, StartListener(b)
  PROVE  DiskIInv'
<1>1. PICK to \in {"receive", "absent"} :
        /\ pc[b] = "start" /\ pc' = [pc EXCEPT ![b] = to] /\ scan' = scan
        /\ UNCHANGED <<disk, cache, n_cache_stored, req, pos, buf, reply, drive, irq, torn, misled>>
  BY DEF StartListener, At, startVars, history
<1>2. DiskTypeOK'
  BY <1>1 DEF DiskIInv, DiskTypeOK, Places
<1>3. OnlyOf(b)
  BY <1>1 DEF DiskIInv, DiskTypeOK, OnlyOf, Untouched
<1>4. pc'[b] = to /\ Local(b)
  BY <1>1 DEF DiskIInv, DiskTypeOK
<1>5. Local(b)'
  BY <1>1, <1>4
  DEF Local, RequestOK, DriveOK, LoadOK, HitOK, FreshOK, Reading, Writing
<1> QED
  BY <1>1, <1>2, <1>3, <1>5, QuietStep

-----------------------------------------------------------------------------
(* Steps of a listener that leave the cache and the disks alone *)

LEMMA ReceiveKeeps ==
  ASSUME DiskIInv, NEW b \in Listeners, NEW r \in Requests[b], Receive(b, r)
  PROVE  DiskIInv'
<1>1. r \in Request
  BY DiskDriverAssumption
<1>2. /\ pc[b] = "receive" /\ scan' = scan
      /\ pc' = [pc EXCEPT ![b] = IF r.op = "read" THEN "lookup" ELSE "write"]
      /\ req' = [req EXCEPT ![b] = r]
      /\ UNCHANGED <<disk, cache, n_cache_stored, pos, reply, drive, irq, torn, misled>>
  BY DEF Receive, At, startVars, history
<1>3. PICK d \in IF r.op = "write" THEN Data ELSE {NullPointer} : buf' = [buf EXCEPT ![b] = d]
  BY DEF Receive
<1>4. DiskTypeOK'
  BY <1>1, <1>2, <1>3 DEF DiskIInv, DiskTypeOK, Places, Reading, Writing
<1>5. OnlyOf(b)
  BY <1>2, <1>3 DEF DiskIInv, DiskTypeOK, OnlyOf, Untouched
<1>6. /\ pc'[b] = (IF r.op = "read" THEN "lookup" ELSE "write")
      /\ req'[b] = r /\ buf'[b] = d /\ Local(b)
  BY <1>2, <1>3 DEF DiskIInv, DiskTypeOK
<1>7. r.op \in {"read", "write"}
  BY <1>1 DEF Request
<1>8. Local(b)'
  BY <1>1, <1>2, <1>3, <1>6, <1>7
  DEF Local, RequestOK, DriveOK, LoadOK, HitOK, FreshOK, Reading, Writing
<1> QED
  BY <1>2, <1>4, <1>5, <1>8, QuietStep

LEMMA RefuseKeeps ==
  ASSUME DiskIInv, NEW b \in Listeners, Refuse(b)
  PROVE  DiskIInv'
<1>1. PICK s \in {"IDEDRV_INVALID_HANDLE", "IDEDRV_OUT_OF_MEMORY"} :
        /\ reply' = [reply EXCEPT ![b] = s]
        /\ pc[b] = "receive" /\ pc' = [pc EXCEPT ![b] = "reply"] /\ scan' = scan
        /\ UNCHANGED <<disk, cache, n_cache_stored, req, pos, buf, drive, irq, torn, misled>>
  BY DEF Refuse, Answer, At, startVars, history
<1>2. DiskTypeOK'
  BY <1>1 DEF DiskIInv, DiskTypeOK, Places, Status
<1>3. OnlyOf(b)
  BY <1>1 DEF DiskIInv, DiskTypeOK, OnlyOf, Untouched
<1>4. pc'[b] = "reply" /\ reply'[b] = s /\ Local(b)
  BY <1>1 DEF DiskIInv, DiskTypeOK
<1>5. Local(b)'
  BY <1>1, <1>4
  DEF Local, RequestOK, DriveOK, LoadOK, HitOK, FreshOK, Reading, Writing
<1> QED
  BY <1>1, <1>2, <1>3, <1>5, QuietStep

LEMMA SendReplyKeeps ==
  ASSUME DiskIInv, NEW b \in Listeners, SendReply(b)
  PROVE  DiskIInv'
<1>1. /\ pc[b] = "reply" /\ pc' = [pc EXCEPT ![b] = "receive"] /\ scan' = scan
      /\ req' = [req EXCEPT ![b] = NullPointer]
      /\ buf' = [buf EXCEPT ![b] = NullPointer]
      /\ pos' = [pos EXCEPT ![b] = -1]
      /\ reply' = [reply EXCEPT ![b] = "IDEDRV_SUCCESS"]
      /\ misled' = misled \ {b}
      /\ UNCHANGED <<disk, cache, n_cache_stored, drive, irq, torn>>
  BY DEF SendReply, Answer, At, startVars
<1>2. DiskTypeOK'
  BY <1>1 DEF DiskIInv, DiskTypeOK, Places, Status
<1>3. OnlyOf(b)
  BY <1>1 DEF DiskIInv, DiskTypeOK, OnlyOf, Untouched
<1>4. pc'[b] = "receive" /\ Local(b)
  BY <1>1 DEF DiskIInv, DiskTypeOK
<1>5. Local(b)'
  BY <1>1, <1>4
  DEF Local, RequestOK, DriveOK, LoadOK, HitOK, FreshOK, Reading, Writing
<1> QED
  BY <1>1, <1>2, <1>3, <1>5, QuietStep

(* A sector is in one position at most, which is then the first. *)
LEMMA FoundOnce ==
  ASSUME DiskIInv, NEW b, NEW r, NEW i \in Index, Cached(i, b, r)
  PROVE  Min({j \in Index : Cached(j, b, r)}) = i
<1>1. ASSUME NEW j \in Index, Cached(j, b, r) PROVE j = i
  BY <1>1 DEF DiskIInv, Once, Cached, Matches
<1>2. {j \in Index : Cached(j, b, r)} = {i}
  BY <1>1
<1>3. i \in Int
  BY DiskDriverAssumption DEF Index
<1>4. Min({i}) = i
  BY <1>3 DEF Min
<1> QED
  BY <1>2, <1>4

LEMMA CheckCacheForSectorKeeps ==
  ASSUME DiskIInv, NEW b \in Listeners, CheckCacheForSector(b)
  PROVE  DiskIInv'
<1> DEFINE found == {i \in Index : Cached(i, b, req[b])}
<1>1. /\ pc[b] = "lookup" /\ scan' = scan
      /\ pc' = [pc EXCEPT ![b] = IF found = {} THEN "command" ELSE "hit"]
      /\ pos' = [pos EXCEPT ![b] = IF found = {} THEN -1 ELSE Min(found)]
      /\ UNCHANGED <<disk, cache, n_cache_stored, req, buf, reply, drive, irq, torn, misled>>
  BY DEF CheckCacheForSector, At, startVars, history
<1>2. found # {} => Min(found) \in Index /\ Cached(Min(found), b, req[b])
  BY FoundOnce
<1>3. Index \subseteq Int
  BY DiskDriverAssumption DEF Index
<1>4. DiskTypeOK'
  <2>1. (IF found = {} THEN -1 ELSE Min(found)) \in Int
    <3>1. CASE found = {}
      <4>1. -1 \in Int
        OBVIOUS
      <4> QED
        BY <3>1, <4>1, Zenon
    <3>2. CASE found # {}
      <4>1. Min(found) \in Int
        BY <1>2, <1>3, <3>2, Zenon
      <4> QED
        BY <3>2, <4>1, Zenon
    <3> QED
      BY <3>1, <3>2
  <2>2. pos' \in [Listeners -> Int]
    BY <1>1, <2>1 DEF DiskIInv, DiskTypeOK
  <2>3. pc' \in [Listeners -> Places]
    BY <1>1 DEF DiskIInv, DiskTypeOK, Places, Reading
  <2> QED
    BY <1>1, <2>2, <2>3 DEF DiskIInv, DiskTypeOK
<1>5. OnlyOf(b)
  BY <1>1 DEF DiskIInv, DiskTypeOK, OnlyOf, Untouched
<1>6. /\ pc'[b] = (IF found = {} THEN "command" ELSE "hit")
      /\ pos'[b] = (IF found = {} THEN -1 ELSE Min(found))
      /\ Local(b)
  BY <1>1 DEF DiskIInv, DiskTypeOK
<1>7. \A i : Cached(i, b, req[b])' <=> Cached(i, b, req[b])
  BY <1>1 DEF Cached
<1>8. LoadOK(b)' /\ HitOK(b)'
  <2>1. req'[b] = req[b] /\ misled' = misled
    BY <1>1
  <2>2. CASE found = {}
    <3>1. pc'[b] = "command" /\ \A i \in Index : ~Cached(i, b, req[b])'
      BY <1>6, <1>7, <2>2
    <3> QED
      BY <3>1 DEF LoadOK, HitOK
  <2>3. CASE found # {}
    <3>1. pc'[b] = "hit" /\ pos'[b] = Min(found)
      BY <1>6, <2>3
    <3>2. pos'[b] \in Index /\ Cached(pos'[b], b, req[b])
      BY <1>2, <2>3, <3>1
    <3> HIDE DEF found
    <3>3. PICK i : i = pos'[b]
      OBVIOUS
    <3>4. i \in Index /\ Cached(i, b, req[b])'
      BY <1>7, <3>2, <3>3
    <3>5. Cached(pos[b], b, req[b])'
      BY <3>3, <3>4 DEF Cached
    <3> QED
      BY <3>1, <3>2, <3>5 DEF LoadOK, HitOK
  <2> QED
    BY <2>2, <2>3
<1>9. RequestOK(b)' /\ DriveOK(b)' /\ FreshOK(b)'
  BY <1>1, <1>6 DEF Local, RequestOK, DriveOK, FreshOK, Reading, Writing
<1>10. Local(b)'
  BY <1>8, <1>9 DEF Local
<1> QED
  BY <1>1, <1>4, <1>5, <1>10, QuietStep

LEMMA ReadFromCacheKeeps ==
  ASSUME DiskIInv, NEW b \in Listeners, ReadFromCache(b)
  PROVE  DiskIInv'
<1>1. /\ pc[b] = "hit" /\ pc' = [pc EXCEPT ![b] = "reply"] /\ scan' = scan
      /\ buf' = IF cache[pos[b]].valid # 0 THEN [buf EXCEPT ![b] = cache[pos[b]].data] ELSE buf
      /\ reply' = [reply EXCEPT ![b] = "IDEDRV_SUCCESS"]
      /\ misled' = IF pos[b] \in torn THEN misled \cup {b} ELSE misled
      /\ UNCHANGED <<disk, cache, n_cache_stored, req, pos, drive, irq, torn>>
  BY DEF ReadFromCache, Answer, At, startVars
<1>2. Local(b) /\ pos[b] \in Index
  BY <1>1 DEF DiskIInv, Local, HitOK
<1>3. cache[pos[b]].data \in Data \cup {NullPointer}
  BY <1>2 DEF DiskIInv, DiskTypeOK, Entry
<1>4. DiskTypeOK'
  BY <1>1, <1>3 DEF DiskIInv, DiskTypeOK, Places, Status
<1>5. OnlyOf(b)
  BY <1>1 DEF DiskIInv, DiskTypeOK, OnlyOf, Untouched
<1>6. pc'[b] = "reply"
  BY <1>1 DEF DiskIInv, DiskTypeOK
<1>7. FreshOK(b)'
  <2> SUFFICES ASSUME b \notin misled' PROVE buf'[b] = disk[b][SectorOf(req[b])]
    BY <1>1 DEF FreshOK
  <2>1. b \notin misled /\ pos[b] \notin torn
    BY <1>1
  <2>2. Cached(pos[b], b, req[b])
    BY <1>1, <1>2, <2>1 DEF Local, HitOK
  <2>3. cache[pos[b]].data = disk[b][SectorOf(cache[pos[b]])]
    BY <1>1, <1>2, <2>1, <2>2 DEF DiskIInv, EntryOK, Stale, Cached, Matches
  <2>4. SectorOf(cache[pos[b]]) = SectorOf(req[b])
    BY <2>2 DEF Cached, Matches, SectorOf
  <2>5. buf'[b] = cache[pos[b]].data
    BY <1>1, <2>2 DEF Cached, DiskIInv, DiskTypeOK
  <2> QED
    BY <2>3, <2>4, <2>5
<1>8. RequestOK(b)' /\ DriveOK(b)' /\ LoadOK(b)' /\ HitOK(b)'
  BY <1>1, <1>2, <1>6 DEF Local, RequestOK, DriveOK, LoadOK, HitOK, Reading, Writing
<1>9. Local(b)'
  BY <1>7, <1>8 DEF Local
<1>10. \A c \in Listeners \ {b} : c \in misled' <=> c \in misled
  BY <1>1
<1> QED
  BY <1>1, <1>4, <1>5, <1>9, <1>10, QuietStep

LEMMA RequestReadKeeps ==
  ASSUME DiskIInv, NEW b \in Listeners, RequestRead(b)
  PROVE  DiskIInv'
<1>1. /\ pc[b] = "command" /\ pc' = [pc EXCEPT ![b] = "wait"] /\ scan' = scan
      /\ drive' = [drive EXCEPT ![b] = "busy"]
      /\ UNCHANGED <<disk, cache, n_cache_stored, req, pos, buf, reply, irq, torn, misled>>
  BY DEF RequestRead, At, startVars, history
<1>2. DiskTypeOK'
  BY <1>1 DEF DiskIInv, DiskTypeOK, Places, Reading
<1>3. OnlyOf(b)
  BY <1>1 DEF DiskIInv, DiskTypeOK, OnlyOf, Untouched
<1>4. pc'[b] = "wait" /\ drive'[b] = "busy" /\ Local(b)
  BY <1>1 DEF DiskIInv, DiskTypeOK
<1>5. LoadOK(b)'
  BY <1>1, <1>4 DEF Local, LoadOK, Cached
<1>6. RequestOK(b)' /\ DriveOK(b)' /\ HitOK(b)' /\ FreshOK(b)'
  BY <1>1, <1>4 DEF Local, RequestOK, DriveOK, HitOK, FreshOK, Reading, Writing
<1>7. Local(b)'
  BY <1>5, <1>6 DEF Local
<1> QED
  BY <1>1, <1>2, <1>3, <1>7, QuietStep

LEMMA FirstInterrupt == Raised(0) = 1
<1>1. Min({1, 2}) = 1
  BY DEF Min
<1> QED
  BY <1>1 DEF Raised

LEMMA DriveInterruptsKeeps ==
  ASSUME DiskIInv, NEW b \in Listeners, DriveInterrupts(b)
  PROVE  DiskIInv'
<1>1. PICK s \in {"ready", "error"} :
        /\ drive[b] = "busy" /\ drive' = [drive EXCEPT ![b] = s]
        /\ irq' = [irq EXCEPT ![b] = Raised(irq[b])]
        /\ UNCHANGED <<disk, cache, n_cache_stored, scan, pc, req, pos, buf, reply, torn, misled>>
  BY DEF DriveInterrupts, startVars, driverVars, history
<1>2. Local(b) /\ pc[b] = "wait" /\ irq[b] = 0
  BY <1>1 DEF DiskIInv, Local, DriveOK
<1>3. irq' = [irq EXCEPT ![b] = 1]
  BY <1>1, <1>2, FirstInterrupt
<1>4. DiskTypeOK'
  BY <1>1, <1>3 DEF DiskIInv, DiskTypeOK
<1>5. OnlyOf(b)
  BY <1>1, <1>3 DEF DiskIInv, DiskTypeOK, OnlyOf, Untouched
<1>6. drive'[b] = s /\ irq'[b] = 1
  BY <1>1, <1>3 DEF DiskIInv, DiskTypeOK
<1>7. LoadOK(b)'
  BY <1>1, <1>2 DEF Local, LoadOK, Cached
<1>8. RequestOK(b)' /\ DriveOK(b)' /\ HitOK(b)' /\ FreshOK(b)'
  BY <1>1, <1>2, <1>6 DEF Local, RequestOK, DriveOK, HitOK, FreshOK, Reading, Writing
<1>9. Local(b)'
  BY <1>7, <1>8 DEF Local
<1> QED
  BY <1>1, <1>4, <1>5, <1>9, QuietStep

LEMMA SectorExists ==
  ASSUME NEW r \in Request
  PROVE  SectorOf(r) \in Sectors
<1>1. r.lba \in Nat /\ LbaLimit \in Nat \ {0}
  BY DiskDriverAssumption DEF Request
<1>2. r.lba % LbaLimit \in 0 .. LbaLimit - 1
  BY <1>1
<1>3. (IF r.master = 0 THEN 0 ELSE 1) \in {0, 1}
  OBVIOUS
<1> QED
  BY <1>2, <1>3 DEF SectorOf, Sectors

LEMMA TakeDataKeeps ==
  ASSUME DiskIInv, NEW b \in Listeners, TakeData(b)
  PROVE  DiskIInv'
<1>1. /\ pc[b] = "wait" /\ irq[b] > 0 /\ Local(b)
      /\ irq' = [irq EXCEPT ![b] = irq[b] - 1]
      /\ drive' = [drive EXCEPT ![b] = IF drive[b] = "busy" THEN "busy" ELSE "idle"]
      /\ UNCHANGED <<disk, cache, n_cache_stored, scan, req, pos, torn, misled>>
  BY DEF TakeData, startVars, history, DiskIInv
<1>2. drive[b] \in {"ready", "error"} /\ irq[b] = 1
  BY <1>1 DEF Local, DriveOK
<1>3. irq' = [irq EXCEPT ![b] = 0] /\ drive' = [drive EXCEPT ![b] = "idle"]
  <2>1. irq[b] - 1 = 0 /\ drive[b] # "busy"
    BY <1>2
  <2> QED
    BY <1>1, <2>1, Zenon
<1>4. irq'[b] = 0 /\ drive'[b] = "idle"
  BY <1>3 DEF DiskIInv, DiskTypeOK
<1>5. req[b] \in Request /\ req[b].op = "read"
  BY <1>1 DEF Local, RequestOK, Reading
<1>6. CASE /\ drive[b] = "error" /\ UNCHANGED buf
           /\ pc' = [pc EXCEPT ![b] = "reply"]
           /\ reply' = [reply EXCEPT ![b] = "IDEDRV_BUG_CHECK"]
  <2>1. DiskTypeOK'
    BY <1>1, <1>3, <1>6 DEF DiskIInv, DiskTypeOK, Places, Status
  <2>2. OnlyOf(b)
    BY <1>1, <1>3, <1>6 DEF DiskIInv, DiskTypeOK, OnlyOf, Untouched
  <2>3. pc'[b] = "reply" /\ reply'[b] = "IDEDRV_BUG_CHECK"
    BY <1>6 DEF DiskIInv, DiskTypeOK
  <2>4. Local(b)'
    BY <1>1, <1>4, <2>3
    DEF Local, RequestOK, DriveOK, LoadOK, HitOK, FreshOK, Reading, Writing
  <2> QED
    BY <1>1, <2>1, <2>2, <2>4, QuietStep
<1>7. CASE /\ drive[b] = "ready" /\ UNCHANGED reply
           /\ pc' = [pc EXCEPT ![b] = "load"]
           /\ buf' = [buf EXCEPT ![b] = disk[b][SectorOf(req[b])]]
  <2>1. disk[b][SectorOf(req[b])] \in Data
    <3>1. SectorOf(req[b]) \in Sectors
      BY <1>5, SectorExists
    <3> QED
      BY <3>1 DEF DiskIInv, DiskTypeOK
  <2>2. DiskTypeOK'
    BY <1>1, <1>3, <1>7, <2>1 DEF DiskIInv, DiskTypeOK, Places, Reading
  <2>3. OnlyOf(b)
    BY <1>1, <1>3, <1>7 DEF DiskIInv, DiskTypeOK, OnlyOf, Untouched
  <2>4. pc'[b] = "load" /\ buf'[b] = disk[b][SectorOf(req[b])]
    BY <1>7 DEF DiskIInv, DiskTypeOK
  <2>5. LoadOK(b)'
    BY <1>1, <2>4 DEF Local, LoadOK, Cached
  <2>6. RequestOK(b)' /\ DriveOK(b)' /\ HitOK(b)' /\ FreshOK(b)'
    BY <1>1, <1>4, <2>4 DEF Local, RequestOK, DriveOK, HitOK, FreshOK, Reading, Writing
  <2>7. Local(b)'
    BY <2>5, <2>6 DEF Local
  <2> QED
    BY <1>1, <2>2, <2>3, <2>7, QuietStep
<1> QED
  BY <1>2, <1>6, <1>7 DEF TakeData, Answer

LEMMA WriteRefusedKeeps ==
  ASSUME DiskIInv, NEW b \in Listeners, WriteRefused(b)
  PROVE  DiskIInv'
<1>1. /\ pc[b] = "write" /\ pc' = [pc EXCEPT ![b] = "reply"] /\ scan' = scan
      /\ reply' = [reply EXCEPT ![b] = "IDEDRV_BUG_CHECK"]
      /\ UNCHANGED <<disk, cache, n_cache_stored, req, pos, buf, drive, irq, torn, misled>>
  BY DEF WriteRefused, Answer, At, startVars, history
<1>2. DiskTypeOK'
  BY <1>1 DEF DiskIInv, DiskTypeOK, Places, Status
<1>3. OnlyOf(b)
  BY <1>1 DEF DiskIInv, DiskTypeOK, OnlyOf, Untouched
<1>4. pc'[b] = "reply" /\ reply'[b] = "IDEDRV_BUG_CHECK" /\ Local(b)
  BY <1>1 DEF DiskIInv, DiskTypeOK
<1>5. Local(b)'
  BY <1>1, <1>4
  DEF Local, RequestOK, DriveOK, LoadOK, HitOK, FreshOK, Reading, Writing
<1> QED
  BY <1>1, <1>2, <1>3, <1>5, QuietStep

-----------------------------------------------------------------------------
(* Steps that change the cache or a disk *)

LEMMA LoadCacheKeeps ==
  ASSUME DiskIInv, NEW b \in Listeners, LoadCache(b)
  PROVE  DiskIInv'
<1>1. PICK n \in Index : n = n_cache_stored
  BY DEF DiskIInv, DiskTypeOK
<1> DEFINE e == [valid |-> 1, bus |-> b, master |-> req[b].master, lba |-> req[b].lba, data |-> buf[b]]
<1>2. /\ pc[b] = "load" /\ pc' = [pc EXCEPT ![b] = "reply"] /\ scan' = scan /\ Local(b)
      /\ cache' = [cache EXCEPT ![n] = e]
      /\ n_cache_stored' = (n + 1) % CacheSize
      /\ reply' = [reply EXCEPT ![b] = "IDEDRV_SUCCESS"]
      /\ torn' = torn \ {n}
      /\ misled' = misled \cup {c \in Listeners : pc[c] = "hit" /\ pos[c] = n}
      /\ UNCHANGED <<disk, req, pos, buf, drive, irq>>
  BY <1>1 DEF LoadCache, Answer, At, startVars, DiskIInv
<1>3. /\ req[b] \in Request /\ req[b].op = "read"
      /\ \A i \in Index : ~Cached(i, b, req[b])
      /\ buf[b] = disk[b][SectorOf(req[b])]
  BY <1>2 DEF Local, RequestOK, LoadOK, Reading
<1>4. req[b].master \in Masters /\ req[b].lba \in Lbas /\ Masters \subseteq Nat /\ Lbas \subseteq Nat
  BY <1>3, DiskDriverAssumption DEF Request
<1>5. cache'[n] = e /\ \A i \in Index \ {n} : cache'[i] = cache[i]
  BY <1>2 DEF DiskIInv, DiskTypeOK
<1>6. DiskTypeOK'
  <2>1. e \in Entry
    BY <1>4, DiskDriverAssumption DEF Entry, DiskIInv, DiskTypeOK
  <2>2. cache' \in [Index -> Entry]
    BY <1>2, <2>1 DEF DiskIInv, DiskTypeOK
  <2>3. n_cache_stored' \in Index
    BY <1>1, <1>2, DiskDriverAssumption DEF Index
  <2> QED
    BY <1>2, <2>2, <2>3 DEF DiskIInv, DiskTypeOK, Places, Status
<1>7. OnlyOf(b) /\ pc'[b] = "reply"
  BY <1>2 DEF DiskIInv, DiskTypeOK, OnlyOf, Untouched
<1>8. Local(b)'
  <2>1. FreshOK(b)'
    BY <1>2, <1>3 DEF FreshOK
  <2>2. RequestOK(b)' /\ DriveOK(b)' /\ LoadOK(b)' /\ HitOK(b)'
    BY <1>2, <1>7 DEF Local, RequestOK, DriveOK, LoadOK, HitOK, Reading, Writing
  <2> QED
    BY <2>1, <2>2 DEF Local
<1>9. ASSUME NEW c \in Listeners \ {b} PROVE Local(c)'
  <2>1. Local(c) /\ Untouched(c) /\ req'[c] = req[c] /\ pos'[c] = pos[c]
    BY <1>7 DEF DiskIInv, OnlyOf, Untouched
  <2>2. ASSUME NEW i \in Index, Cached(i, c, req[c])' PROVE Cached(i, c, req[c])
    <3>1. i # n
      BY <1>5, <2>2 DEF Cached, Matches
    <3> QED
      BY <1>5, <2>1, <2>2, <3>1 DEF Cached
  <2>3. ASSUME pc[c] = "hit", c \notin misled' PROVE Cached(pos[c], c, req[c])'
    <3>1. c \notin misled /\ pos[c] # n
      BY <1>2, <2>3
    <3>2. pos[c] \in Index /\ Cached(pos[c], c, req[c])
      BY <2>1, <2>3, <3>1 DEF Local, HitOK
    <3> QED
      BY <1>5, <2>1, <3>1, <3>2 DEF Cached
  <2>4. c \notin misled' => c \notin misled
    BY <1>2
  <2> QED
    BY <2>1, <2>2, <2>3, <2>4, LocalKept
<1>10. ASSUME NEW i \in Index PROVE EntryOK(i)'
  <2>1. CASE i = n
    <3>1. SectorOf(e) = SectorOf(req[b])
      BY DEF SectorOf
    <3>2. e.data = disk[b][SectorOf(e)] /\ e.bus = b /\ e.master \in Masters /\ e.lba \in Lbas
      BY <1>3, <1>4, <3>1
    <3> QED
      BY <1>2, <1>5, <2>1, <3>2 DEF EntryOK
  <2>2. CASE i # n
    <3>1. cache'[i] = cache[i] /\ EntryOK(i)
      BY <1>5, <2>2 DEF DiskIInv
    <3>2. cache[i].bus \in Listeners /\ Stale(i) => Stale(i)'
      BY <1>2, <3>1 DEF Stale, DiskIInv, DiskTypeOK
    <3> QED
      BY <1>2, <2>2, <3>1, <3>2 DEF EntryOK
  <2> QED
    BY <2>1, <2>2
<1>11. Once'
  <2> SUFFICES ASSUME NEW i \in Index, NEW j \in Index,
                      cache'[i].valid # 0, cache'[j].valid # 0,
                      Matches(cache'[i], cache'[j].bus, cache'[j])
               PROVE  i = j
    BY DEF Once, Matches
  <2>1. CASE i # n /\ j # n
    BY <1>5, <2>1 DEF DiskIInv, Once
  <2>2. CASE i = n /\ j # n
    BY <1>3, <1>5, <2>2 DEF Cached, Matches
  <2>3. CASE i # n /\ j = n
    BY <1>3, <1>5, <2>3 DEF Cached, Matches
  <2> QED
    BY <2>1, <2>2, <2>3
<1> QED
  BY <1>6, <1>8, <1>9, <1>10, <1>11 DEF DiskIInv

(* The other listeners do not see a write to the disk of b. *)
LEMMA OthersSeeNoWrite ==
  ASSUME DiskIInv, NEW b \in Listeners, NEW c \in Listeners, c # b, OnlyOf(b),
         UNCHANGED <<cache, misled>>
  PROVE  Local(c)'
<1>1. Local(c) /\ Untouched(c) /\ req'[c] = req[c]
  BY DEF DiskIInv, OnlyOf, Untouched
<1>2. \A i \in Index : Cached(i, c, req[c])' <=> Cached(i, c, req[c])
  BY <1>1 DEF Cached
<1>3. pc[c] = "hit" /\ c \notin misled' => Cached(pos[c], c, req[c])'
  BY <1>1 DEF Local, HitOK, Untouched, Cached
<1> QED
  BY <1>1, <1>2, <1>3, LocalKept

(* Sectors with names of their own are told apart by them. *)
LEMMA OneNamePerSector ==
  ASSUME NamesAreUnique,
         NEW m1 \in Masters, NEW m2 \in Masters, NEW l1 \in Lbas, NEW l2 \in Lbas,
         NEW r1, NEW r2, r1.master = m1, r1.lba = l1, r2.master = m2, r2.lba = l2,
         SectorOf(r1) = SectorOf(r2)
  PROVE  m1 = m2 /\ l1 = l2
<1>1. LbaLimit \in Nat \ {0} /\ l1 \in 0 .. LbaLimit - 1 /\ l2 \in 0 .. LbaLimit - 1
  BY DiskDriverAssumption DEF NamesAreUnique
<1>2. l1 % LbaLimit = l1 /\ l2 % LbaLimit = l2
  BY <1>1
<1>3. (IF m1 = 0 THEN 0 ELSE 1) = m1 /\ (IF m2 = 0 THEN 0 ELSE 1) = m2
  BY DEF NamesAreUnique
<1> QED
  BY <1>2, <1>3 DEF SectorOf

(* What is on the disk of b outside the sector written is still what the   *)
(* cache says of it.                                                       *)
LEMMA OtherEntriesKept ==
  ASSUME NamesAreUnique, DiskIInv, NEW b \in Listeners, NEW d,
         req[b] \in Request, pc[b] # "invalidate",
         disk' = [disk EXCEPT ![b][SectorOf(req[b])] = d],
         UNCHANGED <<cache, req>>,
         \A c \in Listeners \ {b} : pc'[c] = pc[c],
         torn \subseteq torn',
         NEW i \in Index, ~Cached(i, b, req[b])
  PROVE  EntryOK(i)'
<1> SUFFICES ASSUME cache[i].valid # 0 PROVE EntryOK(i)'
  BY DEF EntryOK
<1>1. /\ cache[i].bus \in Listeners /\ cache[i].master \in Masters /\ cache[i].lba \in Lbas
      /\ i \in torn \/ Stale(i) \/ cache[i].data = disk[cache[i].bus][SectorOf(cache[i])]
  BY DEF DiskIInv, EntryOK
<1>2. CASE i \in torn
  BY <1>1, <1>2 DEF EntryOK
<1>3. CASE Stale(i)
  <2>1. Stale(i)'
    BY <1>1, <1>3 DEF Stale
  <2> QED
    BY <1>1, <2>1 DEF EntryOK
<1>4. CASE cache[i].data = disk[cache[i].bus][SectorOf(cache[i])]
  <2>1. disk'[cache[i].bus][SectorOf(cache[i])] = disk[cache[i].bus][SectorOf(cache[i])]
    <3>1. CASE cache[i].bus # b
      BY <1>1, <3>1 DEF DiskIInv, DiskTypeOK
    <3>2. CASE cache[i].bus = b
      <4>1. ~(cache[i].master = req[b].master /\ cache[i].lba = req[b].lba)
        BY <3>2 DEF Cached, Matches
      <4>2. SectorOf(cache[i]) # SectorOf(req[b])
        BY <1>1, <4>1, OneNamePerSector DEF Request
      <4> QED
        BY <1>1, <3>2, <4>2 DEF DiskIInv, DiskTypeOK
    <3> QED
      BY <3>1, <3>2
  <2> QED
    BY <1>1, <1>4, <2>1 DEF EntryOK
<1> QED
  BY <1>1, <1>2, <1>3, <1>4

LEMMA SectorWritten ==
  ASSUME DiskIInv, NEW b \in Listeners, req[b] \in Request, NEW d \in Data,
         disk' = [disk EXCEPT ![b][SectorOf(req[b])] = d]
  PROVE  disk' \in [Listeners -> [Sectors -> Data]] /\ \A c \in Listeners \ {b} : disk'[c] = disk[c]
  BY SectorExists DEF DiskIInv, DiskTypeOK

LEMMA WriteDoneKeeps ==
  ASSUME NamesAreUnique, ~LatchesINTRQ, DiskIInv, NEW b \in Listeners, WriteDone(b)
  PROVE  DiskIInv'
<1>1. /\ pc[b] = "write" /\ pc' = [pc EXCEPT ![b] = "invalidate"] /\ scan' = scan /\ Local(b)
      /\ disk' = [disk EXCEPT ![b][SectorOf(req[b])] = buf[b]]
      /\ UNCHANGED <<cache, n_cache_stored, req, pos, buf, reply, drive, irq, torn, misled>>
  BY DEF WriteDone, At, startVars, history, DiskIInv
<1>2. req[b] \in Request /\ req[b].op = "write" /\ buf[b] \in Data
  BY <1>1 DEF Local, RequestOK, Writing
<1>3. disk' \in [Listeners -> [Sectors -> Data]] /\ \A c \in Listeners \ {b} : disk'[c] = disk[c]
  BY <1>1, <1>2, SectorWritten
<1>4. DiskTypeOK'
  BY <1>1, <1>3 DEF DiskIInv, DiskTypeOK, Places, Writing
<1>5. OnlyOf(b) /\ pc'[b] = "invalidate" /\ \A c \in Listeners \ {b} : pc'[c] = pc[c]
  BY <1>1, <1>3 DEF DiskIInv, DiskTypeOK, OnlyOf, Untouched
<1>6. Local(b)'
  BY <1>1, <1>2, <1>5
  DEF Local, RequestOK, DriveOK, LoadOK, HitOK, FreshOK, Reading, Writing
<1>7. \A c \in Listeners \ {b} : Local(c)'
  BY <1>1, <1>5, OthersSeeNoWrite
<1>8. ASSUME NEW i \in Index PROVE EntryOK(i)'
  <2>1. CASE ~Cached(i, b, req[b])
    BY <1>1, <1>2, <1>5, <2>1, OtherEntriesKept
  <2>2. CASE Cached(i, b, req[b])
    <3>1. Stale(i)' /\ cache[i].bus = b
      BY <1>1, <1>5, <2>2 DEF Stale, Cached, Matches
    <3> QED
      BY <1>1, <3>1 DEF DiskIInv, EntryOK
  <2> QED
    BY <2>1, <2>2
<1>9. Once'
  BY <1>1 DEF DiskIInv, Once
<1> QED
  BY <1>4, <1>6, <1>7, <1>8, <1>9 DEF DiskIInv

LEMMA WriteFailedKeeps ==
  ASSUME NamesAreUnique, DiskIInv, NEW b \in Listeners, WriteFailed(b)
  PROVE  DiskIInv'
<1>1. /\ pc[b] = "write" /\ pc' = [pc EXCEPT ![b] = "reply"] /\ scan' = scan /\ Local(b)
      /\ torn' = IF disk' = disk THEN torn ELSE torn \cup {i \in Index : Cached(i, b, req[b])}
      /\ reply' = [reply EXCEPT ![b] = "IDEDRV_HARDWARE_FAILURE"]
      /\ UNCHANGED <<cache, n_cache_stored, req, pos, buf, drive, irq, misled>>
  BY DEF WriteFailed, At, Answer, startVars, DiskIInv
<1>2. PICK d \in {buf[b], disk[b][SectorOf(req[b])]} : disk' = [disk EXCEPT ![b][SectorOf(req[b])] = d]
  BY DEF WriteFailed
<1>3. req[b] \in Request /\ req[b].op = "write" /\ buf[b] \in Data
  BY <1>1 DEF Local, RequestOK, Writing
<1>4. d \in Data
  BY <1>3, SectorExists DEF DiskIInv, DiskTypeOK
<1>5. disk' \in [Listeners -> [Sectors -> Data]] /\ \A c \in Listeners \ {b} : disk'[c] = disk[c]
  BY <1>2, <1>3, <1>4, SectorWritten
<1>6. DiskTypeOK'
  BY <1>1, <1>5 DEF DiskIInv, DiskTypeOK, Places, Status
<1>7. /\ OnlyOf(b) /\ pc'[b] = "reply" /\ reply'[b] = "IDEDRV_HARDWARE_FAILURE"
      /\ \A c \in Listeners \ {b} : pc'[c] = pc[c]
  BY <1>1, <1>5 DEF DiskIInv, DiskTypeOK, OnlyOf, Untouched
<1>8. Local(b)'
  BY <1>1, <1>7
  DEF Local, RequestOK, DriveOK, LoadOK, HitOK, FreshOK, Reading, Writing
<1>9. \A c \in Listeners \ {b} : Local(c)'
  BY <1>1, <1>7, OthersSeeNoWrite
<1>10. torn \subseteq torn'
  BY <1>1
<1>11. ASSUME NEW i \in Index PROVE EntryOK(i)'
  <2>1. CASE ~Cached(i, b, req[b])
    BY <1>1, <1>2, <1>3, <1>7, <1>10, <2>1, OtherEntriesKept
  <2>2. CASE Cached(i, b, req[b]) /\ disk' # disk
    <3>1. i \in torn'
      BY <1>1, <2>2
    <3> QED
      BY <1>1, <3>1 DEF DiskIInv, EntryOK
  <2>3. CASE Cached(i, b, req[b]) /\ disk' = disk
    <3>1. cache[i].bus = b /\ ~Stale(i) /\ EntryOK(i) /\ torn' = torn
      BY <1>1, <2>3 DEF DiskIInv, Stale, Cached, Matches
    <3> QED
      BY <1>1, <2>3, <3>1 DEF EntryOK
  <2> QED
    BY <2>1, <2>2, <2>3
<1>12. Once'
  BY <1>1 DEF DiskIInv, Once
<1> QED
  BY <1>6, <1>8, <1>9, <1>11, <1>12 DEF DiskIInv

LEMMA InvalidateCacheKeeps ==
  ASSUME DiskIInv, NEW b \in Listeners, InvalidateCache(b)
  PROVE  DiskIInv'
<1>1. /\ pc[b] = "invalidate" /\ pc' = [pc EXCEPT ![b] = "reply"] /\ scan' = scan /\ Local(b)
      /\ cache' = [i \in Index |-> IF Matches(cache[i], b, req[b]) THEN Zeroed ELSE cache[i]]
      /\ torn' = {i \in torn : ~Matches(cache[i], b, req[b])}
      /\ reply' = [reply EXCEPT ![b] = "IDEDRV_SUCCESS"]
      /\ UNCHANGED <<disk, n_cache_stored, req, pos, buf, drive, irq, misled>>
  BY DEF InvalidateCache, At, Answer, startVars, DiskIInv
<1>2. req[b].op = "write"
  BY <1>1 DEF Local, RequestOK, Writing
<1>3. \A i \in Index : \/ Matches(cache[i], b, req[b]) /\ cache'[i].valid = 0
                       \/ ~Matches(cache[i], b, req[b]) /\ cache'[i] = cache[i]
  BY <1>1 DEF Zeroed
<1>4. DiskTypeOK'
  <2>1. Zeroed \in Entry
    BY DEF Zeroed, Entry
  <2>2. cache' \in [Index -> Entry]
    BY <1>1, <2>1 DEF DiskIInv, DiskTypeOK
  <2> QED
    BY <1>1, <2>2 DEF DiskIInv, DiskTypeOK, Places, Status
<1>5. OnlyOf(b) /\ pc'[b] = "reply" /\ \A c \in Listeners \ {b} : pc'[c] = pc[c]
  BY <1>1 DEF DiskIInv, DiskTypeOK, OnlyOf, Untouched
<1>6. Local(b)'
  BY <1>1, <1>2, <1>5
  DEF Local, RequestOK, DriveOK, LoadOK, HitOK, FreshOK, Reading, Writing
<1>7. ASSUME NEW c \in Listeners \ {b} PROVE Local(c)'
  <2>1. Local(c) /\ Untouched(c) /\ req'[c] = req[c] /\ pos'[c] = pos[c]
    BY <1>5 DEF DiskIInv, OnlyOf, Untouched
  <2>2. \A i \in Index : Cached(i, c, req[c])' => Cached(i, c, req[c])
    BY <1>3, <2>1 DEF Cached
  <2>3. ASSUME pc[c] = "hit", c \notin misled' PROVE Cached(pos[c], c, req[c])'
    <3>1. pos[c] \in Index /\ Cached(pos[c], c, req[c])
      BY <1>1, <2>1, <2>3 DEF Local, HitOK
    <3>2. ~Matches(cache[pos[c]], b, req[b])
      BY <3>1 DEF Cached, Matches
    <3>3. cache'[pos[c]] = cache[pos[c]]
      BY <1>3, <3>1, <3>2
    <3> QED
      BY <2>1, <3>1, <3>3 DEF Cached
  <2> QED
    BY <1>1, <2>1, <2>2, <2>3, LocalKept
<1>8. ASSUME NEW i \in Index PROVE EntryOK(i)'
  <2>1. CASE Matches(cache[i], b, req[b])
    BY <1>3, <2>1 DEF EntryOK
  <2>2. CASE ~Matches(cache[i], b, req[b])
    <3>1. cache'[i] = cache[i] /\ EntryOK(i) /\ (i \in torn => i \in torn')
      BY <1>1, <1>3, <2>2 DEF DiskIInv
    <3>2. cache[i].bus \in Listeners /\ Stale(i) => Stale(i)'
      BY <1>1, <1>5, <2>2, <3>1 DEF Stale
    <3> QED
      BY <1>1, <3>1, <3>2 DEF EntryOK
  <2> QED
    BY <2>1, <2>2
<1>9. Once'
  <2> SUFFICES ASSUME NEW i \in Index, NEW j \in Index,
                      cache'[i].valid # 0, cache'[j].valid # 0,
                      Matches(cache'[i], cache'[j].bus, cache'[j])
               PROVE  i = j
    BY DEF Once, Matches
  <2>1. cache'[i] = cache[i] /\ cache'[j] = cache[j]
    BY <1>3
  <2> QED
    BY <2>1 DEF DiskIInv, Once
<1> QED
  BY <1>4, <1>6, <1>7, <1>8, <1>9 DEF DiskIInv

-----------------------------------------------------------------------------
LEMMA NextDiskIInv ==
  ASSUME NamesAreUnique, ~LatchesINTRQ, DiskIInv, [Next]_vars
  PROVE  DiskIInv'
<1>1. CASE IdentifyDrive
  BY <1>1, IdentifyDriveKeeps
<1>2. CASE SpawnListener
  BY <1>2, SpawnListenerKeeps
<1>3. ASSUME NEW b \in Listeners,
             \/ StartListener(b) \/ (\E r \in Requests[b] : Receive(b, r)) \/ Refuse(b)
             \/ DriveInterrupts(b)
      PROVE  DiskIInv'
  BY <1>3, StartListenerKeeps, ReceiveKeeps, RefuseKeeps, DriveInterruptsKeeps
<1>4. ASSUME NEW b \in Listeners, Step(b)
      PROVE  DiskIInv'
  BY <1>4, CheckCacheForSectorKeeps, ReadFromCacheKeeps, RequestReadKeeps, TakeDataKeeps,
     LoadCacheKeeps, WriteRefusedKeeps, WriteDoneKeeps, WriteFailedKeeps,
     InvalidateCacheKeeps, SendReplyKeeps DEF Step
<1>5. CASE UNCHANGED vars
  <2>1. UNCHANGED <<scan, disk, cache, n_cache_stored, pc, req, pos, buf, reply, drive, irq, torn, misled>>
    BY <1>5 DEF vars
  <2>2. DiskTypeOK'
    BY <2>1 DEF DiskIInv, DiskTypeOK
  <2>3. ASSUME NEW c \in Listeners PROVE Local(c)'
    BY <2>1 DEF DiskIInv, Local, RequestOK, DriveOK, LoadOK, HitOK, FreshOK, Cached
  <2>4. (\A i \in Index : EntryOK(i)') /\ Once'
    BY <2>1, CacheKept
  <2> QED
    BY <2>2, <2>3, <2>4 DEF DiskIInv
<1> QED
  BY <1>1, <1>2, <1>3, <1>4, <1>5 DEF Next

LEMMA DiskInvariant ==
  ASSUME NamesAreUnique, ~LatchesINTRQ
  PROVE  Spec => []DiskIInv
<1>1. Init => DiskIInv
  BY InitDiskIInv
<1>2. DiskIInv /\ [Next]_vars => DiskIInv'
  BY NextDiskIInv
<1> QED
  BY <1>1, <1>2, PTL DEF Spec

(* For any cache, any drives and any clients that name sectors as the      *)
(* drive does: what CheckCacheForSector may find of a sector is what the   *)
(* disk holds, outside of the write in progress and of failed writes, and  *)
(* is in one position; LoadCache and InvalidateCache keep it so, whatever  *)
(* the other listener does in between.                                     *)
THEOREM DiskCacheCoherent ==
  ASSUME NamesAreUnique, ~LatchesINTRQ
  PROVE  Spec => []CacheCoherent
<1>1. DiskIInv => CacheCoherent
  BY InvariantIsCoherent
<1> QED
  BY <1>1, DiskInvariant, PTL

(* Under the same assumptions, ReadFromDisk and ReadFromCache give the     *)
(* client what the disk holds.                                             *)
THEOREM DiskReadsAreFresh ==
  ASSUME NamesAreUnique, ~LatchesINTRQ
  PROVE  Spec => []ReadsAreFresh
<1>1. DiskIInv => ReadsAreFresh
  BY InvariantIsCoherent
<1> QED
  BY <1>1, DiskInvariant, PTL
=============================================================================
