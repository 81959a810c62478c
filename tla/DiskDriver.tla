----------------------------- MODULE DiskDriver -----------------------------
(***************************************************************************)
(* idedrv (base/idedrv): a listener thread per ATA bus that reads and      *)
(* writes sectors for its clients, and the sector cache that both threads  *)
(* share.  All accesses to the cache are made under cache_spinlock, so     *)
(* what the code does between Acquire and Release is one step; between     *)
(* two such sections the other thread may run.                             *)
(*                                                                         *)
(* The drive is external: it takes a command, finishes or fails it, and    *)
(* raises an interrupt that the kernel relays to the listener's IRQ port.  *)
(***************************************************************************)
EXTENDS Integers, FiniteSets, FiniteSetsExt

CONSTANTS
    Listeners,          \* buses, each with its listener thread
    Masters,            \* values clients give as IDEDRVRequest.master
    Lbas,               \* values clients give as IDEDRVRequest.lba
    Requests,           \* what the clients ask of each listener
    LbaLimit,           \* 2^28: the drive sees the low 28 bits
    CacheSize,          \* arraysize(cache)
    Data,               \* contents of a sector
    LatchesINTRQ,       \* whether a drive keeps an interrupt raised while
                        \* its INTRQ was disabled
    NullPointer

Request == [op : {"read", "write"}, master : Masters, lba : Lbas]

ASSUME DiskDriverAssumption ==
    /\ Listeners \subseteq {0, 1}
    /\ LbaLimit \in Nat \ {0} /\ CacheSize \in Nat \ {0}
    /\ Masters \subseteq Nat /\ Lbas \subseteq Nat
    /\ NullPointer \notin Data
    /\ Requests \in [Listeners -> SUBSET Request]

VARIABLES
    scan, detected, \* main: the next step, and whether there is a drive
    disk,           \* what each drive holds
    cache, n_cache_stored,
    pc, req, pos,   \* the listeners: where they are, request, cache position
    buf,            \* the section shared with the client
    reply,          \* the status to be sent
    drive,          \* "idle", "busy", "ready" or "error", per bus
    irq,            \* interrupts of the bus relayed or latched, not yet taken
    torn,           \* history: positions of sectors that a failed write changed
    misled          \* history: listeners that read such a position, or whose
                    \* position was given to another sector before they read it

history == <<torn, misled>>

startVars == <<scan, detected>>

vars == <<scan, detected, disk, cache, n_cache_stored, pc, req, pos, buf, reply, drive, irq, torn, misled>>

driverVars == <<pc, req, pos, buf, reply>>

Sectors == {0, 1} \X (0 .. LbaLimit - 1)

Index == 0 .. CacheSize - 1

Zeroed == [valid |-> 0, bus |-> 0, master |-> 0, lba |-> 0, data |-> NullPointer]

(* PrepareDriveForRW: the sector that a request really reaches. *)
SectorOf(r) == <<IF r.master = 0 THEN 0 ELSE 1, r.lba % LbaLimit>>

(* A drive raises its interrupt: the line is masked while a message waits, *)
(* and the controller remembers one more.                                  *)
Raised(n) == Min({n + 1, 2})

Init ==
    /\ \E d \in Data : disk = [b \in Listeners |-> [s \in Sectors |-> d]]
    /\ cache = [i \in Index |-> Zeroed]
    /\ n_cache_stored = 0
    /\ scan = 0 /\ detected = FALSE
    /\ pc = [b \in Listeners |-> "absent"]
    /\ req = [b \in Listeners |-> NullPointer]
    /\ pos = [b \in Listeners |-> -1]
    /\ buf = [b \in Listeners |-> NullPointer]
    /\ reply = [b \in Listeners |-> "IDEDRV_SUCCESS"]
    /\ drive = [b \in Listeners |-> "idle"]
    /\ irq = [b \in Listeners |-> 0]
    /\ torn = {} /\ misled = {}

At(b, from, to) ==
    pc[b] = from /\ pc' = [pc EXCEPT ![b] = to] /\ UNCHANGED startVars

Answer(b, status) == reply' = [reply EXCEPT ![b] = status]

-----------------------------------------------------------------------------
(* main: the four drives are identified in turn, with INTRQ disabled.  A   *)
(* drive may be missing, be none that idedrv knows, or fail.               *)
IdentifyDrive ==
    /\ scan \in 0 .. 3
    /\ scan' = scan + 1
    /\ \E status \in {"STATUS_OK", "STATUS_NOT_FOUND", "STATUS_UNSUPPORTED", "STATUS_BAD"} :
          detected' = (detected \/ status = "STATUS_OK")
    /\ UNCHANGED <<disk, cache, n_cache_stored, drive, irq>> /\ UNCHANGED driverVars /\ UNCHANGED history

(* main spawns the listeners, which may fail, or exits if there is no      *)
(* drive.                                                                  *)
SpawnListener ==
    /\ scan \in {4, 5} /\ detected
    /\ scan' = scan + 1
    /\ pc' \in {pc} \cup {[pc EXCEPT ![b] = "start"] : b \in Listeners \cap {scan - 4}}
    /\ UNCHANGED <<detected, disk, cache, n_cache_stored, req, pos, buf, reply, drive, irq>>
    /\ UNCHANGED history

(* listener: its ports and its interrupt, without which it returns. *)
StartListener(b) ==
    /\ \E to \in {"receive", "absent"} : At(b, "start", to)
    /\ UNCHANGED <<disk, cache, n_cache_stored, req, pos, buf, reply, drive, irq>> /\ UNCHANGED history

(* A request arrives, and its section is mapped, with the data   *)
(* to be written in it.                                                    *)
Receive(b, r) ==
    /\ At(b, "receive", IF r.op = "read" THEN "lookup" ELSE "write")
    /\ req' = [req EXCEPT ![b] = r]
    /\ \E d \in IF r.op = "write" THEN Data ELSE {NullPointer} :
          buf' = [buf EXCEPT ![b] = d]
    /\ UNCHANGED <<disk, cache, n_cache_stored, pos, reply, drive, irq>> /\ UNCHANGED history

(* ... or cannot be mapped. *)
Refuse(b) ==
    /\ At(b, "receive", "reply")
    /\ \E s \in {"IDEDRV_INVALID_HANDLE", "IDEDRV_OUT_OF_MEMORY"} : Answer(b, s)
    /\ UNCHANGED <<disk, cache, n_cache_stored, req, pos, buf, drive, irq>> /\ UNCHANGED history

(* The client is told, and what is left of its request is forgotten. *)
SendReply(b) ==
    /\ At(b, "reply", "receive")
    /\ req' = [req EXCEPT ![b] = NullPointer]
    /\ buf' = [buf EXCEPT ![b] = NullPointer]
    /\ pos' = [pos EXCEPT ![b] = -1]
    /\ Answer(b, "IDEDRV_SUCCESS")
    /\ misled' = misled \ {b}
    /\ UNCHANGED <<disk, cache, n_cache_stored, drive, irq, torn>>

Matches(e, b, r) == e.lba = r.lba /\ e.bus = b /\ e.master = r.master

Cached(i, b, r) == cache[i].valid # 0 /\ Matches(cache[i], b, r)

(* CheckCacheForSector. *)
CheckCacheForSector(b) ==
    LET found == {i \in Index : Cached(i, b, req[b])}
    IN  /\ At(b, "lookup", IF found = {} THEN "command" ELSE "hit")
        /\ pos' = [pos EXCEPT ![b] = IF found = {} THEN -1 ELSE Min(found)]
        /\ UNCHANGED <<disk, cache, n_cache_stored, req, buf, reply, drive, irq>> /\ UNCHANGED history

(* NAME_Fault, here and below, is NAME with a slip that the properties at  *)
(* the end must notice.                                                    *)
ReadFromCache_NoCopy(b) ==
    /\ At(b, "hit", "reply")
    /\ Answer(b, "IDEDRV_SUCCESS")
    /\ UNCHANGED <<disk, cache, n_cache_stored, req, pos, buf, drive, irq>> /\ UNCHANGED history

(* ReadFromCache: what the position holds now. *)
ReadFromCache(b) ==
    /\ At(b, "hit", "reply")
    /\ buf' = IF cache[pos[b]].valid # 0
              THEN [buf EXCEPT ![b] = cache[pos[b]].data] ELSE buf
    /\ Answer(b, "IDEDRV_SUCCESS")
    /\ misled' = IF pos[b] \in torn THEN misled \cup {b} ELSE misled
    /\ UNCHANGED <<disk, cache, n_cache_stored, req, pos, drive, irq, torn>>

(* PrepareDriveForRW waits for the drive, RequestRead gives the command. *)
RequestRead(b) ==
    /\ drive[b] # "busy"
    /\ At(b, "command", "wait")
    /\ drive' = [drive EXCEPT ![b] = "busy"]
    /\ UNCHANGED <<disk, cache, n_cache_stored, req, pos, buf, reply, irq>> /\ UNCHANGED history

(* The drive has the sector, or has failed, and says so. *)
DriveInterrupts(b) ==
    /\ drive[b] = "busy"
    /\ \E s \in {"ready", "error"} : drive' = [drive EXCEPT ![b] = s]
    /\ irq' = [irq EXCEPT ![b] = Raised(@)]
    /\ UNCHANGED <<disk, cache, n_cache_stored>>
    /\ UNCHANGED startVars /\ UNCHANGED driverVars /\ UNCHANGED history

TakeData_RetriesErrors(b) ==
    /\ pc[b] = "wait" /\ irq[b] > 0
    /\ irq' = [irq EXCEPT ![b] = @ - 1]
    /\ drive' = [drive EXCEPT ![b] = "idle"]
    /\ pc' = [pc EXCEPT ![b] = IF drive[b] = "ready" THEN "load" ELSE "command"]
    /\ buf' = [buf EXCEPT ![b] = IF drive[b] = "ready" THEN disk[b][SectorOf(req[b])] ELSE @]
    /\ UNCHANGED <<disk, cache, n_cache_stored, req, pos, reply>>
    /\ UNCHANGED startVars /\ UNCHANGED history

(* The interrupt's message is received and acknowledged; then the status   *)
(* and the data port are read.  A drive that is still busy gives anything. *)
TakeData(b) ==
    /\ pc[b] = "wait" /\ irq[b] > 0
    /\ irq' = [irq EXCEPT ![b] = @ - 1]
    /\ drive' = [drive EXCEPT ![b] = IF @ = "busy" THEN "busy" ELSE "idle"]
    /\ \/ /\ drive[b] \in {"error", "busy"}
          /\ pc' = [pc EXCEPT ![b] = "reply"]
          /\ Answer(b, "IDEDRV_BUG_CHECK")
          /\ UNCHANGED buf
       \/ /\ drive[b] \in {"ready", "busy"}
          /\ pc' = [pc EXCEPT ![b] = "load"]
          /\ \E d \in IF drive[b] = "ready" THEN {disk[b][SectorOf(req[b])]} ELSE Data :
                buf' = [buf EXCEPT ![b] = d]
          /\ UNCHANGED reply
    /\ UNCHANGED <<disk, cache, n_cache_stored, req, pos>>
    /\ UNCHANGED startVars /\ UNCHANGED history

(* LoadCache: the positions are used in turn. *)
LoadCache(b) ==
    /\ At(b, "load", "reply")
    /\ cache' = [cache EXCEPT ![n_cache_stored] =
                   [valid |-> 1, bus |-> b, master |-> req[b].master,
                    lba |-> req[b].lba, data |-> buf[b]]]
    /\ n_cache_stored' = (n_cache_stored + 1) % CacheSize
    /\ Answer(b, "IDEDRV_SUCCESS")
    /\ torn' = torn \ {n_cache_stored}
    /\ misled' = misled \cup {c \in Listeners : pc[c] = "hit" /\ pos[c] = n_cache_stored}
    /\ UNCHANGED <<disk, req, pos, buf, drive, irq>>

(* WriteToDisk, with INTRQ disabled: the drive refuses the command ... *)
WriteRefused(b) ==
    /\ drive[b] # "busy"
    /\ At(b, "write", "reply")
    /\ Answer(b, "IDEDRV_BUG_CHECK")
    /\ UNCHANGED <<disk, cache, n_cache_stored, req, pos, buf, drive, irq>> /\ UNCHANGED history

(* ... or takes it and flushes it to the disk: then INTRQ is enabled again *)
(* with the completion of the flush still unread ...                       *)
WriteDone(b) ==
    /\ drive[b] # "busy"
    /\ At(b, "write", "invalidate")
    /\ disk' = [disk EXCEPT ![b][SectorOf(req[b])] = buf[b]]
    /\ irq' = IF LatchesINTRQ THEN [irq EXCEPT ![b] = Raised(@)] ELSE irq
    /\ UNCHANGED <<cache, n_cache_stored, req, pos, buf, reply, drive>> /\ UNCHANGED history

(* ... or fails, with the sector written or not, and leaves the cache.     *)
WriteFailed(b) ==
    /\ drive[b] # "busy"
    /\ At(b, "write", "reply")
    /\ \E d \in {buf[b], disk[b][SectorOf(req[b])]} :
          disk' = [disk EXCEPT ![b][SectorOf(req[b])] = d]
    /\ torn' = IF disk' = disk THEN torn
                ELSE torn \cup {i \in Index : Cached(i, b, req[b])}
    /\ Answer(b, "IDEDRV_HARDWARE_FAILURE")
    /\ UNCHANGED <<cache, n_cache_stored, req, pos, buf, drive, irq, misled>>

InvalidateCache_Skips(b) ==
    /\ At(b, "invalidate", "reply")
    /\ Answer(b, "IDEDRV_SUCCESS")
    /\ UNCHANGED <<disk, cache, n_cache_stored, req, pos, buf, drive, irq>> /\ UNCHANGED history

(* InvalidateCache *)
InvalidateCache(b) ==
    /\ At(b, "invalidate", "reply")
    /\ cache' = [i \in Index |-> IF Matches(cache[i], b, req[b]) THEN Zeroed ELSE cache[i]]
    /\ torn' = {i \in torn : ~Matches(cache[i], b, req[b])}
    /\ Answer(b, "IDEDRV_SUCCESS")
    /\ UNCHANGED <<disk, n_cache_stored, req, pos, buf, drive, irq, misled>>

(* What the listener thread does with a request it has. *)
Step(b) ==
    \/ CheckCacheForSector(b)
    \/ ReadFromCache(b)
    \/ RequestRead(b)
    \/ TakeData(b)
    \/ LoadCache(b)
    \/ WriteRefused(b)
    \/ WriteDone(b)
    \/ WriteFailed(b)
    \/ InvalidateCache(b)
    \/ SendReply(b)

Next ==
    \/ IdentifyDrive
    \/ SpawnListener
    \/ \E b \in Listeners :
          \/ StartListener(b)
          \/ \E r \in Requests[b] : Receive(b, r)
          \/ Refuse(b)
          \/ Step(b)
          \/ DriveInterrupts(b)

Spec == Init /\ [][Next]_vars

(* The scheduler runs both threads, and a drive finishes what it started. *)
Fairness == \A b \in Listeners : WF_vars(Step(b)) /\ WF_vars(DriveInterrupts(b))

FairSpec == Spec /\ Fairness

-----------------------------------------------------------------------------
(* "Read a single 512-byte sized sector into buf" (ReadFromDisk): a read   *)
(* that is answered with IDEDRV_SUCCESS has given the client what the disk *)
(* holds, from the cache or not.  Two cases are left out, in which it may  *)
(* not: the other listener loads a sector into the position between        *)
(* CheckCacheForSector and ReadFromCache, and a failed write.              *)
ReadsAreFresh ==
    \A b \in Listeners \ misled :
        (pc[b] = "reply" /\ reply[b] = "IDEDRV_SUCCESS" /\ req[b].op = "read")
            => buf[b] = disk[b][SectorOf(req[b])]

(* Whatever the cache says of a sector is what the disk holds, but for the *)
(* moment between a write and the invalidation that goes with it, and for  *)
(* writes that failed halfway, which invalidate nothing.  A sector is in   *)
(* the cache once: invalidating what is found leaves none.                 *)
CacheCoherent ==
    /\ \A i \in Index \ torn :
          (cache[i].valid # 0 /\ ~(pc[cache[i].bus] = "invalidate"
                                   /\ Matches(cache[i], cache[i].bus, req[cache[i].bus])))
              => cache[i].data = disk[cache[i].bus][SectorOf(cache[i])]
    /\ \A i, j \in Index :
          (cache[i].valid # 0 /\ cache[j].valid # 0 /\ Matches(cache[i], cache[j].bus, cache[j]))
              => i = j

(* Every request is answered: the listener is never stuck waiting for an   *)
(* interrupt it has taken already or will not get.                         *)
RequestAnswered ==
    \A b \in Listeners : pc[b] \notin {"absent", "start", "receive"} ~> pc[b] = "receive"
=============================================================================
