---------------------------- MODULE BootVolumes -----------------------------
(***************************************************************************)
(* The boot manager's volumes: the search for drives and partitions        *)
(* (storage/partition.c, mbr.c, diskread.c) and its two file systems       *)
(* (fs/fs.c, fs/fat32, fs/iso9660), as operators on the drives of the      *)
(* machine.                                                                *)
(*                                                                         *)
(* drives is a function from BIOS drive numbers to [cd, sectors, fails]:   *)
(* whether the BIOS calls it a CD, its sectors, and how often a read of a  *)
(* sector fails before it succeeds.  Sizes are in cells, a cell being      *)
(* whatever a file holds in one piece: a header, or some bytes.  A data    *)
(* sector is a sequence of cells, a directory sector a sequence of         *)
(* records, and a sector of a FAT a sequence of cluster numbers.           *)
(***************************************************************************)
EXTENDS Integers, Sequences, SequencesExt, FiniteSetsExt, TLC

CONSTANTS
    SECTOR_SIZE, CD_SECTOR_SIZE,    \* cells of a sector
    FAT_ENTRIES,                    \* SECTOR_SIZE / sizeof(u32)
    FAT32_EOF,
    DESCRIPTOR_ADDR_LBA, max_search,
    MAX_READ_RETRIES,
    MAX_SYSTEM_DRIVES,
    FirstCD                         \* 0xE0

(* Op(v), and a loop over a sequence; TLC evaluates v, and what the loop   *)
(* has come to, only once.                                                 *)
Once(Op(_), v) == CHOOSE w \in {Op(x) : x \in {v}} : TRUE

Each(Op(_, _), v, s) == FoldLeft(LAMBDA acc, x : Once(LAMBDA a : Op(a, x), acc), v, s)

Count(n) == [k \in 1 .. n |-> k - 1]

(* ReadFromDisk of one sector, tried that often. *)
ReadFails(drive, lba, tries) == drive.fails[lba] >= tries

-----------------------------------------------------------------------------
DriveIsCDROM(drives, n) == n >= FirstCD \/ drives[n].cd

(* The table of a disk whose signature is refused is whatever the caller's *)
(* variable held, hence as arbitrary as the table of a signed disk.        *)
ReadMBRTable(d) == d.sectors[0]

(* One drive of InitPartitionTable.  A CD below 0xE0 is believed only when *)
(* the machine was booted from it.                                         *)
ProbeDrive(t, n, drives, boot_device) ==
    LET d == drives[n]
        cd == [id |-> <<"cd", t.cds>>, drive |-> n, lba_start |-> 0, type |-> "iso9660"]
        part(k) == [id |-> <<"hd", t.hdds, k - 1>>, drive |-> n,
                    lba_start |-> ReadMBRTable(d)[k].lba, type |-> ReadMBRTable(d)[k].type]
    IN  CASE t.used = MAX_SYSTEM_DRIVES -> t
          [] t.used < MAX_SYSTEM_DRIVES /\ DriveIsCDROM(drives, n) ->
                IF n < FirstCD /\ n # boot_device THEN t
                ELSE [t EXCEPT !.cds = @ + 1, !.used = @ + 1, !.parts = Append(@, cd)]
          [] OTHER ->
                IF ReadFails(d, 0, 1) THEN t
                ELSE [t EXCEPT !.hdds = @ + 1, !.used = @ + 1,
                        !.parts = @ \o [k \in DOMAIN ReadMBRTable(d) |-> part(k)]]

(* InitPartitionTable: the partitions in the order of system_partitions,   *)
(* where an entry of type "empty" is none.                                 *)
InitPartitionTable(drives, boot_device) ==
    Each(LAMBDA t, n : ProbeDrive(t, n, drives, boot_device),
         [parts |-> <<>>, used |-> 0, cds |-> 0, hdds |-> 0],
         SetToSortSeq(DOMAIN drives, <))

FindPartition(parts, id) ==
    SelectInSeq(parts, LAMBDA p : p.type # "empty" /\ p.id = id)

-----------------------------------------------------------------------------
FindFAT(p, bpb) == p.lba_start + bpb.reserved_sectors

FindDataStart(p, bpb) == FindFAT(p, bpb) + bpb.n_fats * bpb.sectors_per_fat

ClusterToLBA(p, bpb, c) == FindDataStart(p, bpb) + (c - 2) * bpb.sectors_per_cluster

(* The sectors of the FAT are taken to be readable: the result of the read *)
(* is not looked at.                                                       *)
ReadFAT32Entry(d, p, bpb, c) ==
    d.sectors[FindFAT(p, bpb) + (c \div FAT_ENTRIES)][(c % FAT_ENTRIES) + 1]

NotLoaded == [loaded |-> FALSE, fatal |-> FALSE]

FatalFile == [loaded |-> FALSE, fatal |-> TRUE]

(* One directory entry of ScanDirectoryFor, for which st.cluster is 0 once *)
(* the scan is over.  Names are compared without regard to case.           *)
ScanEntry(st, e, path) ==
    CASE st.cluster = 0 \/ e.kind \in {"deleted", "lfn"} -> st
      [] st.cluster # 0 /\ e.kind = "end" -> [st EXCEPT !.cluster = 0]
      [] OTHER -> IF e.name # path THEN st
                  ELSE [cluster |-> 0,
                        file |-> [loaded |-> TRUE, fatal |-> FALSE, t |-> "fat32", cursor |-> 0,
                                  ended |-> FALSE, filesize |-> e.size, first |-> e.first_cluster]]

(* One cluster of the directory, whose sectors are scanned in order. *)
ScanCluster(st, d, p, bpb, path) ==
    IF st.cluster < 2 \/ st.cluster >= FAT32_EOF THEN st
    ELSE LET lba == ClusterToLBA(p, bpb, st.cluster)
             entries == FlattenSeq([s \in 1 .. bpb.sectors_per_cluster |-> d.sectors[lba + s - 1]])
             Next1(t) == IF t.cluster = 0 THEN t
                         ELSE [t EXCEPT !.cluster = ReadFAT32Entry(d, p, bpb, t.cluster)]
         IN  Once(Next1, Each(LAMBDA t, e : ScanEntry(t, e, path), st, entries))

(* A directory has no more clusters than the volume. *)
OpenFile_FAT32(d, p, path) ==
    LET bpb == d.sectors[p.lba_start]
    IN  Each(LAMBDA st, i : ScanCluster(st, d, p, bpb, path),
             [cluster |-> bpb.root_cluster, file |-> NotLoaded], Count(FAT32_EOF)).file

(* One sector of ReadFile_FAT32, s of the cluster at lba, from cell skip on. *)
CopySector(st, d, lba, skip, n) ==
    LET copied == SubSeq(d.sectors[lba], skip + 1, Min({skip + n - Len(st.out), SECTOR_SIZE}))
    IN  IF st.failed \/ Len(st.out) >= n THEN st
        ELSE IF ReadFails(d, lba, 1) THEN [st EXCEPT !.failed = TRUE]
        ELSE [st EXCEPT !.out = @ \o copied, !.cursor = @ + Len(copied)]

(* One cluster: the place in it follows from the cursor, which the cluster *)
(* before left at its start.                                               *)
ReadCluster(st, d, p, bpb, n) ==
    LET offset == st.cursor % (bpb.sectors_per_cluster * SECTOR_SIZE)
        from == offset \div SECTOR_SIZE
        first == ClusterToLBA(p, bpb, st.cluster)
        Sector(t, k) == CopySector(t, d, first + from + k,
                                   IF k = 0 THEN offset % SECTOR_SIZE ELSE 0, n)
    IN  IF st.failed \/ Len(st.out) >= n \/ st.cluster >= FAT32_EOF THEN st
        ELSE [Each(Sector, st, Count(bpb.sectors_per_cluster - from))
                EXCEPT !.cluster = ReadFAT32Entry(d, p, bpb, @)]

(* What has been read when the loops are over: a failure loses it all. *)
ReadFile_FAT32(d, p, f, n) ==
    LET bpb == d.sectors[p.lba_start]
        skip == f.cursor \div (bpb.sectors_per_cluster * SECTOR_SIZE)
        Skip(c, i) == IF c >= FAT32_EOF THEN c ELSE ReadFAT32Entry(d, p, bpb, c)
        start == [cluster |-> Each(Skip, f.first, Count(skip)), cursor |-> f.cursor,
                  out |-> <<>>, failed |-> ReadFails(d, p.lba_start, 1)]
    IN  Each(LAMBDA st, i : ReadCluster(st, d, p, bpb, n), start, Count(n))

-----------------------------------------------------------------------------
(* The search for the primary volume descriptor: a sector that cannot be   *)
(* read before it is found is fatal.                                       *)
SearchDescriptor(d, tries) ==
    LET lbas == DESCRIPTOR_ADDR_LBA .. DESCRIPTOR_ADDR_LBA + max_search - 1
        stops == {l \in lbas : ReadFails(d, l, tries) \/ d.sectors[l].type = "primary"}
    IN  IF stops = {} THEN 0
        ELSE IF ReadFails(d, Min(stops), tries) THEN -1 ELSE Min(stops)

(* NAME_Fault is NAME with a slip that the properties must notice. *)
FindDescriptor_Once(d) == SearchDescriptor(d, 1)

FindDescriptor(d) == SearchDescriptor(d, MAX_READ_RETRIES)

(* FindDirectoryEntry: the root directory is taken to fit in its first     *)
(* sector.  A record of length zero ends it.                               *)
FindDirectoryEntry(d, root, path) ==
    LET records == d.sectors[root]
        padding == SelectInSeq(records, LAMBDA r : r.kind = "padding")
        used == IF padding = 0 THEN records ELSE SubSeq(records, 1, padding - 1)
        k == SelectInSeq(used, LAMBDA r : r.kind = "file" /\ r.name = path)
    IN  IF ReadFails(d, root, MAX_READ_RETRIES) \/ k = 0 THEN NotLoaded
        ELSE [loaded |-> TRUE, fatal |-> FALSE, t |-> "iso9660", cursor |-> 0, ended |-> FALSE,
              filesize |-> used[k].size, first |-> used[k].lba]

OpenFile_ISO9660(d, path) ==
    LET pvd == FindDescriptor(d)
    IN  CASE pvd = -1 -> FatalFile
          [] pvd = 0 -> NotLoaded
          [] OTHER -> FindDirectoryEntry(d, d.sectors[pvd].root, path)

(* One sector of ReadFile_ISO9660. *)
ReadCDSector(st, d, f, n) ==
    LET lba == f.first + (st.cursor \div CD_SECTOR_SIZE)
        skip == st.cursor % CD_SECTOR_SIZE
        copied == SubSeq(d.sectors[lba], skip + 1, Min({skip + n - Len(st.out), CD_SECTOR_SIZE}))
    IN  IF st.failed \/ Len(st.out) >= n THEN st
        ELSE IF ReadFails(d, lba, 1) THEN [st EXCEPT !.failed = TRUE]
        ELSE [st EXCEPT !.out = @ \o copied, !.cursor = @ + Len(copied)]

(* Nothing of a file that has ended, and no more than there is of another. *)
(* filesize - cursor is unsigned.                                          *)
ReadFile_ISO9660(d, f, n) ==
    LET left == f.filesize - f.cursor
        want == IF f.ended THEN 0 ELSE IF left >= 0 /\ n > left THEN left ELSE n
    IN  Each(LAMBDA st, i : ReadCDSector(st, d, f, want),
             [cursor |-> f.cursor, out |-> <<>>, failed |-> FALSE], Count(want))

-----------------------------------------------------------------------------
OpenFile(drives, parts, id, path) ==
    LET k == FindPartition(parts, id)
        p == parts[k]
        Opened(f) == IF f.loaded THEN f @@ [part |-> p] ELSE f
    IN  IF k = 0 THEN NotLoaded
        ELSE CASE p.type = "fat32" -> Once(Opened, OpenFile_FAT32(drives[p.drive], p, path))
               [] p.type = "iso9660" -> Once(Opened, OpenFile_ISO9660(drives[p.drive], path))
               [] OTHER -> FatalFile

(* ReadFromFile: the file with its cursor moved, and what was read; a      *)
(* short read is fatal.                                                    *)
ReadFromFile(drives, f, n) ==
    LET d == drives[f.part.drive]
        Result(st) ==
          [fatal |-> Len(st.out) # n \/ (f.t = "fat32" /\ st.failed), out |-> st.out,
           file |-> [f EXCEPT !.cursor = st.cursor,
                              !.ended = @ \/ (f.t = "iso9660" /\ st.cursor >= f.filesize)]]
    IN  Once(Result, IF f.t = "fat32" THEN ReadFile_FAT32(d, f.part, f, n)
                     ELSE ReadFile_ISO9660(d, f, n))
=============================================================================
