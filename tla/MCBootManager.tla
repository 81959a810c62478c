--------------------------- MODULE MCBootManager ----------------------------
(* A boot disk, a boot CD and machines to boot from them, in an address    *)
(* space of ten frames of four cells.                                      *)
EXTENDS BootManager

Data(of, n) == [k \in 1 .. n |-> [kind |-> "data", of |-> of, at |-> k]]

Text == [kind |-> "phdr", type |-> "load", offset |-> 5, vaddr |-> 117, paddr |-> 17,
         size |-> 3, size_mem |-> 3, executable |-> TRUE]
BSS == [kind |-> "phdr", type |-> "load", offset |-> 8, vaddr |-> 120, paddr |-> 20,
        size |-> 1, size_mem |-> 2, executable |-> FALSE]
Note == [Text EXCEPT !.type = "note"]

Image(phdrs, checksum, magic, rest) ==
    <<[kind |-> magic, entry |-> 118, pht_off |-> 2, pht_n_entries |-> 3],
      [kind |-> "multiboot", checksum |-> checksum, score |-> 5]>>
    \o phdrs \o Data("kernel", rest)

(* The segments in either order, the last of them at the end of the file   *)
(* or not; no header, no executable, no segment.                           *)
Kernels ==
    {Image(<<Text, Note, BSS>>, 0, "elf", 4), Image(<<BSS, Note, Text>>, 0, "elf", 6),
     Image(<<Text, BSS, Note>>, 0, "elf", 4), Image(<<Text, BSS, Note>>, 1, "elf", 4),
     Image(<<Text, BSS, Note>>, 0, "script", 4), Image(<<Note, Note, Note>>, 0, "elf", 4)}

GoodKernels == {k \in Kernels : k[1].kind = "elf" /\ k[2].checksum = 0 /\ Text \in ToSet(k)}

Contents(kernel) ==
    [n \in {"kernel", "ps2kbd", "vgacons", "fbsrv"} |->
        CASE n = "kernel" -> kernel
          [] n = "ps2kbd" -> Data(n, 2)
          [] n = "vgacons" -> Data(n, 4)
          [] OTHER -> Data(n, 3)]

Without(f, n) == [x \in DOMAIN f \ {n} |-> f[x]]

-----------------------------------------------------------------------------
(* Two sectors of two cells to a cluster.  The root directory and the      *)
(* kernel are in several clusters, in no order.                            *)
Clusters == [dir |-> <<2, 5>>, kernel |-> <<9, 3, 7>>, ps2kbd |-> <<4>>, vgacons |-> <<10>>,
             fbsrv |-> <<8>>]

Padded(s, n) == [k \in 1 .. n |-> IF k <= Len(s) THEN s[k] ELSE [kind |-> "slack"]]

FAT == [c \in 0 .. 15 |->
    LET chains == {n \in DOMAIN Clusters : c \in ToSet(Clusters[n])}
        chain == Clusters[CHOOSE n \in chains : TRUE]
        k == CHOOSE x \in DOMAIN chain : chain[x] = c
    IN  IF chains = {} THEN 0 ELSE IF k = Len(chain) THEN FAT32_EOF ELSE chain[k + 1]]

Record(kind, name, files) ==
    [kind |-> kind, name |-> name, first_cluster |-> Clusters[name][1],
     size |-> IF name \in DOMAIN files THEN Len(files[name]) ELSE 0]

Directory(files) ==
    LET R(n) == Record(IF n \in DOMAIN files THEN "file" ELSE "deleted", n, files)
    IN  <<Record("deleted", "kernel", files), Record("lfn", "vgacons", files), R("ps2kbd"),
          Record("deleted", "fbsrv", files), R("fbsrv"), R("vgacons"), R("kernel"),
          Record("end", "kernel", files)>>

(* What is in sector s of cluster c. *)
ClusterSector(files, c, s) ==
    LET names == {n \in DOMAIN files : c \in ToSet(Clusters[n])}
        n == CHOOSE x \in names : TRUE
        k == CHOOSE x \in DOMAIN Clusters[n] : Clusters[n][x] = c
        d == CHOOSE x \in DOMAIN Clusters.dir : Clusters.dir[x] = c
    IN  IF c \in ToSet(Clusters.dir)
        THEN SubSeq(Directory(files), 4 * d + 2 * s - 3, 4 * d + 2 * s - 2)
        ELSE IF names = {} THEN Padded(<<>>, 2)
        ELSE SubSeq(Padded(files[n], 12), 4 * k + 2 * s - 3, 4 * k + 2 * s - 2)

BPB == [reserved_sectors |-> 1, n_fats |-> 2, sectors_per_fat |-> 2, sectors_per_cluster |-> 2,
        root_cluster |-> 2]

Disk(files, types, bad) ==
    [cd |-> FALSE,
     sectors |-> [l \in 0 .. 25 |->
        CASE l = 0 -> [k \in DOMAIN types |-> [lba |-> 1, type |-> types[k]]]
          [] l = 1 -> BPB
          [] l \in 2 .. 5 -> [k \in 1 .. FAT_ENTRIES |-> FAT[FAT_ENTRIES * (l % 2) + k - 1]]
          [] OTHER -> ClusterSector(files, 2 + ((l - 6) \div 2), l % 2)],
     fails |-> [l \in 0 .. 25 |-> IF l = bad THEN MAX_READ_RETRIES ELSE 0]]

-----------------------------------------------------------------------------
(* Sectors of four cells; the files follow one another. *)
CDPlace == [kernel |-> 5, ps2kbd |-> 9, vgacons |-> 10, fbsrv |-> 11]

CDDirectory(files) ==
    <<[kind |-> "dot"]>>
    \o [k \in 1 .. Cardinality(DOMAIN files) |->
          LET n == SetToSeq(DOMAIN files)[k]
          IN  [kind |-> "file", name |-> n, lba |-> CDPlace[n], size |-> Len(files[n])]]
    \o <<[kind |-> "padding"]>>

(* One sector that cannot be read the first times. *)
Disc(files, slow, times) ==
    [cd |-> TRUE,
     sectors |-> [l \in 0 .. 11 |->
        CASE l = 2 -> [type |-> "primary", root |-> 4]
          [] l \in {0, 1, 3} -> [type |-> "other"]
          [] l = 4 -> CDDirectory(files)
          [] OTHER -> LET n == CHOOSE x \in DOMAIN CDPlace : CDPlace[x] =
                                 Max({CDPlace[y] : y \in {z \in DOMAIN CDPlace : CDPlace[z] <= l}})
                          f == IF n \in DOMAIN files THEN files[n] ELSE <<>>
                      IN  SubSeq(Padded(f, 16), 4 * (l - CDPlace[n]) + 1, 4 * (l - CDPlace[n]) + 4)],
     fails |-> [l \in 0 .. 11 |-> IF l = slow THEN times ELSE 0]]

-----------------------------------------------------------------------------
Entry(a, b, t) == [addr |-> 4 * a, len |-> 4 * (b - a), type |-> t]

Answer(a, b, t) == Entry(a, b, t) @@ [ok |-> TRUE]
BigMemory == <<Answer(4, 9, "available"), Answer(2, 4, "reserved"), Answer(6, 6, "reserved"),
               Answer(0, 2, "available")>>
MuchMemory == <<Answer(4, 9, "available"), Answer(0, 1, "available"), Answer(1, 2, "reclaimable"),
                Answer(2, 4, "reserved")>>
SmallMemory == <<Answer(0, 2, "available"), Answer(4, 8, "available"),
                 [Answer(8, 9, "reserved") EXCEPT !.ok = FALSE]>>

Mode(id, score) == [id |-> id, score |-> score, fails |-> FALSE]
GoodModes == <<Mode("low", 3), Mode("wanted", 5), Mode("high", 7)>>
OtherModes == <<Mode("lowest", 1), Mode("low", 3)>>

Machine(drives, boot, answers, modes, refused, contents, readable) ==
    [drives |-> drives, BootDevice |-> boot, e820 |-> answers, modes |-> modes,
     refused |-> refused, contents |-> contents, readable |-> readable,
     high_memory |-> 4, BootFromActive |-> FALSE, active |-> TRUE, edd |-> TRUE, next_stage |-> TRUE]

Both(files, cdfiles) == (<<"hd", 0, 0>> :> files) @@ (<<"cd", 0>> :> cdfiles)

(* A disk and a CD, and everything is there that can be. *)
Good(files, boot, answers, modes, refused) ==
    Machine((128 :> Disk(files, <<"fat32">>, -1)) @@ (224 :> Disc(files, 1, MAX_READ_RETRIES - 1)),
            boot, answers, modes, refused, Both(files, files), TRUE)

GoodFiles == Contents(Image(<<BSS, Note, Text>>, 0, "elf", 6))

Best == Good(GoodFiles, 128, BigMemory, GoodModes, {})
BestCD == Good(GoodFiles, 224, BigMemory, GoodModes, {})

BootMachines ==
    {Best, [Best EXCEPT !.high_memory = 0], [Best EXCEPT !.high_memory = 3], [Best EXCEPT !.edd = FALSE],
     [Best EXCEPT !.next_stage = FALSE], [Best EXCEPT !.BootFromActive = TRUE],
     [Best EXCEPT !.BootFromActive = TRUE, !.next_stage = FALSE],
     [Best EXCEPT !.BootFromActive = TRUE, !.active = FALSE],
     [BestCD EXCEPT !.edd = FALSE], [BestCD EXCEPT !.next_stage = FALSE]} \cup
    {Good(Contents(k), b, BigMemory, GoodModes, {}) : k \in Kernels, b \in {128, 224}}
    \cup {Good(Without(GoodFiles, n), b, BigMemory, GoodModes, {}) :
             n \in {"kernel", "vgacons"}, b \in {128, 224}}
    \cup {Good(GoodFiles, b, SmallMemory, OtherModes, {}) : b \in {128, 224}}
    \cup {Good(GoodFiles, 128, MuchMemory, <<>>, {}),
          Good(GoodFiles, 128, BigMemory, OtherModes, {"lowest"}),
          Good(GoodFiles, 128, BigMemory, <<[Mode("low", 3) EXCEPT !.fails = TRUE]>>, {})}
    \* a second disk the BIOS calls a CD, a disk with an unknown partition
    \cup {Machine((128 :> [Disc(GoodFiles, 0, 0) EXCEPT !.cd = TRUE])
                    @@ (129 :> Disk(GoodFiles, <<"fat32", "empty">>, -1)),
                  129, BigMemory, GoodModes, {}, <<"hd", 0, 0>> :> GoodFiles, TRUE),
          Machine(128 :> Disk(GoodFiles, <<"unknown", "fat32">>, -1), 128, BigMemory, GoodModes, {},
                  <<"hd", 0, 1>> :> GoodFiles, TRUE),
          Machine(128 :> Disk(GoodFiles, <<"empty", "fat32">>, -1), 128, BigMemory, GoodModes, {},
                  <<"hd", 0, 1>> :> GoodFiles, TRUE),
          Machine(128 :> Disk(GoodFiles, <<"fat32">>, 0), 128, BigMemory, GoodModes, {},
                  <<"hd", 0, 0>> :> GoodFiles, FALSE)}
    \* bad sectors of the kernel and of the module
    \cup {Machine(128 :> Disk(GoodFiles, <<"fat32">>, l), 128, BigMemory, GoodModes, {},
                  <<"hd", 0, 0>> :> GoodFiles, FALSE) : l \in {8, 22}}
    \cup {Machine(224 :> Disc(GoodFiles, l, MAX_READ_RETRIES), 224, BigMemory, GoodModes, {},
                  <<"cd", 0>> :> GoodFiles, FALSE) : l \in {1, 4, 6, 10}}

-----------------------------------------------------------------------------
(* What other loaders hand over: two frame aligned entries, each in one of *)
(* the places, and up to two modules, neither empty.  The last frame below *)
(* 4 GiB is no memory, as on any PC.                                       *)
Types == {"available", "reclaimable", "reserved"}

TwoEntries(places) ==
    {<<Entry(p[1], p[2], t), Entry(q[1], q[2], u)>> :
        p \in places, q \in places, t \in Types, u \in Types}

InOrder(s) == s[1].addr + s[1].len <= s[2].addr

Spans(bounds) == {<<a, b>> \in bounds \X bounds : a < b}

HoleMaps == {s \in TwoEntries(Spans({0, 1, 2, 3, 4, 5, 6, 9}) \cup {<<10, 11>>}) : InOrder(s)}

KernelImage == [start |-> 17, end |-> 22]

Chunks == {[start |-> s, end |-> e] : s \in {8, 11, 19}, e \in {13, 17, 26}}

TwoModules ==
    {m \in SeqOf(Chunks, 2) : \A k \in DOMAIN m : m[k].start < m[k].end}

TextList == <<"ps2kbd", "vgacons">>
VideoList == <<"ps2kbd", "fbsrv">>
=============================================================================
