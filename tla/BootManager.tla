---------------------------- MODULE BootManager -----------------------------
(***************************************************************************)
(* The boot manager (bootmanager): the boot sectors and the loader, which  *)
(* finds the memory; bootmain, the menu and its keyboard                   *)
(* (core/init/bootentry.c, core/kbd/kbd.c), and what a menu entry starts:  *)
(* the kernel's ELF file is read into memory (elfldr/elfloader.c), then    *)
(* the modules after it (common/highmem.c), and the kernel is entered with *)
(* the Multiboot structure (init/main.c), whose memory map and modules     *)
(* MemoryMap goes on with.  All of the loading runs inside the interrupt   *)
(* handler of the Enter key.                                               *)
(***************************************************************************)
EXTENDS MemoryMap, BootVolumes

CONSTANTS
    HIGH_MEMORY_START,
    REQUIRED_SYSMEM,
    E820_MAX_ENTRIES,
    MULTIBOOT_SEARCH_FOR,
    KernelPath,             \* DEFAULT_KERNEL_PATH
    TextModules, VideoModules,  \* modules_needed, without and with fbmode
    Machines                \* what the BIOS finds: see BootSector, and
                            \* contents and readable for the properties

VARIABLES
    machine,        \* the hardware
    e820,           \* MemoryRegionsList
    stage,          \* where the boot manager is
    parts,          \* system_partitions
    himem,          \* [start, break, pages] of the high memory allocator
    menu,           \* [row, selected, extended]
    choice,         \* [volume, fb] of the entry selected
    file, header,   \* the kernel's file, and the ELF header read from it
    seg,            \* the loop of ReadELFToMemory: [i, loaded, offset, highest]
    memory,         \* what the boot manager has put where
    bootinfo        \* the Multiboot structure

kernelVars == <<bootVars, vars>>
bmVars == <<machine, e820, stage, parts, himem, menu, choice, file, header, seg,
                   memory, bootinfo>>

(* Where errors leave the boot manager: spinning, or halted in the handler *)
(* of the Enter key, waiting for a key that no other interrupt can report. *)
FatalError == "fatal"
RecoverableError == "stalled"

Zero == [kind |-> "zero"]
NoBootInfo == [mmap |-> <<>>, mods_addr |-> 0, mods_count |-> 0, fb |-> "text", mode |-> "text"]
NoSegments == [i |-> 0, loaded |-> 0, offset |-> 0, highest |-> 0]
NoHeader == [entry |-> 0, pht_off |-> 0, pht_n_entries |-> 0]
NoChoice == [volume |-> <<>>, fb |-> FALSE]

(* The boot manager's variables before bootmain, and when it is gone. *)
Fresh ==
    [e820 |-> <<>>, parts |-> <<>>, himem |-> [start |-> 0, break |-> 0, pages |-> 0],
     menu |-> [row |-> 0, selected |-> 0, extended |-> FALSE],
     choice |-> NoChoice, file |-> NotLoaded, header |-> NoHeader, seg |-> NoSegments,
     memory |-> <<>>, bootinfo |-> NoBootInfo]

NoMachine == [drives |-> <<>>]

(* The kernel is started by this boot manager, or by any loader that       *)
(* follows the Multiboot specification.                                    *)
ManagerInit ==
    /\ e820 = Fresh.e820 /\ parts = Fresh.parts /\ himem = Fresh.himem /\ menu = Fresh.menu
    /\ choice = Fresh.choice /\ file = Fresh.file /\ header = Fresh.header
    /\ seg = Fresh.seg /\ memory = Fresh.memory /\ bootinfo = Fresh.bootinfo
    /\ \/ machine = NoMachine /\ stage = "left" /\ BootInit
       \/ /\ machine \in Machines /\ stage = "sector"
          /\ mmap = <<>> /\ mods = <<>> /\ pc = "off"
          /\ reserved = <<>> /\ regions = <<>> /\ i = 1 /\ j = 0 /\ highest_addr = 0
          /\ bitmap = {} /\ usable = {} /\ held = {}

-----------------------------------------------------------------------------
EnoughMemory == machine.high_memory # 0 /\ machine.high_memory >= REQUIRED_SYSMEM

(* Where the boot sector of a disk jumps to: the first sector of the       *)
(* active partition, if it is set up so and there is one, or the loader.   *)
AfterDiskSector ==
    CASE ~EnoughMemory -> "key"
      [] EnoughMemory /\ machine.BootFromActive /\ machine.active ->
            IF machine.next_stage THEN "chained" ELSE "key"
      [] OTHER -> IF machine.edd /\ machine.next_stage THEN "loader" ELSE "key"

AfterCDSector == IF EnoughMemory /\ machine.next_stage THEN "loader" ELSE "key"

BootSector ==
    /\ stage = "sector"
    /\ stage' = IF machine.drives[machine.BootDevice].cd THEN AfterCDSector ELSE AfterDiskSector
    /\ UNCHANGED <<kernelVars, machine, e820, parts, himem, menu, choice, file, header, seg,
                   memory, bootinfo>>

WaitForKeyAndReboot ==
    /\ stage = "key" /\ stage' = "reboot"
    /\ UNCHANGED <<kernelVars, machine, e820, parts, himem, menu, choice, file, header, seg,
                   memory, bootinfo>>

(* One turn of DiscoverLoop: the BIOS's answer r, which may be a failure;  *)
(* after the last one ebx is zero.                                         *)
Discover(st, r) ==
    IF st.ready \/ Len(st.list) >= E820_MAX_ENTRIES THEN st
    ELSE IF ~r.ok THEN [st EXCEPT !.ready = TRUE]
    ELSE IF r.len = 0 THEN st
    ELSE [st EXCEPT !.list = Append(@, [addr |-> r.addr, len |-> r.len, type |-> r.type])]

BootloaderMain ==
    /\ stage = "loader" /\ stage' = "probe"
    /\ e820' = Each(Discover, [list |-> <<>>, ready |-> FALSE], machine.e820).list
    /\ UNCHANGED <<kernelVars, machine, parts, himem, menu, choice, file, header, seg, memory,
                   bootinfo>>

(* One pass of BubbleSortMemoryRegions; a pass that swaps nothing is the   *)
(* last, and further ones would swap nothing either.  The BIOS is taken to *)
(* report a region at least.                                               *)
BubblePass(s, n) ==
    Each(LAMBDA t, k : IF t[k + 1].addr > t[k + 2].addr
                       THEN [t EXCEPT ![k + 1] = t[k + 2], ![k + 2] = t[k + 1]] ELSE t,
         s, Count(Len(s) - n - 1))

FetchMemoryRegions == Each(BubblePass, e820, Count(Len(e820) - 1))

(* AllocHighInit: the largest available region above 1 MiB, if it is       *)
(* larger than the megabyte, here a frame, that is taken to be there.      *)
LargerRegion(best, r) ==
    LET base == pagealign(r.addr)
        end == r.addr + r.len
    IN  IF r.type = "available" /\ r.addr >= HIGH_MEMORY_START /\ base < end
              /\ end - base > best.break - best.start
        THEN [start |-> base, break |-> end] ELSE best

AllocHighInit(map) ==
    LET Claim(best) == best @@ [pages |-> (best.break - best.start) \div FRAME_SIZE]
    IN  Once(Claim, Each(LargerRegion,
                         [start |-> HIGH_MEMORY_START,
                          break |-> HIGH_MEMORY_START + FRAME_SIZE], map))

AllocHighBreakAt(h, start) ==
    LET from == IF start > h.start THEN start ELSE h.start
    IN  [h EXCEPT !.start = from,
                  !.pages = IF h.break > from THEN (h.break - from) \div FRAME_SIZE ELSE 0]

(* AllocateHighMemory returns h.start, or a null pointer. *)
HighMemoryLeft(h, n) == n # 0 /\ n <= h.pages
AllocateHighMemory(h, n) == [h EXCEPT !.start = @ + n * FRAME_SIZE, !.pages = @ - n]

(* bootmain up to the menu: drives, memory, and the Multiboot structure. *)
bootmain ==
    /\ stage = "probe"
    /\ \E t \in {InitPartitionTable(machine.drives, machine.BootDevice)},
          map \in {FetchMemoryRegions} :
          /\ parts' = t.parts
          /\ stage' = IF t.used = 0 THEN FatalError ELSE "menu"
          /\ himem' = AllocHighInit(map)
          /\ bootinfo' = [bootinfo EXCEPT !.mmap = map]
    /\ UNCHANGED <<kernelVars, machine, e820, menu, choice, file, header, seg, memory>>

-----------------------------------------------------------------------------
BootEntry(volume, fb) == [does |-> "boot", volume |-> volume, fb |-> fb]
Reboot == [does |-> "reboot"]
EmptyEntry == [does |-> "nothing"]

(* The entries as AddEntry leaves them; the one without a callback is      *)
(* refused, and its place stays empty.                                     *)
Entries ==
    IF machine.BootDevice >= FirstCD
    THEN <<BootEntry(<<"cd", 0>>, FALSE), BootEntry(<<"cd", 0>>, TRUE),
           BootEntry(<<"hd", 0, 0>>, TRUE), Reboot>>
    ELSE <<BootEntry(<<"hd", 0, 0>>, FALSE), EmptyEntry,
           BootEntry(<<"hd", 0, 0>>, TRUE), Reboot>>

Used(row) == row \in 0 .. Len(Entries) - 1 /\ Entries[row + 1] # EmptyEntry

(* The next entry up or down that is no empty one, or the same one. *)
MoveUp(row) ==
    LET above == {r \in 0 .. row - 1 : Used(r)} IN IF above = {} THEN row ELSE Max(above)

(* NAME_Fault, here and below, is NAME with a slip that the properties at  *)
(* the end must notice.                                                    *)
MoveDown_One(row) == IF row + 1 < Len(Entries) THEN row + 1 ELSE row

MoveDown(row) ==
    LET below == {r \in row + 1 .. Len(Entries) - 1 : Used(r)}
    IN  IF below = {} THEN row ELSE Min(below)

(* An arrow: UpdateIndex takes the row over into the menu. *)
Arrow(row) == [row |-> row, selected |-> IF row < Len(Entries) THEN row ELSE menu.selected,
               extended |-> FALSE]

(* EntrySelected *)
EntrySelected(e) ==
    CASE e.does = "boot" -> stage' = "open" /\ choice' = [volume |-> e.volume, fb |-> e.fb]
      [] e.does = "reboot" -> stage' = "reboot" /\ UNCHANGED choice
      [] OTHER -> UNCHANGED <<stage, choice>>

(* KeyboardIRQHandler: an arrow is what follows the extended prefix, and   *)
(* only Enter without it selects.                                          *)
KeyboardIRQHandler(sc) ==
    /\ stage = "menu"
    /\ CASE sc \in {"extended", "release"} ->
               menu' = [menu EXCEPT !.extended = sc = "extended"] /\ UNCHANGED <<stage, choice>>
         [] sc \in {"up", "down", "enter"} /\ menu.extended ->
               /\ menu' = Arrow(CASE sc = "up" -> MoveUp(menu.row)
                                  [] sc = "down" -> MoveDown(menu.row)
                                  [] OTHER -> menu.row)
               /\ UNCHANGED <<stage, choice>>
         [] sc = "enter" /\ ~menu.extended ->
               EntrySelected(Entries[menu.selected + 1]) /\ UNCHANGED menu
         [] OTHER -> UNCHANGED <<menu, stage, choice>>
    /\ UNCHANGED <<kernelVars, machine, e820, parts, himem, file, header, seg,
                   memory, bootinfo>>

-----------------------------------------------------------------------------
(* GetVESAInformationBlock, and the kernel's file is opened. *)
OpenKernel ==
    /\ stage = "open"
    /\ \E f \in {OpenFile(machine.drives, parts, choice.volume, KernelPath)} :
          IF f.loaded /\ (choice.fb => machine.modes # <<>>)
          THEN stage' = "multiboot" /\ file' = f
          ELSE stage' = FatalError /\ UNCHANGED file
    /\ UNCHANGED <<kernelVars, machine, e820, parts, himem, menu, choice, header, seg,
                   memory, bootinfo>>

(* FindMultibootHeader: 0 or the place of the first header with a checksum. *)
FindMultibootHeader(buffer) ==
    SelectInSeq(buffer, LAMBDA c : c.kind = "multiboot" /\ c.checksum = 0)

(* One mode of FindBestVESAMode, where st.found ends the loop. *)
CompareMode(st, m, target) ==
    LET result == target - m.score
    IN  CASE st.found \/ st.bad -> st
          [] ~st.found /\ ~st.bad /\ m.fails -> [st EXCEPT !.bad = TRUE]
          [] OTHER -> IF result = 0 THEN [st EXCEPT !.found = TRUE, !.mode = m.id, !.info = m.id]
                      ELSE IF st.last < result
                      THEN [st EXCEPT !.mode = m.id, !.last = result, !.info = m.id]
                      ELSE [st EXCEPT !.info = m.id]

(* The mode it selects, and the one its mode information is about: without *)
(* an exact match, the last of the list.                                   *)
FindBestVESAMode(modes, target) ==
    Each(LAMBDA st, m : CompareMode(st, m, target),
         [found |-> FALSE, bad |-> FALSE, mode |-> "none", last |-> 0, info |-> "none"], modes)

(* The start of the file is searched for the header; in video mode the     *)
(* mode it asks for is set.                                                *)
ReadMultibootHeader ==
    /\ stage = "multiboot"
    /\ \E r \in {ReadFromFile(machine.drives, file, MULTIBOOT_SEARCH_FOR)} :
       \E k \in {FindMultibootHeader(r.out)} :
          /\ file' = r.file
          /\ IF r.fatal \/ k = 0
             THEN stage' = FatalError /\ UNCHANGED bootinfo
             ELSE IF ~choice.fb THEN stage' = "elf" /\ UNCHANGED bootinfo
             ELSE LET best == FindBestVESAMode(machine.modes, r.out[k].score)
                  IN  /\ stage' = IF best.bad \/ best.mode \in machine.refused
                                  THEN FatalError ELSE "elf"
                      /\ bootinfo' = [bootinfo EXCEPT !.fb = best.info, !.mode = best.mode]
    /\ UNCHANGED <<kernelVars, machine, e820, parts, himem, menu, choice, header, seg, memory>>

ReadAt(cursor, n) == ReadFromFile(machine.drives, [file EXCEPT !.cursor = cursor], n)

(* ReadELFToMemory up to its loop. *)
ReadELFHeader ==
    /\ stage = "elf"
    /\ \E r \in {ReadFromFile(machine.drives, [file EXCEPT !.cursor = 0, !.ended = FALSE], 1)} :
          /\ file' = r.file
          /\ IF r.fatal \/ r.out[1].kind # "elf"
             THEN stage' = FatalError /\ UNCHANGED header
             ELSE /\ stage' = "segments"
                  /\ header' = [n \in DOMAIN NoHeader |-> r.out[1][n]]
    /\ UNCHANGED <<kernelVars, machine, e820, parts, himem, menu, choice, seg, memory, bootinfo>>

(* Zeroes, then cells, from address a on. *)
Written(mem, a, zeroes, cells) ==
    [x \in a .. a + Max({zeroes, Len(cells)}) - 1 |->
        IF x < a + Len(cells) THEN cells[x - a + 1] ELSE Zero] @@ mem

Highest_Last(highest, end) == end

(* highest_addr_used *)
Highest(highest, end) == IF end > highest THEN end ELSE highest

(* A segment s that is to be loaded, r having been read for it. *)
LoadSegment(s, r) ==
    IF r.fatal THEN stage' = FatalError /\ UNCHANGED <<seg, memory>>
    ELSE /\ memory' = Written(memory, s.paddr, s.size_mem, r.out)
         /\ seg' = [i |-> seg.i + 1, loaded |-> seg.loaded + 1,
                    offset |-> IF s.executable THEN s.vaddr - s.paddr ELSE seg.offset,
                    highest |-> Highest(seg.highest, s.paddr + s.size_mem)]
         /\ UNCHANGED stage

(* One entry of the program header table. *)
ReadSegment ==
    /\ stage = "segments" /\ seg.i < header.pht_n_entries
    /\ \E h \in {ReadAt(header.pht_off + seg.i, 1)} :
          IF h.fatal THEN stage' = FatalError /\ UNCHANGED <<file, seg, memory>>
          ELSE IF h.out[1].type # "load"
          THEN file' = h.file /\ seg' = [seg EXCEPT !.i = @ + 1] /\ UNCHANGED <<stage, memory>>
          ELSE \E r \in {ReadFromFile(machine.drives, [h.file EXCEPT !.cursor = h.out[1].offset],
                                      h.out[1].size)} :
                  file' = r.file /\ LoadSegment(h.out[1], r)
    /\ UNCHANGED <<kernelVars, machine, e820, parts, himem, menu, choice, header, bootinfo>>

(* The end of ReadELFToMemory, and the frame of the module headers. *)
AllocateModuleHeaders ==
    /\ stage = "segments" /\ seg.i = header.pht_n_entries
    /\ LET h == AllocHighBreakAt(himem, pagealign(seg.highest))
       IN  IF seg.loaded = 0 \/ ~HighMemoryLeft(h, 1)
           THEN stage' = FatalError /\ himem' = h /\ UNCHANGED bootinfo
           ELSE /\ stage' = "modules" /\ himem' = AllocateHighMemory(h, 1)
                /\ bootinfo' = [bootinfo EXCEPT !.mods_addr = h.start]
    /\ UNCHANGED <<kernelVars, machine, e820, parts, menu, choice, file, header, seg, memory>>

(* One of the headers at mods_addr. *)
ModuleHeader(start, size) == [kind |-> "module", start |-> start, end |-> start + size]

modules_needed == IF choice.fb THEN VideoModules ELSE TextModules

LoadModule ==
    /\ stage = "modules" /\ bootinfo.mods_count < Len(modules_needed)
    /\ \E f \in {OpenFile(machine.drives, parts, choice.volume,
                          modules_needed[bootinfo.mods_count + 1])} :
       IF ~f.loaded
       THEN /\ stage' = IF f.fatal THEN FatalError ELSE RecoverableError
            /\ UNCHANGED <<himem, memory, bootinfo>>
       ELSE LET n == pagealign(f.filesize) \div FRAME_SIZE
            IN  IF ~HighMemoryLeft(himem, n)
                THEN stage' = FatalError /\ UNCHANGED <<himem, memory, bootinfo>>
                ELSE \E r \in {ReadFromFile(machine.drives, f, f.filesize)} :
                       IF r.fatal THEN stage' = FatalError /\ UNCHANGED <<himem, memory, bootinfo>>
                       ELSE /\ memory' = (bootinfo.mods_addr + bootinfo.mods_count
                                           :> ModuleHeader(himem.start, f.filesize))
                                          @@ Written(memory, himem.start, n * FRAME_SIZE, r.out)
                            /\ himem' = AllocateHighMemory(himem, n)
                            /\ bootinfo' = [bootinfo EXCEPT !.mods_count = @ + 1]
                            /\ UNCHANGED stage
    /\ UNCHANGED <<kernelVars, machine, e820, parts, menu, choice, file, header, seg>>

(* _JumpToKernel, at header.entry - virt_offset. *)
JumpToKernel ==
    /\ stage = "modules" /\ bootinfo.mods_count = Len(modules_needed)
    /\ stage' = "jump"
    /\ UNCHANGED <<kernelVars, machine, e820, parts, himem, menu, choice, file, header, seg,
                   memory, bootinfo>>

LoadAndBootKernel ==
    \/ OpenKernel \/ ReadMultibootHeader \/ ReadELFHeader
    \/ ReadSegment \/ AllocateModuleHeaders \/ LoadModule \/ JumpToKernel

(* The modules as the kernel finds them. *)
BootModules == [k \in 1 .. bootinfo.mods_count |-> memory[bootinfo.mods_addr + k - 1]]

(* SystemKernelInit: the structure and the module headers are copied, and  *)
(* the boot manager is gone.                                               *)
RegisterBootInformation ==
    /\ stage = "jump"
    /\ stage' = "left" /\ pc' = "reserve"
    /\ mmap' = bootinfo.mmap
    /\ mods' = [k \in DOMAIN BootModules |->
                  [start |-> BootModules[k].start, end |-> BootModules[k].end]]
    /\ machine' = NoMachine
    /\ e820' = Fresh.e820 /\ parts' = Fresh.parts /\ himem' = Fresh.himem /\ menu' = Fresh.menu
    /\ choice' = Fresh.choice /\ file' = Fresh.file /\ header' = Fresh.header
    /\ seg' = Fresh.seg /\ memory' = Fresh.memory /\ bootinfo' = Fresh.bootinfo
    /\ UNCHANGED <<reserved, regions, i, j, highest_addr>> /\ UNCHANGED vars

Scancodes == {"extended", "release", "up", "down", "enter", "other"}

ManagerStep ==
    BootSector \/ BootloaderMain \/ bootmain \/ LoadAndBootKernel \/ RegisterBootInformation

allVars == <<bmVars, kernelVars>>

SystemNext ==
    \/ ManagerStep
    \/ WaitForKeyAndReboot
    \/ \E sc \in Scancodes : KeyboardIRQHandler(sc)
    \/ MemoryNext /\ UNCHANGED bmVars

(* Nothing else runs while the system starts; only keys need not be typed. *)
SystemSpec ==
    /\ ManagerInit /\ [][SystemNext]_allVars
    /\ WF_allVars(ManagerStep) /\ WF_allVars(BootStep /\ UNCHANGED bmVars)

-----------------------------------------------------------------------------
(* The reference: what is on a volume, by name, without sectors.  The      *)
(* volume of an identifier is the drive and the partition a user counts.   *)
Volume(id) == machine.contents[id]

(* The memory that the BIOS reports before a call fails. *)
Reported ==
    {[addr |-> r.addr, len |-> r.len, type |-> r.type] : r \in
        {machine.e820[k] : k \in {n \in DOMAIN machine.e820 : machine.e820[n].len # 0
                                    /\ \A b \in 1 .. n : machine.e820[b].ok}}}

KernelFile == Volume(choice.volume)[KernelPath]

ProgramHeaders == SubSeq(KernelFile, header.pht_off + 1, header.pht_off + header.pht_n_entries)

Segments == {s \in ToSet(ProgramHeaders) : s.type = "load"}

(* The video mode that the kernel asks for. *)
WantedScore ==
    KernelFile[FindMultibootHeader(SubSeq(KernelFile, 1, MULTIBOOT_SEARCH_FOR))].score

Holds(a, cell) == a \in DOMAIN memory /\ memory[a] = cell

(* The kernel is entered with every segment in its place and every module  *)
(* where the Multiboot structure says, cell by cell as on the volume: no   *)
(* wrong sector or cluster was read, nothing that was loaded is            *)
(* overwritten by what is loaded after it, and the address jumped to is    *)
(* that of the entry point.  The memory map is the BIOS's, in order, as    *)
(* far as there is room.  In video mode, on a card that has the mode       *)
(* the kernel asks for, the frame buffer described is that of the mode     *)
(* set.                                                                    *)
KernelIsIntact ==
    stage = "jump" =>
        /\ \A s \in Segments :
              /\ \A k \in 0 .. s.size - 1 : Holds(s.paddr + k, KernelFile[s.offset + k + 1])
              /\ \A k \in s.size .. s.size_mem - 1 : Holds(s.paddr + k, Zero)
        /\ \A k \in DOMAIN modules_needed :
              LET cells == Volume(choice.volume)[modules_needed[k]]
              IN  /\ BootModules[k].end = BootModules[k].start + Len(cells)
                  /\ \A c \in DOMAIN cells : Holds(BootModules[k].start + c - 1, cells[c])
        /\ \E s \in Segments :
              s.executable /\ header.entry - seg.offset = s.paddr + header.entry - s.vaddr
        /\ ToSet(bootinfo.mmap) \subseteq Reported
        /\ Len(bootinfo.mmap) = Min({Cardinality(Reported), E820_MAX_ENTRIES})
        /\ \A k \in 2 .. Len(bootinfo.mmap) : bootinfo.mmap[k - 1].addr < bootinfo.mmap[k].addr
        /\ choice.fb /\ bootinfo.fb # bootinfo.mode =>
              \A m \in ToSet(machine.modes) : m.score # WantedScore

(* The frames that everything takes after the kernel. *)
FramesNeeded ==
    LET frames(k) == pagealign(Len(Volume(choice.volume)[modules_needed[k]])) \div FRAME_SIZE
    IN  1 + MapThenSumSet(frames, DOMAIN modules_needed)

(* Everything a boot entry needs is there: the volume with all the files,  *)
(* readable, a kernel that is an ELF file with a Multiboot header, enough  *)
(* memory after it, and for video mode a mode that the BIOS sets.  On a CD *)
(* no segment ends with the file when more program headers are to come:    *)
(* such a read sets file->ended, which nothing resets.                     *)
Bootable ==
    /\ choice.volume \in DOMAIN machine.contents
    /\ machine.readable
    /\ {KernelPath} \cup ToSet(modules_needed) \subseteq DOMAIN Volume(choice.volume)
    /\ Len(KernelFile) >= MULTIBOOT_SEARCH_FOR
    /\ \E c \in ToSet(SubSeq(KernelFile, 1, MULTIBOOT_SEARCH_FOR)) :
          c.kind = "multiboot" /\ c.checksum = 0
    /\ KernelFile[1].kind = "elf"
    /\ LET phdrs == SubSeq(KernelFile, KernelFile[1].pht_off + 1,
                           KernelFile[1].pht_off + KernelFile[1].pht_n_entries)
           loads == {k \in DOMAIN phdrs : phdrs[k].type = "load"}
           end == Max({phdrs[k].paddr + phdrs[k].size_mem : k \in loads})
           best == CHOOSE r \in Reported :
                     /\ r.type = "available" /\ r.addr >= HIGH_MEMORY_START
                     /\ \A q \in Reported : q.type = "available"
                           /\ q.addr >= HIGH_MEMORY_START => q.len <= r.len
       IN  /\ loads # {}
           /\ Max({pagealign(end), best.addr}) + FRAME_SIZE * FramesNeeded <= best.addr + best.len
           /\ choice.volume[1] = "cd" => \A k \in loads :
                 phdrs[k].offset + phdrs[k].size = Len(KernelFile) => k = Len(phdrs)
    /\ choice.fb => /\ machine.modes # <<>>
                    /\ \A m \in ToSet(machine.modes) : ~m.fails /\ m.id \notin machine.refused

(* A machine that can boot does: the boot manager gives up, with           *)
(* FatalError or waiting for ever in RecoverableError, only when something *)
(* it needs is missing.                                                    *)
BootsWhatItCan == stage \in {FatalError, RecoverableError} /\ choice # NoChoice => ~Bootable

(* The entry that the menu shows as selected can be selected: no sequence  *)
(* of keys leaves the selection on an empty place, or the keyboard's row   *)
(* different from the menu's.                                              *)
SelectionIsThere == stage = "menu" => menu.selected = menu.row /\ Used(menu.selected)
=============================================================================
