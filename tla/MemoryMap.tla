----------------------------- MODULE MemoryMap ------------------------------
(***************************************************************************)
(* From the memory map of the boot loader to the first bitmap: the regions *)
(* AddMemoryRegions (sys/mem/mm.c) cuts out of the map around the kernel   *)
(* and the boot modules, and the loop with which InitFrameManager          *)
(* (sys/mem/frame.c) marks their frames, which FrameAllocator then gives   *)
(* out.  Addresses are bytes; those of the map are wide, those of the      *)
(* kernel wrap at MAX_ADDRESS + 1.                                         *)
(***************************************************************************)
EXTENDS FrameAllocator, Sequences, SequencesExt

CONSTANTS
    FRAME_SIZE,
    MAX_MEM_REGIONS,
    MAX_RESERVED,       \* arraysize(reserved)
    Maps,               \* memory maps: sequences of [addr, len, type]
    Kernel,             \* the kernel image, [start, end]
    ModuleLists         \* what the loader put in memory: [start, end] each

ASSUME MemoryMapAssumption == FRAME_SIZE \in Nat /\ FRAME_SIZE > 2

VARIABLES
    mmap, mods,     \* the boot information
    reserved,       \* the kernel and the modules
    regions,        \* mem_regions up to mem_regions_idx
    pc,             \* "reserve", "add", "region", "mark", "run" or "fatal"
    i, j,           \* the counters of the loops
    highest_addr

bootVars == <<mmap, mods, reserved, regions, pc, i, j, highest_addr>>

(* PTR32_MAX_ADDRESSABLE, which is U32_MAX: the last byte of the last frame. *)
MAX_ADDRESS == NFrames * FRAME_SIZE - 1

Wrap(a) == a % (MAX_ADDRESS + 1)

(* Op(v); TLC evaluates v, the accumulator of a fold, only once. *)
Strict(Op(_), v) == CHOOSE w \in {Op(x) : x \in {v}} : TRUE

BootInit ==
    /\ mmap \in Maps /\ mods \in ModuleLists
    /\ reserved = <<>> /\ regions = <<>> /\ pc = "reserve"
    /\ i = 1 /\ j = 0 /\ highest_addr = 0
    /\ bitmap = {}          \* memset(bitmap, 0xFF, ...)
    /\ usable = {} /\ held = {}

-----------------------------------------------------------------------------
aligndown(a) == (a \div FRAME_SIZE) * FRAME_SIZE
pagealign(a) == Wrap(aligndown(a + FRAME_SIZE - 1))

Aligned(r) == [start |-> aligndown(r.start), end |-> pagealign(r.end)]

(* One comparison of SortReservedChunks, of the elements at k - 1 and k. *)
Bubble(s, k) ==
    IF s[k].start < s[k - 1].start
    THEN [s EXCEPT ![k] = s[k - 1], ![k - 1] = s[k]]
    ELSE s

(* NAME_Fault, here and below, is NAME with a slip that the properties at  *)
(* the end must notice.                                                    *)
SortReservedChunks_Not(s) == s

(* Round r carries the smallest of the elements from r on to place r - 1. *)
SortReservedChunks(s) ==
    LET n == Len(s)
        Compare(t, k) == Strict(LAMBDA u : Bubble(u, k), t)
        Round(t, r) == FoldLeft(Compare, t, [k \in 1 .. n - r + 1 |-> n + 1 - k])
    IN  FoldLeft(Round, s, [r \in 1 .. n - 1 |-> r + 1])

(* AddMemoryRegions starts with the kernel and as many modules as there is *)
(* room for.                                                               *)
ReserveChunks ==
    /\ pc = "reserve"
    /\ LET all == <<Kernel>> \o mods
           n == IF Len(all) > MAX_RESERVED THEN MAX_RESERVED ELSE Len(all)
       IN  reserved' = Strict(SortReservedChunks, [k \in 1 .. n |-> Aligned(all[k])])
    /\ pc' = "add"
    /\ UNCHANGED <<mmap, mods, regions, i, j, highest_addr>> /\ UNCHANGED vars

(* mem_regions[mem_regions_idx++], unless the array is full. *)
Added(s, start, end) ==
    IF Len(s) < MAX_MEM_REGIONS
    THEN Append(s, [start |-> start, len |-> end - start])
    ELSE s

(* One reserved chunk of the loop over an entry that ends at region_end:   *)
(* c has the regions so far, curr_start, and whether the loop has broken.  *)
Cut(c, r, region_end) ==
    CASE c.break \/ r.end <= c.curr_start -> c
      [] ~c.break /\ r.end > c.curr_start /\ r.start >= region_end ->
            [c EXCEPT !.break = TRUE]
      [] OTHER ->
            [c EXCEPT !.curr_start = r.end,
                      !.regions = IF c.curr_start < r.start
                                  THEN Added(@, c.curr_start, r.start) ELSE @]

UsableTypes == {"available", "reclaimable"}

(* The last byte of an entry that the kernel can address. *)
EntryEnd(e) ==
    LET end == e.addr + e.len - 1
    IN  IF end >= MAX_ADDRESS THEN MAX_ADDRESS - 1 ELSE end

(* The regions after an entry: one beyond the address space or of another  *)
(* type leaves them as they are.                                           *)
WithEntry(e) ==
    IF e.addr >= MAX_ADDRESS \/ e.type \notin UsableTypes
    THEN regions
    ELSE LET region_end == EntryEnd(e)
             Step(c, r) == Strict(LAMBDA d : Cut(d, r, region_end), c)
             Rest(c) == IF c.curr_start < region_end
                        THEN Added(c.regions, c.curr_start, region_end) ELSE c.regions
             start == [regions |-> regions, curr_start |-> e.addr, break |-> FALSE]
         IN  Strict(Rest, FoldLeft(Step, start, reserved))

(* One entry of the memory map, or the end of AddMemoryRegions: after the  *)
(* last entry, or when the array is full.                                  *)
AddEntry ==
    /\ pc = "add"
    /\ IF i <= Len(mmap) /\ Len(regions) < MAX_MEM_REGIONS
       THEN regions' = WithEntry(mmap[i]) /\ i' = i + 1 /\ UNCHANGED pc
       ELSE /\ pc' = IF regions = <<>> THEN "fatal" ELSE "region"
            /\ i' = 1
            /\ UNCHANGED regions
    /\ UNCHANGED <<mmap, mods, reserved, j, highest_addr>> /\ UNCHANGED vars

-----------------------------------------------------------------------------
(* current.start + current.len, in the width of the kernel. *)
End(k) == Wrap(regions[k].start + regions[k].len)

MarkingDone == pc = "region" /\ i > Len(regions)

(* The outer loop of InitFrameManager takes the next region. *)
EnterRegion ==
    /\ pc = "region" /\ ~MarkingDone
    /\ pc' = "mark"
    /\ highest_addr' = IF End(i) > highest_addr THEN End(i) ELSE highest_addr
    /\ j' = regions[i].start
    /\ UNCHANGED <<mmap, mods, reserved, regions, i>> /\ UNCHANGED vars

(* It is over, and the boot information is not read again. *)
Boot ==
    /\ MarkingDone
    /\ pc' = "run"
    /\ mmap' = <<>> /\ mods' = <<>> /\ reserved' = <<>> /\ regions' = <<>>
    /\ i' = 1 /\ j' = 0
    /\ UNCHANGED highest_addr /\ UNCHANGED vars

MarkFrameAvailable(frameaddr) ==
    IF frameaddr < 2 * FRAME_SIZE \/ frameaddr > highest_addr
    THEN bitmap
    ELSE bitmap \cup {frameaddr \div FRAME_SIZE}

NextFrame_Stay(a) == a

(* j += FRAME_SIZE *)
NextFrame(a) == Wrap(a + FRAME_SIZE)

(* One turn of the inner loop, or its end. *)
MarkRegion ==
    /\ pc = "mark"
    /\ IF j < End(i)
       THEN /\ bitmap' = MarkFrameAvailable(j) /\ usable' = bitmap'
            /\ j' = NextFrame(j)
            /\ UNCHANGED <<pc, i>>
       ELSE pc' = "region" /\ i' = i + 1 /\ UNCHANGED <<j, bitmap, usable>>
    /\ UNCHANGED <<mmap, mods, reserved, regions, highest_addr, held>>

BootStep == ReserveChunks \/ AddEntry \/ EnterRegion \/ MarkRegion \/ Boot

MemoryNext == BootStep \/ (pc = "run" /\ Next /\ UNCHANGED bootVars)

(* Booting has the processor to itself. *)
MemorySpec ==
    BootInit /\ [][MemoryNext]_<<bootVars, vars>> /\ WF_<<bootVars, vars>>(BootStep)

-----------------------------------------------------------------------------
(* The bytes of a frame, and the frames the kernel may hand out: memory of *)
(* a usable type throughout, below the limit of the address space, no byte *)
(* of which belongs to the kernel or to a module.                          *)
Bytes(f) == f * FRAME_SIZE .. (f + 1) * FRAME_SIZE - 1

Allocatable ==
    {f \in 2 .. MAX_ADDRESS \div FRAME_SIZE :
        /\ \E k \in DOMAIN mmap :
              /\ mmap[k].type \in UsableTypes
              /\ Bytes(f) \subseteq mmap[k].addr .. mmap[k].addr + mmap[k].len - 1
        /\ \A r \in {Kernel} \cup {mods[k] : k \in DOMAIN mods} :
              Bytes(f) \cap (r.start .. r.end - 1) = {}}

(* No frame of the kernel or of a module is ever marked available, in      *)
(* whatever order the loader reports them and however they overlap, and    *)
(* when the marking is over nothing usable was left out, unless the array  *)
(* of regions filled up.                                                   *)
BitmapMatchesMap ==
    /\ pc # "run" => bitmap \subseteq Allocatable
    /\ (MarkingDone \/ pc = "fatal") /\ Len(regions) < MAX_MEM_REGIONS
          => bitmap = Allocatable

(* InitFrameManager comes to an end, though its loop counts in the width   *)
(* of an address and stops only at the end of a region: mm.c gives up what *)
(* lies beyond 4 GiB because that "fixes bugs in machines with a lot of    *)
(* memory".  The last frame below 4 GiB is taken to be no memory, as it is *)
(* on any PC: a region that reached it would make the counter wrap.        *)
BootGoesOn == (pc = "reserve") ~> (pc \in {"run", "fatal"})
=============================================================================
