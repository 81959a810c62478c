----------------------------- MODULE KernelHeap -----------------------------
(***************************************************************************)
(* The kernel's half of the address space: its heap (sys/lib/kmalloc.c),   *)
(* its page mappings (sys/ddk/ia32/vmm.c), and the processes and threads   *)
(* whose blocks, stacks and temporary mappings live there                  *)
(* (sys/task/process.c, sys/task/task.c, sys/iomgr/thread.c).              *)
(*                                                                         *)
(* Pages are page numbers of the kernel's half, frames are frame numbers.  *)
(* A pointer is a page and a place in it: place 0 is the page itself, the  *)
(* others are the objects of a slab.  Every call runs with interrupts off, *)
(* so an action is a whole call.  A call works on a record m of the        *)
(* memory: m.ret is what it returned last, m.ok whether that is no null    *)
(* pointer, and m.fatal that it ended in FatalError or in a page fault of  *)
(* the kernel.                                                             *)
(***************************************************************************)
EXTENDS Integers, Sequences, FiniteSets, TLC

LOCAL INSTANCE SequencesExt
LOCAL INSTANCE FiniteSetsExt

CONSTANTS
    NFrames,                \* high frames of the machine
    NPageTables,            \* kernel page tables, allocated at boot
    HEAP_BASE, HEAP_BREAK,  \* the heap: pages HEAP_BASE .. HEAP_BREAK - 1
    KERNEL_STACK_BASE, KERNEL_STACK_END,
    FirstPage,              \* the first page after the kernel's image
    TMPMAP_MAX_PAGES,
    VIRT_OFFSET,            \* page number - frame number, for the image
    Slabs,                  \* sizes of slab_sizes, with their n_objects
    SlabSize,               \* the slab size of what is allocated here
    USER_STACK_SIZE_PAGES,
    ModuleSizes,            \* pages of the boot modules
    HugePages, MaxBlocks, MaxThreads    \* bounds

ASSUME KernelHeapAssumption ==
    /\ FirstPage <= HEAP_BASE /\ HEAP_BASE < KERNEL_STACK_BASE
    /\ KERNEL_STACK_BASE < KERNEL_STACK_END
    /\ \A c \in DOMAIN Slabs : Slabs[c] \in Nat \ {0}
    /\ \A x \in DOMAIN SlabSize : SlabSize[x] \in DOMAIN Slabs

VARIABLES
    mem,        \* the memory, see Init
    phase,      \* how far SystemKernelInit is
    procs,      \* processes, in the order of process_list
    blocks,     \* blocks the kernel allocated for processes, oldest first
    threads     \* kernel stacks CreateThread made: their pages and frames

vars == <<mem, phase, procs, blocks, threads>>

Unmapped == -1
NullPointer == [page |-> 0, at |-> 0]
TempPage(slot) == KERNEL_STACK_END + slot
Pages == FirstPage .. TempPage(TMPMAP_MAX_PAGES)

Init ==
    /\ \E n \in 0 .. NFrames :
          mem = [free        |-> 1 .. n,
                 page        |-> [v \in Pages |-> Unmapped],
                 heap_bitmap |-> {},
                 tmpmap      |-> {},
                 caches      |-> [c \in DOMAIN Slabs |-> <<>>],
                 ret         |-> 0,
                 ok          |-> TRUE,
                 fatal       |-> FALSE,
                 broken      |-> FALSE]  \* history: a frame in use was freed
    /\ phase = "vmm"
    /\ procs = <<>> /\ blocks = <<>> /\ threads = {}

-----------------------------------------------------------------------------
(* Op(v), and a loop over a sequence; TLC evaluates v, and what the loop   *)
(* has come to, only once.                                                 *)
Strict(Op(_), v) == CHOOSE w \in {Op(x) : x \in {v}} : TRUE

Loop(Op(_, _), v, s) == FoldLeft(LAMBDA acc, x : Strict(LAMBDA a : Op(a, x), acc), v, s)

(* AllocateFrame: 0 when there is none. *)
AllocateFrame(m) ==
    IF m.free = {} THEN [m EXCEPT !.ret = 0]
    ELSE [m EXCEPT !.free = @ \ {Min(m.free)}, !.ret = Min(m.free)]

(* FreeFrame ignores 0, and what lies above highest_addr. *)
FreeFrame(m, f) == IF f \in 1 .. NFrames THEN [m EXCEPT !.free = @ \cup {f}] ELSE m

FreeFrames(m, fs) == [m EXCEPT !.free = @ \cup (fs \cap 1 .. NFrames)]

Fatal(m) == [m EXCEPT !.fatal = TRUE, !.ok = FALSE, !.ret = 0]

Failed(m) == [m EXCEPT !.ok = FALSE]

(* MapSinglePage in the kernel's half, whose page tables are all there:    *)
(* TRUE for STATUS_OK, FALSE for STATUS_RETRY.                             *)
CanMap(m, v) == m.page[v] = Unmapped
MapSinglePage(m, f, v) == IF CanMap(m, v) THEN [m EXCEPT !.page[v] = f] ELSE m

UnmapSinglePage(m, v) == [m EXCEPT !.page[v] = Unmapped]

FindFreePageRange(m, first, stop, n) ==
    LET starts == {v \in first .. stop - n : \A i \in v .. v + n - 1 : CanMap(m, i)}
    IN  IF starts = {} THEN 0 ELSE Min(starts)

-----------------------------------------------------------------------------
HeapPagesLeft(m) == (HEAP_BASE .. HEAP_BREAK - 1) \ m.heap_bitmap

(* NAME_Fault, here and below, is NAME with a slip that the properties at  *)
(* the end must notice.                                                    *)
MapHeapPage_Remaps(m, v) ==
    IF HeapPagesLeft(m) = {} THEN Fatal(m)
    ELSE [m EXCEPT !.heap_bitmap = @ \cup {v}, !.page[v] = m.ret, !.ret = v]

(* GetHeapPageAddress marks the first page whose bit is clear; when        *)
(* somebody else has mapped that page, the mark and the frame are undone.  *)
MapHeapPage(m, v) ==
    IF HeapPagesLeft(m) = {} THEN Fatal(m)
    ELSE IF ~CanMap(m, v) THEN [FreeFrame(m, m.ret) EXCEPT !.ret = 0]
    ELSE [m EXCEPT !.heap_bitmap = @ \cup {v}, !.page[v] = m.ret, !.ret = v]

AllocateVirtualPage(m) ==
    Strict(LAMBDA a : IF a.ret = 0 THEN a ELSE MapHeapPage(a, Min(HeapPagesLeft(a))),
           AllocateFrame(m))

(* The frame it frees is the one the kernel's image would have here, which *)
(* need not be the one the page maps.                                      *)
FreeVirtualPage(m, v) ==
    LET f == v - VIRT_OFFSET
    IN  [FreeFrame(m, f) EXCEPT
            !.page[v] = Unmapped,
            !.heap_bitmap = @ \ {v},
            !.broken = @ \/ (f \in (1 .. NFrames) \ m.free /\ f # m.page[v])]

(* CreateSlab, and its place at the head of the cache. *)
CreateSlab(m, c) ==
    Strict(LAMBDA a : IF a.ret = 0 THEN a
                      ELSE [a EXCEPT !.caches[c] =
                              <<[page |-> a.ret, free_list |-> [i \in 1 .. Slabs[c] |-> i]]>> \o @],
           AllocateVirtualPage(m))

SlabsWithFree(m, c) == {i \in DOMAIN m.caches[c] : m.caches[c][i].free_list # <<>>}

TakeObject_KeepsIt(m, c, s) ==
    [m EXCEPT !.ret = [page |-> m.caches[c][s].page, at |-> Head(m.caches[c][s].free_list)]]

TakeObject(m, c, s) ==
    [m EXCEPT !.ret = [page |-> m.caches[c][s].page, at |-> Head(m.caches[c][s].free_list)],
              !.caches[c][s].free_list = Tail(@)]

(* kmalloc of at most 1024 bytes: the first slab of the cache that has an  *)
(* object, or a new one.                                                   *)
kmalloc(m, c) ==
    Strict(LAMBDA k : IF SlabsWithFree(k, c) = {} THEN [k EXCEPT !.ret = NullPointer]
                      ELSE TakeObject(k, c, Min(SlabsWithFree(k, c))),
           IF SlabsWithFree(m, c) = {} THEN CreateSlab(m, c) ELSE m)

(* kmalloc of 1025 bytes to a page. *)
kmallocPage(m) ==
    Strict(LAMBDA a : [a EXCEPT !.ret = [page |-> a.ret, at |-> 0]], AllocateVirtualPage(m))

(* One page of the loop of HugeAllocation, st.next; st.taken are its frames. *)
HugePage(st, a) ==
    IF a.ret = 0 THEN [st EXCEPT !.failed = TRUE]
    ELSE [m |-> MapSinglePage(a, a.ret, st.next), next |-> st.next + 1,
          taken |-> st.taken \cup {a.ret}, failed |-> FALSE]

HugeStep(st, i) == IF st.failed THEN st ELSE HugePage(st, AllocateFrame(st.m))

(* The metadata and n pages after it, somewhere below the stacks.  When    *)
(* the frames run out they are all freed, but only the metadata is         *)
(* unmapped.                                                               *)
HugeAllocation(m, n) ==
    LET base == FindFreePageRange(m, FirstPage, KERNEL_STACK_BASE, n + 1)
        Done(st) ==
          IF ~st.failed THEN [st.m EXCEPT !.ret = [page |-> base, at |-> 0]]
          ELSE [FreeFrames(UnmapSinglePage(st.m, base), st.taken) EXCEPT !.ret = NullPointer]
    IN  IF base = 0 THEN [m EXCEPT !.ret = NullPointer]
        ELSE Strict(Done, Loop(HugeStep, [m |-> m, next |-> base, taken |-> {}, failed |-> FALSE],
                               [i \in 1 .. n + 1 |-> i]))

(* kfree: back to the slab it came from, or a page. *)
kfree(m, ptr) ==
    IF ptr = NullPointer THEN m
    ELSE IF ptr.at = 0 THEN FreeVirtualPage(m, ptr.page)
    ELSE [m EXCEPT !.caches = [c \in DOMAIN Slabs |->
            [s \in DOMAIN m.caches[c] |->
                IF m.caches[c][s].page # ptr.page THEN m.caches[c][s]
                ELSE [m.caches[c][s] EXCEPT !.free_list = <<ptr.at>> \o @]]]]

-----------------------------------------------------------------------------
(* CreateTempVirtualMap: slots are marked once the page is mapped, so      *)
(* every failure only has the earlier steps to undo.                       *)
TempMapFrame(m, map, slot) ==
    IF m.ret = 0 THEN Failed(kfree(m, map))
    ELSE IF ~CanMap(m, TempPage(slot)) THEN Failed(kfree(FreeFrame(m, m.ret), map))
    ELSE [m EXCEPT !.page[TempPage(slot)] = m.ret, !.tmpmap = @ \cup {slot}, !.ok = TRUE,
                   !.ret = [map |-> map, slot |-> slot, phys |-> m.ret]]

FreeTmpMapSlots(m) == (1 .. TMPMAP_MAX_PAGES) \ m.tmpmap

CreateTempVirtualMap(m) ==
    Strict(LAMBDA k : IF k.ret = NullPointer THEN Failed(k)
                      ELSE IF FreeTmpMapSlots(k) = {} THEN Failed(kfree(k, k.ret))
                      ELSE TempMapFrame(AllocateFrame(k), k.ret, Min(FreeTmpMapSlots(k))),
           kmalloc(m, SlabSize.VirtualMap))

(* The frame stays with the caller. *)
DeleteTempVirtualMap(m, t) ==
    kfree([UnmapSinglePage(m, TempPage(t.slot)) EXCEPT !.tmpmap = @ \ {t.slot}], t.map)

(* The first two pages of the stack area that are both free: 0 when there  *)
(* are none.                                                               *)
GetNextKernelStackAddress(m) ==
    LET starts == {v \in KERNEL_STACK_BASE .. KERNEL_STACK_END - 2 :
                     (v - KERNEL_STACK_BASE) % 2 = 0 /\ CanMap(m, v) /\ CanMap(m, v + 1)}
    IN  IF starts = {} THEN 0 ELSE Min(starts)

-----------------------------------------------------------------------------
(* CreateProcess as its calls in order.  st has the memory, the process so *)
(* far, its temporary mappings, and whether a null pointer was returned.   *)
Keep(st, field, m) ==
    IF m.ret = NullPointer THEN [st EXCEPT !.m = m, !.null = TRUE]
    ELSE [st EXCEPT !.m = m, !.p[field] = m.ret]

StackPage(st, m, v) ==
    [st EXCEPT !.m = MapSinglePage(m, m.ret, v), !.p.kstacks = @ \cup {m.ret}]

(* A temporary mapping, of which a failure is noticed for the page         *)
(* directory only; any other null pointer is written through.              *)
TempMap(st, name, m) ==
    IF m.ok THEN [st EXCEPT !.m = m, !.tmp = @ @@ (name :> m.ret), !.p.space = @ \cup {m.ret.phys}]
    ELSE IF name = "pdmap" THEN [st EXCEPT !.m = kfree(m, st.p.p), !.null = TRUE]
    ELSE [st EXCEPT !.m = Fatal(m)]

Deleted(st, name) == [st EXCEPT !.m = DeleteTempVirtualMap(st.m, st.tmp[name])]

CreateStep(st, step) ==
    IF st.null \/ st.m.fatal THEN st
    ELSE CASE step = "process"   -> Keep(st, "p", kmalloc(st.m, SlabSize.Process))
           [] step = "kstack1"   -> StackPage(st, AllocateFrame(st.m), st.p.stack)
           [] step = "kstack2"   -> StackPage(st, AllocateFrame(st.m), st.p.stack + 1)
           [] step = "thread"    -> Keep(st, "main_thread", kmalloc(st.m, SlabSize.Thread))
           [] step \in {"pdmap", "ptmap", "stackmap", "page"} ->
                 TempMap(st, step, CreateTempVirtualMap(st.m))
           [] step = "no page"   -> [Deleted(st, "page") EXCEPT !.tmp = [n \in DOMAIN @ \ {"page"} |-> @[n]]]
           [] step = "no stackmap" -> Deleted(st, "stackmap")
           [] step = "done"      -> Deleted(Deleted(st, "pdmap"), "ptmap")

CreateSteps(n) ==
    LET filled(k) == [i \in 1 .. 2 * k |-> IF i % 2 = 1 THEN "page" ELSE "no page"]
    IN  <<"process", "kstack1", "kstack2", "thread", "pdmap", "ptmap", "stackmap">>
          \o filled(USER_STACK_SIZE_PAGES) \o <<"no stackmap">> \o filled(n) \o <<"done">>

(* CreateProcess of an image of n pages. *)
CreateProcess(m, n) ==
    LET stack == GetNextKernelStackAddress(m)
        p == [p |-> NullPointer, main_thread |-> NullPointer, stack |-> stack,
              kstacks |-> {}, space |-> {}]
    IN  IF n # 0 /\ stack = 0 THEN [m |-> Fatal(m), null |-> TRUE, p |-> p]
        ELSE Loop(CreateStep, [m |-> m, p |-> p, tmp |-> <<>>, null |-> n = 0], CreateSteps(n))

-----------------------------------------------------------------------------
(* A call that ended in FatalError leaves the machine stalled. *)
Commit(m) ==
    mem' = IF m.fatal THEN [mem EXCEPT !.fatal = TRUE] ELSE [m EXCEPT !.ret = 0, !.ok = TRUE]

(* InitVirtualMemoryManager: all page tables of the kernel's half. *)
InitVirtualMemoryManager ==
    /\ phase = "vmm"
    /\ phase' = "idle"
    /\ Commit(IF Cardinality(mem.free) < NPageTables THEN Fatal(mem)
              ELSE [mem EXCEPT !.free = {f \in @ : f > NPageTables}])
    /\ UNCHANGED <<procs, blocks, threads>>

(* AllocateThread for the idle thread; both blocks are used unchecked. *)
AllocateThread ==
    /\ phase = "idle"
    /\ phase' = "servers"
    /\ LET OrFatal(m) == IF m.ret = NullPointer THEN Fatal(m) ELSE m
           Stack(t) == OrFatal(kmalloc(t, SlabSize.Stack))
       IN  Commit(Strict(Stack, OrFatal(kmalloc(mem, SlabSize.Thread))))
    /\ UNCHANGED <<procs, blocks, threads>>

(* SystemKernelInit makes a process of every boot module; a null pointer   *)
(* would be used by SetProcessCapabilities.                                *)
LoadServers ==
    /\ phase = "servers"
    /\ IF Len(procs) = Len(ModuleSizes)
       THEN phase' = "run" /\ UNCHANGED <<mem, procs>>
       ELSE /\ \E st \in {CreateProcess(mem, ModuleSizes[Len(procs) + 1])} :
                  /\ Commit(IF st.null THEN Fatal(st.m) ELSE st.m)
                  /\ procs' = IF st.null \/ st.m.fatal THEN procs ELSE Append(procs, st.p)
            /\ UNCHANGED phase
    /\ UNCHANGED <<blocks, threads>>

(* A system call of p allocates: an object, a port name and the like from  *)
(* a slab, a section as a page, a port as a huge allocation.               *)
AllocateFor(m, kind) ==
    CASE kind = "slab" -> kmalloc(m, SlabSize.Object)
      [] kind = "page" -> kmallocPage(m)
      [] kind = "huge" -> HugeAllocation(m, HugePages)

Kmalloc(p, kind) ==
    /\ Len(blocks) < MaxBlocks
    /\ \E m \in {AllocateFor(mem, kind)} :
          /\ Commit(m)
          /\ blocks' = IF m.fatal \/ m.ret = NullPointer THEN blocks
                       ELSE Append(blocks, [owner |-> p, ptr |-> m.ret, kind |-> kind])
    /\ UNCHANGED <<phase, procs, threads>>

(* A handle of p is deleted, and what it led to is freed. *)
Kfree(i) ==
    /\ Commit(kfree(mem, blocks[i].ptr))
    /\ blocks' = RemoveAt(blocks, i)
    /\ UNCHANGED <<phase, procs, threads>>

WithThread_KeepsPages(m, s, frames) ==
    IF m.ret = NullPointer THEN Failed(FreeFrames(m, frames))
    ELSE [m EXCEPT !.ok = TRUE, !.ret = [stack |-> s, frames |-> frames]]

WithThread(m, s, frames) ==
    IF m.ret = NullPointer
    THEN Failed(UnmapSinglePage(UnmapSinglePage(FreeFrames(m, frames), s), s + 1))
    ELSE [m EXCEPT !.ok = TRUE, !.ret = [stack |-> s, frames |-> frames]]

(* CreateThread: two frames, then their place; without a place they are    *)
(* not given back.                                                         *)
WithStackFrames(m, s, f1, f2) ==
    IF s = 0 THEN Failed(m)
    ELSE IF f1 = 0 \/ f2 = 0 THEN Failed(FreeFrames(m, {f1, f2}))
    ELSE WithThread(kmalloc(MapSinglePage(MapSinglePage(m, f2, s + 1), f1, s), SlabSize.Thread),
                    s, {f1, f2})

CreateThread(m) ==
    LET Second(a) == Strict(LAMBDA b : WithStackFrames(b, GetNextKernelStackAddress(b), a.ret, b.ret),
                            AllocateFrame(a))
    IN  Strict(Second, AllocateFrame(m))

(* THREAD_CREATE *)
ThreadCreate(p) ==
    /\ Cardinality(threads) < MaxThreads
    /\ \E m \in {CreateThread(mem)} :
          /\ Commit(m)
          /\ threads' = IF m.ok /\ ~m.fatal THEN threads \cup {m.ret} ELSE threads
    /\ UNCHANGED <<phase, procs, blocks>>

(* DeleteProcess: its blocks with its handles, then everything mapped in   *)
(* its half, through two temporary slots, its stack's frames and its page  *)
(* directory.  The pages of the stack stay mapped, and the threads keep    *)
(* their memory.                                                           *)
DeleteProcess(i) ==
    LET p == procs[i]
        mine == SelectSeq(blocks, LAMBDA b : b.owner = p.p)
        handles == Loop(LAMBDA m, b : kfree(m, b.ptr), mem, mine)
    IN  /\ Commit(IF Cardinality(FreeTmpMapSlots(mem)) < 2 THEN Fatal(mem)
                  ELSE kfree(FreeFrames(handles, p.space \cup p.kstacks), p.p))
        /\ procs' = RemoveAt(procs, i)
        /\ blocks' = SelectSeq(blocks, LAMBDA b : b.owner # p.p)
        /\ UNCHANGED <<phase, threads>>

Run ==
    \/ \E i \in DOMAIN procs :
          \/ \E kind \in {"slab", "page", "huge"} : Kmalloc(procs[i].p, kind)
          \/ ThreadCreate(procs[i])
          \/ DeleteProcess(i)
    \/ \E i \in DOMAIN blocks : Kfree(i)

(* What happens after FatalError, or with a frame that two hold, is not    *)
(* followed any further.                                                   *)
Next ==
    /\ ~mem.fatal /\ ~mem.broken
    /\ \/ InitVirtualMemoryManager
       \/ AllocateThread
       \/ LoadServers
       \/ phase = "run" /\ Run

Spec == Init /\ [][Next]_vars

-----------------------------------------------------------------------------
(* The objects of the slabs that somebody has: those of processes and      *)
(* threads, and the blocks.                                                *)
Given ==
    {procs[i].p : i \in DOMAIN procs} \cup {blocks[i].ptr : i \in DOMAIN blocks}

(* The pages of a block: a huge allocation has its metadata in front. *)
BlockPages(b) ==
    IF b.kind = "huge" THEN b.ptr.page .. b.ptr.page + HugePages ELSE {b.ptr.page}

(* The stacks of processes and threads that are there. *)
Stacks ==
    {[stack |-> procs[i].stack, frames |-> procs[i].kstacks] : i \in DOMAIN procs} \cup threads

StackPages == UNION {{s.stack, s.stack + 1} : s \in Stacks}

SlabPages == UNION {{mem.caches[c][k].page : k \in DOMAIN mem.caches[c]} : c \in DOMAIN Slabs}

BlocksOfPages == {b \in ToSet(blocks) : b.kind # "slab"}

(* Nothing the kernel uses is used twice, and none of it is free: the      *)
(* pages of slabs, blocks and stacks are different pages on different      *)
(* frames, no process shares a frame with them or with another process,    *)
(* and no temporary mapping outlives the call that made it.  The stacks a  *)
(* deleted process leaves mapped and the pages of a huge allocation that   *)
(* failed are never taken for free ones.  This holds as long as            *)
(* FreeVirtualPage has not freed a frame that somebody else has            *)
(* (mem.broken): its comment says "This only works if the offset remains   *)
(* constant across mappings".                                              *)
MemoryIsPrivate ==
    ~mem.broken /\ ~mem.fatal =>
        LET inUse == SlabPages \cup StackPages \cup UNION {BlockPages(b) : b \in BlocksOfPages}
            onFrames == {mem.page[v] : v \in inUse}
        IN  /\ Cardinality(onFrames) = Cardinality(inUse)
            /\ Cardinality(inUse) = Cardinality(SlabPages) + 2 * Cardinality(Stacks)
                                      + MapThenSumSet(LAMBDA b : Cardinality(BlockPages(b)), BlocksOfPages)
            /\ onFrames \cap ({Unmapped, 0} \cup mem.free) = {}
            /\ \A i \in DOMAIN procs :
                  /\ procs[i].space \cap (onFrames \cup mem.free) = {}
                  /\ \A j \in DOMAIN procs : i # j => procs[i].space \cap procs[j].space = {}
            /\ mem.tmpmap = {}
            /\ \A slot \in 1 .. TMPMAP_MAX_PAGES : mem.page[TempPage(slot)] = Unmapped

(* kmalloc gives an object to one caller at a time: the free list of a     *)
(* slab has each of its objects once, and none of those given out, in      *)
(* whatever order they come back.                                          *)
ObjectsGivenOnce ==
    /\ \A c \in DOMAIN Slabs : \A k \in DOMAIN mem.caches[c] :
          LET slab == mem.caches[c][k]
              free == ToSet(slab.free_list)
          IN  /\ Cardinality(free) = Len(slab.free_list) /\ free \subseteq 1 .. Slabs[c]
              /\ \A i \in free : [page |-> slab.page, at |-> i] \notin Given
    /\ Cardinality(Given) = Len(procs) + Len(blocks)

(* A kmalloc or a CreateThread that returns a null pointer gives back all  *)
(* it took: frames, pages, the bits of the heap, objects.  Two failures    *)
(* are excepted, because the code does leave something behind: a           *)
(* HugeAllocation that runs out of frames, its pages, and a CreateThread   *)
(* that finds no place for the stack, two frames.                          *)
FailureGivesBack ==
    [][ phase = "run" /\ blocks' = blocks /\ threads' = threads /\ procs' = procs /\ ~mem'.fatal =>
          /\ mem'.heap_bitmap = mem.heap_bitmap /\ mem'.caches = mem.caches
          /\ \A v \in Pages : mem'.page[v] # mem.page[v] =>
                v < KERNEL_STACK_BASE /\ Cardinality(mem.free) <= HugePages
          /\ mem'.free = mem.free \/ GetNextKernelStackAddress(mem) = 0 ]_vars
=============================================================================
