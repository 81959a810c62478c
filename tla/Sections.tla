------------------------------ MODULE Sections ------------------------------
(***************************************************************************)
(* Sections: memory that a process asks for, maps and shares.              *)
(*                                                                         *)
(* Frames come from the frame allocator; a section remembers its frames    *)
(* and counts its mappings (sys/iomgr/section.c); page tables hold them    *)
(* (sys/ddk/ia32/vmm.c); handles lead to the section, and the last one     *)
(* deletes it (sys/syscall/object.c); and DeleteProcess frees every frame  *)
(* it finds in the page tables of the process (sys/task/process.c).        *)
(*                                                                         *)
(* Frames of the image, of the stacks and of the page directory of a       *)
(* process are not among Frames.  Processes are created at boot only, so   *)
(* that the id of the main thread of a process is its pid, and no other    *)
(* thread has the pid of a process for an id.                              *)
(***************************************************************************)
EXTENDS Integers, Sequences, FiniteSets

LOCAL INSTANCE SequencesExt
LOCAL INSTANCE FiniteSetsExt

CONSTANTS
    Processes,
    SectionCells,           \* memory for sections
    NFrames,                \* physical memory
    NPages,                 \* user pages of an address space
    PagesPerTable,
    MaxSectionPages,        \* bound on the size of a section
    NullPointer

ASSUME SectionsAssumption ==
    /\ {NFrames, NPages, PagesPerTable, MaxSectionPages} \subseteq Nat \ {0}
    /\ NullPointer \notin Processes

VARIABLES
    free,       \* frames the frame allocator has
    kernel,     \* frames the rest of the kernel has, from the start on
    alive,
    space,      \* the page tables' entries of each process: 0 when not present
    tables,     \* the page directory's entries of each process
    section,    \* the contents of each cell, NullPointer when free
    handles,    \* the section objects each process has a handle to
    faulted,    \* the kernel touched a page that is not mapped
    shared      \* history: a section was mapped a second time, or by another
                \* process than the one that made it

vars == <<free, kernel, alive, space, tables, section, handles, faulted, shared>>

Frames == 1 .. NFrames
Pages == 1 .. NPages
Table(v) == (v - 1) \div PagesPerTable
Tables == {Table(v) : v \in Pages}

(* The frames a process has mapped. *)
Mapped(p) == {space[p][v] : v \in Pages} \ {0}

Init ==
    /\ \E n \in 0 .. NFrames : free = 1 .. n /\ kernel = Frames \ free
    /\ alive = Processes
    /\ space = [p \in Processes |-> [v \in Pages |-> 0]]
    /\ tables = [p \in Processes |-> [t \in Tables |-> 0]]
    /\ section = [s \in SectionCells |-> NullPointer]
    /\ handles = [p \in Processes |-> {}]
    /\ faulted = FALSE /\ shared = FALSE

-----------------------------------------------------------------------------
(* The memory as one process sees it and the kernel changes it. *)
Memory(p) == [free |-> free, space |-> space[p], tables |-> tables[p], section |-> section,
              faulted |-> faulted]

Commit(p, m) ==
    /\ free' = m.free
    /\ space' = [space EXCEPT ![p] = m.space]
    /\ tables' = [tables EXCEPT ![p] = m.tables]
    /\ section' = m.section
    /\ faulted' = m.faulted

(* AllocateFrame: 0 when there is none. *)
FirstFree(m) == IF m.free = {} THEN 0 ELSE Min(m.free)

(* FreeFrame ignores 0, and a frame that is free. *)
FreeFrames(m, fs) == [m EXCEPT !.free = @ \cup (fs \ {0})]

(* FindFreePageRange: 0 when there is none. *)
FindFreePageRange(m, n) ==
    LET starts == {v \in Pages : v + n - 1 \in Pages /\ \A i \in v .. v + n - 1 : m.space[i] = 0}
    IN  IF starts = {} THEN 0 ELSE Min(starts)

(* MapSinglePage: the page table may have to be allocated first. *)
CanMapSinglePage(m, v) == m.tables[Table(v)] # 0 \/ m.free # {}

MapSinglePage(m, f, v) ==
    LET t == FirstFree(m)
        withTable == IF m.tables[Table(v)] # 0 THEN m
                     ELSE [m EXCEPT !.free = @ \ {t}, !.tables[Table(v)] = t]
    IN  [withTable EXCEPT !.space[v] = f]

AllocateSection(p, n) ==
    [address_space |-> p, refcnt |-> 0, vmbase |-> 0, physframes |-> [i \in 1 .. n |-> 0]]

-----------------------------------------------------------------------------
(* SECTION_REQUEST, on a new section object *)
SectionRequest(p) ==
    /\ \E s \in SectionCells, n \in 1 .. MaxSectionPages :
           /\ section[s] = NullPointer
           /\ section' = [section EXCEPT ![s] = AllocateSection(p, n)]
           /\ handles' = [handles EXCEPT ![p] = @ \cup {s}]
    /\ UNCHANGED <<free, kernel, alive, space, tables, faulted, shared>>

(* One turn of the loop of MapSection; allocated and mapped are its        *)
(* frames_allocated and pages_mapped.                                      *)
MapNext(s, start, st, i) ==
    LET had == st.m.section[s].physframes[i]
        f == IF had # 0 THEN had ELSE FirstFree(st.m)
        m == [st.m EXCEPT !.free = @ \ {f}, !.section[s].physframes[i] = f]
        counted == [st EXCEPT !.m = m, !.allocated = IF had = 0 THEN @ + 1 ELSE @]
    IN  IF f = 0 \/ st.failed THEN [st EXCEPT !.failed = TRUE]
        ELSE IF ~CanMapSinglePage(m, start + i - 1) THEN [counted EXCEPT !.failed = TRUE]
        ELSE [counted EXCEPT !.m = MapSinglePage(m, f, start + i - 1), !.mapped = @ + 1]

(* NAME_Fault, here and below, is NAME with a slip that the properties at  *)
(* the end must notice.                                                    *)
MapFailed_KeepsFrames(s, start, st) ==
    LET scn == st.m.section[s]
    IN  IF scn.refcnt > 1 THEN [st.m EXCEPT !.section[s].refcnt = @ - 1]
        ELSE [st.m EXCEPT
                !.space = [v \in Pages |-> IF v \in start .. start + st.mapped - 1 THEN 0 ELSE @[v]],
                !.section[s].physframes = [i \in DOMAIN @ |-> 0]]

(* What MapSection does when it fails: one mapping less is counted, or the *)
(* frames it allocated are freed, its pages unmapped and all of the        *)
(* frames forgotten.                                                       *)
MapFailed(s, start, st) ==
    LET scn == st.m.section[s]
        freed == FreeFrames(st.m, {scn.physframes[i] : i \in 1 .. st.allocated})
    IN  IF scn.refcnt > 1 THEN [st.m EXCEPT !.section[s].refcnt = @ - 1]
        ELSE [freed EXCEPT
                !.space = [v \in Pages |-> IF v \in start .. start + st.mapped - 1 THEN 0 ELSE @[v]],
                !.section[s].physframes = [i \in DOMAIN @ |-> 0]]

(* SECTION_MAP *)
MapSection(p, s) ==
    LET n == Len(section[s].physframes)
        start == FindFreePageRange(Memory(p), n)
        Step(st, i) == MapNext(s, start, st, i)
        st == FoldLeft(Step, [m |-> Memory(p), allocated |-> 0, mapped |-> 0, failed |-> FALSE],
                       [i \in 1 .. n |-> i])
    IN  /\ start # 0
        /\ shared' = (shared \/ section[s].refcnt > 0 \/ section[s].address_space # p)
        /\ Commit(p, IF st.failed THEN MapFailed(s, start, st)
                     ELSE [st.m EXCEPT !.section[s].refcnt = @ + 1, !.section[s].vmbase = start])
        /\ UNCHANGED <<kernel, alive, handles>>

(* UnmapSection, in the address space of the running process *)
UnmapSection(m, s) ==
    LET scn == m.section[s]
        range == scn.vmbase .. scn.vmbase + Len(scn.physframes) - 1
    IN  IF \E v \in range : v = 0 \/ m.space[v] = 0 THEN [m EXCEPT !.faulted = TRUE]
        ELSE [FreeFrames(m, {scn.physframes[i] : i \in DOMAIN scn.physframes})
                EXCEPT !.space = [v \in Pages |-> IF v \in range THEN 0 ELSE @[v]]]

(* Only the main thread of the process that made the section gets past the *)
(* first test of DeleteSection.                                            *)
DeleteSection(m, s, p, main) ==
    LET scn == m.section[s]
    IN  IF scn.address_space # p \/ ~main THEN m
        ELSE IF scn.refcnt > 1 THEN [m EXCEPT !.section[s].refcnt = @ - 1]
        ELSE [UnmapSection(m, s) EXCEPT !.section[s] = NullPointer]

DeleteObject_Always(m, s, p, main) == DeleteSection(m, s, p, main)

(* DeleteObject: the last handle deletes the section. *)
DeleteObject(m, s, p, main) ==
    IF \E q \in Processes \ {p} : s \in handles[q] THEN m ELSE DeleteSection(m, s, p, main)

DeleteHandle(p, s) ==
    /\ s \in handles[p]
    /\ handles' = [handles EXCEPT ![p] = @ \ {s}]
    /\ \E main \in BOOLEAN : Commit(p, DeleteObject(Memory(p), s, p, main))
    /\ UNCHANGED <<kernel, alive, shared>>

(* _DWTranslateHandle: q takes a handle of p. *)
TranslateHandle(p, q, s) ==
    /\ p \in alive /\ s \in handles[p]
    /\ handles' = [handles EXCEPT ![q] = @ \cup {s}]
    /\ UNCHANGED <<free, kernel, alive, space, tables, section, faulted, shared>>

(* DeleteProcess, run by a thread of the process *)
DeleteProcess(p) ==
    \E main \in BOOLEAN :
        LET Step(s, m) == DeleteObject(m, s, p, main)
            m == FoldSet(Step, Memory(p), handles[p])
            present == {m.space[v] : v \in Pages} \cup {m.tables[t] : t \in Tables}
        IN  /\ Commit(p, [FreeFrames(m, present) EXCEPT !.space = [v \in Pages |-> 0],
                                                        !.tables = [t \in Tables |-> 0]])
            /\ handles' = [handles EXCEPT ![p] = {}]
            /\ alive' = alive \ {p}
            /\ UNCHANGED <<kernel, shared>>

Next ==
    /\ ~faulted
    /\ \/ \E p \in alive : SectionRequest(p)
       \/ \E p \in alive, s \in SectionCells : s \in handles[p] /\ MapSection(p, s)
       \/ \E p \in alive, s \in SectionCells : DeleteHandle(p, s)
       \/ \E p, q \in alive, s \in SectionCells : TranslateHandle(p, q, s)
       \/ \E p \in alive : DeleteProcess(p)

Spec == Init /\ [][Next]_vars

-----------------------------------------------------------------------------
Holding(p) == ({tables[p][t] : t \in Tables} \ {0}) \cup Mapped(p)

(* DeleteObject counts the handles before it deletes the section: whoever  *)
(* has a handle, in whatever process, can still map the section.           *)
HandlesLeadToSections ==
    \A p \in alive : \A s \in handles[p] : section[s] # NullPointer

(* Every frame has one holder: it is free, the kernel's, or mapped by one  *)
(* process, as a page or as a page table.  No frame is given out while a   *)
(* process has it mapped, and what MapSection takes is given back when it  *)
(* fails halfway, by DeleteSection ("also freeing any data it may          *)
(* contain", section.h) and by DeleteProcess.  This holds until a section  *)
(* is mapped a second time or by another process than the one that made    *)
(* it: vmbase is then that of the last mapping, and DeleteProcess frees    *)
(* whatever it finds mapped.                                               *)
FramesAreHeld ==
    ~shared =>
        /\ Frames = free \cup kernel \cup UNION {Holding(p) : p \in alive}
        /\ kernel \cap free = {}
        /\ \A p \in alive :
              /\ Holding(p) \cap (free \cup kernel) = {}
              /\ {tables[p][t] : t \in Tables} \cap Mapped(p) = {}
              /\ \A q \in alive \ {p} : Holding(p) \cap Holding(q) = {}
=============================================================================
