SPECIFICATION Spec
CONSTANTS
    Processes = {p1, p2}
    SectionCells = {s1, s2}
    NFrames = 4
    NPages = 2
    PagesPerTable = 2
    MaxSectionPages = 2
    NullPointer = NullPointer
\* The kernel may stop, and every process may exit.
CHECK_DEADLOCK FALSE
INVARIANTS
    HandlesLeadToSections
    FramesAreHeld
