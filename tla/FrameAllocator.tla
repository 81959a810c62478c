--------------------------- MODULE FrameAllocator ---------------------------
(***************************************************************************)
(* Physical memory: the bitmap of sys/mem/frame.c, from the usable frames  *)
(* at boot on.  Holders are the callers; they return frames they were      *)
(* given, and may also return one twice or return 0.                       *)
(***************************************************************************)
EXTENDS Integers, FiniteSets

CONSTANTS
    NFrames,            \* frames of the machine, numbered from 0
    FirstHighFrame      \* the first frame above 1 MiB

ASSUME FrameAllocatorAssumption ==
    /\ NFrames \in Nat /\ FirstHighFrame \in Nat
    /\ 2 <= FirstHighFrame /\ FirstHighFrame <= NFrames

VARIABLES
    usable,     \* history: the frames InitFrameManager marked available
    bitmap,     \* the frames whose bit is clear
    held        \* the frames given out and not returned

vars == <<usable, bitmap, held>>

Frames == 0 .. NFrames - 1

(* InitFrameManager: MarkFrameAvailable skips the first two frames. *)
Init ==
    /\ usable \in SUBSET (Frames \ {0, 1})
    /\ bitmap = usable
    /\ held = {}

Low == 0 .. FirstHighFrame - 1
High == FirstHighFrame .. NFrames - 1

(* The lowest frame of a range whose bit is clear. *)
IsFirst(f, range) == f \in range \cap bitmap /\ \A g \in range \cap bitmap : f <= g

(* There is no step when none is clear: the call returns 0, whose bit is   *)
(* always set.                                                             *)
Allocate(range) ==
    /\ \E f \in Frames : /\ IsFirst(f, range)
                         /\ bitmap' = bitmap \ {f}
                         /\ held' = held \cup {f}
    /\ UNCHANGED usable

AllocateFrame == Allocate(High)

AllocateLowMemory == Allocate(Low)

(* NAME_Fault, here and below, is NAME with a slip that the properties at  *)
(* the end must notice.                                                    *)
Marked_Any(f) == bitmap \cup {f}

(* MarkFrameAvailable once more skips the first two frames; no frame that  *)
(* was given out is above highest_addr.                                    *)
Marked(f) == IF f < 2 THEN bitmap ELSE bitmap \cup {f}

(* FreeFrame of a frame that was given out, of a frame that is free, and   *)
(* of the 0 that stands for no frame.                                      *)
FreeFrame(f) ==
    /\ f \in held \cup bitmap \cup {0}
    /\ bitmap' = IF f \in bitmap THEN bitmap ELSE Marked(f)
    /\ held' = held \ {f}
    /\ UNCHANGED usable

Next ==
    \/ AllocateFrame
    \/ AllocateLowMemory
    \/ \E f \in Frames : FreeFrame(f)

Spec == Init /\ [][Next]_vars

-----------------------------------------------------------------------------
(* A frame is never given to two callers, no usable frame is ever lost,    *)
(* and none is made up: MarkFrameReserved sets the bit of what an          *)
(* allocation returns, IsFrameAllocated stops a second FreeFrame, and the  *)
(* frames below 0x2000 stay out of the bitmap.                             *)
FramesConserved ==
    /\ bitmap \cup held = usable
    /\ bitmap \cap held = {}
    /\ usable \cap {0, 1} = {}
=============================================================================
