----------------------------- MODULE MCOutputs -----------------------------
(***************************************************************************)
(* What is printed, from the numbers up: 64-bit arithmetic, formatted      *)
(* text, the drivers that draw text, and the kernel's devices with its log *)
(* and last words.  The four share no state: each moves only while the     *)
(* others are in a first state, so that one run explores all of them and   *)
(* not their product.                                                      *)
(***************************************************************************)
EXTENDS Devices, TextScreens, Formatting

(* The order in which a linker may have put the descriptors. *)
Descriptors == <<"vbe86", "serial86", "vgatext">>

DevicesIdle == DevicesInit /\ ~textmode /\ ~debug
ScreensIdle == ScreenInit /\ driver = "vgatext"
FormatIdle == FormatInit /\ library = "libc" /\ maxsize = 0

Init ==
    /\ DevicesInit /\ ScreenInit /\ FormatInit /\ ArithInit
    /\ \/ ScreensIdle /\ FormatIdle
       \/ DevicesIdle /\ FormatIdle
       \/ DevicesIdle /\ ScreensIdle

Next ==
    \/ /\ ScreensIdle /\ FormatIdle /\ ArithInit
       /\ DevicesNext
       /\ UNCHANGED <<screenVars, formatVars, arithVars>>
    \/ /\ DevicesIdle /\ FormatIdle /\ ArithInit
       /\ ScreenNext
       /\ UNCHANGED <<deviceVars, formatVars, arithVars>>
    \/ /\ DevicesIdle /\ ScreensIdle /\ ArithInit
       /\ FormatNext
       /\ UNCHANGED <<deviceVars, screenVars, arithVars>>
    \/ /\ DevicesIdle /\ ScreensIdle /\ FormatIdle
       /\ Operands
       /\ UNCHANGED <<deviceVars, screenVars, formatVars>>

vars == <<deviceVars, screenVars, formatVars, arithVars>>

Spec == Init /\ [][Next]_vars /\ WF_vars(Panic /\ UNCHANGED <<screenVars, formatVars, arithVars>>)
============================================================================
