---------------------------- MODULE TextScreens ----------------------------
(***************************************************************************)
(* The four drivers that put text on the screen, one character at a time:  *)
(* the console server base/vgacons and the kernel's sys/drivers/vgatext on *)
(* VGA text memory, the console server base/fbsrv and the kernel's         *)
(* sys/drivers/vbe86 on a framebuffer.  A glyph is one cell: the pixels of *)
(* a cell are drawn together, and a pitch of exactly the visible pixels is *)
(* assumed.  What should be on the screen is stated from the text alone.   *)
(***************************************************************************)
EXTENDS Integers, Sequences

LOCAL INSTANCE SequencesExt

CONSTANTS
    WIDTH,          \* columns
    HEIGHT,         \* rows
    PADDING,        \* columns that three of the drivers leave unused
    TAB,            \* columns of a tab stop
    MaxText         \* bound on the characters printed

ASSUME TextScreensAssumption ==
    /\ PADDING \in Nat /\ WIDTH \in Nat /\ WIDTH > PADDING + 1
    /\ HEIGHT \in Nat \ {0, 1} /\ TAB \in Nat \ {0} /\ MaxText \in Nat

VARIABLES
    driver,     \* who draws
    screen,     \* the cells by row and column, and the cursor
    text,       \* history: what has been printed since the screen was cleared
    clipped     \* history: a character was printed outside the screen

screenVars == <<driver, screen, text, clipped>>

Newline == "newline"
Backspace == "backspace"
Tab == "tab"
Blank == " "

Framebuffers == {"vbe86", "fbsrv"}
Drivers == {"vgacons", "vgatext"} \cup Framebuffers

(* vgacons has no tabs, and the kernel prints no backspaces. *)
Characters(d) ==
    {"a", "b", Newline} \cup (IF d \in {"vgacons", "fbsrv"} THEN {Backspace} ELSE {})
                        \cup (IF d = "vgacons" THEN {} ELSE {Tab})

LastRow == HEIGHT - 1
Columns == 0 .. WIDTH - 1
BlankRow == [x \in Columns |-> Blank]

OnScreen(x, y) == x < WIDTH /\ y < HEIGHT

(* VGAClearAllText, ResetFramebufferConsole *)
Cleared == [x |-> 0, y |-> 0, cells |-> [y \in 0 .. LastRow |-> BlankRow]]

(* VGAPrintCharAt; RenderGlyph skips pixels outside the framebuffer *)
PrintCharAt(s, x, y, c) ==
    IF OnScreen(x, y) THEN [s EXCEPT !.cells[y][x] = c] ELSE s

MoveTo(s, x, y) == [s EXCEPT !.x = x, !.y = y]

(* NAME_Fault, here and below, is NAME with a slip that the properties at  *)
(* the end must notice.                                                    *)
Scroll_KeepsLastRow(s) ==
    [x |-> 0, y |-> LastRow,
     cells |-> [y \in 0 .. LastRow |-> s.cells[IF y < LastRow THEN y + 1 ELSE y]]]

(* VGAScrollBuffer, VGAScroll, ScrollFramebuffer *)
Scroll(s) ==
    [x |-> 0, y |-> LastRow,
     cells |-> [y \in 0 .. LastRow |-> IF y < LastRow THEN s.cells[y + 1] ELSE BlankRow]]

-----------------------------------------------------------------------------
(* One step back, also onto the row above, and a blank there. *)
Back(s) ==
    LET b == CASE s.x > 0 -> MoveTo(s, s.x - 1, s.y)
               [] s.x = 0 /\ s.y > 0 -> MoveTo(s, WIDTH - 1, s.y - 1)
               [] OTHER -> s
    IN  PrintCharAt(b, b.x, b.y, Blank)

ScrollBelow(s, last) == IF s.y > last THEN Scroll(s) ELSE s

(* base/vgacons: wraps after the last column, scrolls in one place. *)
VGAPrintCharacter(s, c) ==
    LET drawn == PrintCharAt(s, s.x, s.y, c)
    IN  ScrollBelow(CASE c = Newline   -> MoveTo(s, 0, s.y + 1)
                      [] c = Backspace -> Back(s)
                      [] OTHER -> IF s.x = WIDTH - 1 THEN MoveTo(drawn, 0, s.y + 1)
                                  ELSE MoveTo(drawn, s.x + 1, s.y),
                    LastRow)

(* sys/drivers/vgatext: wraps before a character that has no place, steps  *)
(* to the right before it draws, and scrolls for a tab past the edge.      *)
KernelVGAPrintCharacter(s, c) ==
    LET wrapped == IF s.x >= WIDTH - PADDING THEN ScrollBelow(MoveTo(s, 0, s.y + 1), LastRow) ELSE s
    IN  CASE c = Newline -> ScrollBelow(MoveTo(s, 0, s.y + 1), LastRow)
          [] c = Tab     -> IF s.x + TAB >= WIDTH THEN Scroll(s) ELSE MoveTo(s, s.x + TAB, s.y)
          [] OTHER       -> MoveTo(PrintCharAt(wrapped, wrapped.x + 1, wrapped.y, c),
                                   wrapped.x + 1, wrapped.y)

NextTabStop(x) == x + TAB - (x % TAB)

(* sys/drivers/vbe86: a newline that reaches the last row scrolls, a wrap  *)
(* does not scroll at all.                                                 *)
WriteSingleCharacter(s, c) ==
    LET drawn == PrintCharAt(s, s.x, s.y, c)
    IN  CASE c = Newline -> ScrollBelow(MoveTo(s, 0, s.y + 1), LastRow - 1)
          [] c = Tab     -> MoveTo(s, NextTabStop(s.x), s.y)
          [] OTHER       -> IF s.x + 1 >= WIDTH - PADDING THEN MoveTo(drawn, 0, s.y + 1)
                            ELSE MoveTo(drawn, s.x + 1, s.y)

(* base/fbsrv *)
WriteCharacterToConsole(s, c) ==
    IF c = Backspace THEN Back(s) ELSE WriteSingleCharacter(s, c)

Printed(d, s, c) ==
    CASE d = "vgacons" -> VGAPrintCharacter(s, c)
      [] d = "vgatext" -> KernelVGAPrintCharacter(s, c)
      [] d = "vbe86"   -> WriteSingleCharacter(s, c)
      [] d = "fbsrv"   -> WriteCharacterToConsole(s, c)

-----------------------------------------------------------------------------
ScreenInit ==
    /\ driver \in Drivers
    /\ screen = Cleared
    /\ text = << >>
    /\ clipped = FALSE

Draw(c) ==
    /\ Len(text) < MaxText
    /\ screen' = Printed(driver, screen, c)
    /\ text' = Append(text, c)
    /\ clipped' = (clipped \/ (c \in {"a", "b"} /\ ~OnScreen(screen.x, screen.y)))
    /\ UNCHANGED driver

Clear ==
    /\ screen' = Cleared
    /\ text' = << >>
    /\ clipped' = FALSE
    /\ UNCHANGED driver

ScreenNext == Clear \/ \E c \in Characters(driver) : Draw(c)

ScreenSpec == ScreenInit /\ [][ScreenNext]_screenVars

-----------------------------------------------------------------------------
(* The rows of a text, the one being written last.  plain is FALSE once a  *)
(* backspace found nothing to erase on its row, or a tab of vgatext left   *)
(* the row; long is TRUE once a row was filled.                            *)
RowLength == IF driver = "vgacons" THEN WIDTH ELSE WIDTH - PADDING

Blanks(n) == [i \in 1 .. n |-> Blank]

Typed(t, c) ==
    LET row  == Last(t.rows)
        full == Len(row) + 1 >= RowLength
        Rewrite(new) == [t EXCEPT !.rows = Front(@) \o new]
    IN  CASE c = Newline -> [t EXCEPT !.rows = Append(@, << >>)]
          [] c = Backspace /\ row = << >> -> [t EXCEPT !.plain = FALSE]
          [] c = Backspace /\ row # << >> -> Rewrite(<<Front(row)>>)
          [] c = Tab /\ driver = "vgatext" ->
                [Rewrite(<<row \o Blanks(TAB)>>) EXCEPT !.plain = @ /\ Len(row) + TAB < WIDTH]
          [] c = Tab /\ driver # "vgatext" ->
                [Rewrite(<<row \o Blanks(NextTabStop(Len(row)) - Len(row))>>) EXCEPT !.long = TRUE]
          [] OTHER -> IF driver = "vgatext"
                      THEN IF Len(row) >= RowLength THEN [t EXCEPT !.rows = Append(@, <<c>>)]
                           ELSE Rewrite(<<Append(row, c)>>)
                      ELSE IF full THEN [Rewrite(<<Append(row, c), << >>>>) EXCEPT !.long = TRUE]
                           ELSE Rewrite(<<Append(row, c)>>)

Layout == FoldLeft(Typed, [rows |-> << << >> >>, plain |-> TRUE, long |-> FALSE], text)

(* A row of the text on the screen: vgatext leaves the first column free. *)
Rendered(row) ==
    LET margin == IF driver = "vgatext" THEN 1 ELSE 0
    IN  [x \in Columns |-> IF x - margin \in 0 .. Len(row) - 1 THEN row[x - margin + 1] ELSE Blank]

NotBlank(row) == row # BlankRow

(* What is on the screen is the end of the text (the four ...Character     *)
(* functions with their scrolling): its rows in order, nothing of what was *)
(* erased or scrolled away, no row given up before the screen was full,    *)
(* and the cursor in the last of them.  Only a framebuffer loses           *)
(* characters, and only of a row that was too long for it.                 *)
ShowsEndOfText ==
    LET layout == Layout
        wanted == [i \in DOMAIN layout.rows |-> Rendered(layout.rows[i])]
        shown  == [i \in 1 .. HEIGHT |-> screen.cells[i - 1]]
        rows   == SelectSeq(wanted, NotBlank)
        seen   == SelectSeq(shown, NotBlank)
        room   == Len(wanted) - HEIGHT + 1
    IN  /\ clipped => driver \in Framebuffers /\ layout.long
        /\ layout.plain /\ ~clipped =>
              /\ IsSuffix(seen, rows)
              /\ Len(rows) - Len(seen) <= IF room > 0 THEN room ELSE 0
              /\ screen.y < HEIGHT => screen.cells[screen.y] = Last(wanted)
=============================================================================
