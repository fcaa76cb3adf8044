------------------------------- MODULE Screen --------------------------------
(***************************************************************************)
(* The text screen (kernel/screen.c): cells of video memory and the place  *)
(* of the cursor, which the video controller keeps in 16 bits and hands    *)
(* back.  A screen is a record of both, and an operator is what a function *)
(* makes of it.  Colors are left out.                                      *)
(*                                                                         *)
(* The two registers of the cursor are written one after the other; that   *)
(* nobody else uses them meanwhile is ScreenHasOneWriter of Console.       *)
(* What is written behind the screen is not kept, for nobody reads it; how *)
(* far behind, and what is there, matters to ClearPos only, and that is    *)
(* LineOnScreen's business.                                                *)
(*                                                                         *)
(* A definition whose name has an underscore and a few words after that of *)
(* another definition is that definition with a plausible mistake: the     *)
(* properties that use it must reject it.                                  *)
(***************************************************************************)
EXTENDS Integers, SequencesExt

CONSTANTS
    MAX_COLUMNS,     \* 80
    MAX_LINES        \* 25

MAX_OFFSET == MAX_LINES * MAX_COLUMNS
LOCATIONS == 65536

(* CommandToScreen clears from any row but the first to the end because    *)
(* there are more columns than lines.                                      *)
ASSUME ScreenAssumption ==
    /\ MAX_LINES \in Nat \ {0}
    /\ MAX_COLUMNS \in Nat /\ MAX_COLUMNS >= MAX_LINES
    /\ MAX_OFFSET < LOCATIONS

Nothing == ""                \* a cell with the character 0
EndOfLine == "\n"

(* The screen as the kernel finds it; what is on it does not matter.       *)
BootScreen == [cells |-> [pos \in 0 .. MAX_OFFSET - 1 |-> Nothing], cursor |-> 0]

Put(s, c, pos) ==
    IF pos \in 0 .. MAX_OFFSET - 1 THEN [s EXCEPT !.cells[pos] = c] ELSE s

CursorMove(s, row, col) ==
    [s EXCEPT !.cursor = (row * MAX_COLUMNS + col) % LOCATIONS]

(* MAX_OFFSET itself, the first place behind the screen, is let through,   *)
(* and so is a place before the screen: it comes back as one of the last   *)
(* of the 16 bits.                                                         *)
CursorPosition_NotBehindTheEnd(s, pos) ==
    LET p == IF pos >= MAX_OFFSET THEN pos % MAX_OFFSET ELSE pos
    IN  CursorMove(s, p \div MAX_COLUMNS, p % MAX_COLUMNS)

CursorPosition(s, pos) ==
    LET p == IF pos > MAX_OFFSET THEN pos % MAX_OFFSET ELSE pos
    IN  CursorMove(s, p \div MAX_COLUMNS, p % MAX_COLUMNS)

GetCursorPosition(s) == s.cursor
GetLinePosition(s) == (s.cursor \div MAX_COLUMNS) * MAX_COLUMNS

ClearScreen(s) ==
    CursorMove([s EXCEPT !.cells = [pos \in DOMAIN @ |-> Nothing]], 0, 0)

(* ClearPos of every place from first to last.                             *)
ClearPos(s, first, last) ==
    [s EXCEPT !.cells = [pos \in DOMAIN @ |->
        IF pos \in first .. last THEN Nothing ELSE @[pos]]]

(* There is no scrolling: after the last line the cursor is MAX_OFFSET.    *)
NewLine(s) ==
    CursorPosition(s, (s.cursor \div MAX_COLUMNS + 1) * MAX_COLUMNS)

PutCharAtPos(s, c, pos) == CursorPosition(Put(s, c, pos), pos + 1)

PutChar(s, c) ==
    IF c = EndOfLine THEN NewLine(s) ELSE PutCharAtPos(s, c, s.cursor)

PutString(s, str) ==
    LET after[k \in 0 .. Len(str)] ==
          IF k = 0 THEN s ELSE PutChar(after[k - 1], str[k])
    IN  after[Len(str)]

(* The greeting is written from the first cell on, whatever is there.      *)
HelloBoot(s, boot) ==
    CursorPosition(
        [s EXCEPT !.cells = [pos \in DOMAIN @ |->
            IF pos < Len(boot) THEN boot[pos + 1] ELSE @[pos]]],
        IF Len(boot) < MAX_OFFSET THEN Len(boot) ELSE MAX_OFFSET)

(* What can be read from a place up to the first empty cell.               *)
TextAt(s, pos) ==
    LET ends == {p \in pos .. MAX_OFFSET - 1 : s.cells[p] = Nothing}
                  \cup {MAX_OFFSET}
        end  == CHOOSE p \in ends : \A q \in ends : p <= q
    IN  [k \in 1 .. end - pos |-> s.cells[pos + k - 1]]
=============================================================================
