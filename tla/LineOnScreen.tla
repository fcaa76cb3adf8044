----------------------------- MODULE LineOnScreen ----------------------------
(***************************************************************************)
(* The console on the screen: every step of Console that prints, together  *)
(* with what it makes of the screen.  Keys edit and recall lines that are  *)
(* longer than a row, the commands print, and prompts come to stand        *)
(* anywhere on the screen, also behind its end, until the clearing of a    *)
(* line reaches the kernel: nothing is modelled of what the machine does   *)
(* then.  Only commands that answer and end are among the commands.        *)
(***************************************************************************)
EXTENDS Console, Screen

CONSTANTS
    prompt,     \* a sequence of characters ("@root: ")
    boot,       \* another one, the greeting
    Outputs,    \* bound: what commands print
    FreeCells   \* cells of two bytes from the beginning of video memory,
                \* 0xB8000, to the stack and the kernel around 0x200000 that
                \* nothing is kept in (671744, less the depth of the stack)

(* What is typed is shown in a cell of its own, as every character of the  *)
(* prompt is.  What is cleared for a line that begins on the screen ends in*)
(* memory nobody uses.                                                     *)
ASSUME LineOnScreenAssumption ==
    /\ prompt \in Seq(Range(prompt)) /\ Len(prompt) \in 1 .. MAX_COLUMNS - 2
    /\ \A c \in Chars \cup Range(prompt) : c \notin {Nothing, EndOfLine}
    /\ \A out \in Outputs : Len(out) \in Nat
    /\ FreeCells \in Nat
    /\ FreeCells >= (MAX_OFFSET + MaxLine + 1) * MAX_COLUMNS

VARIABLES
    screen,
    row,        \* history: where CommandToScreen drew the line last
    over,       \* history: it went over the end of the screen, and the
                \* cursor has not been counted anew since
    destroyed   \* CommandToScreen has cleared the kernel

drawing == <<row, over, destroyed>>
lineVars == <<vars, screen, drawing>>

(* KernelMain clears the screen, greets and clears again; the summary of   *)
(* the drives follows.                                                     *)
LineInit ==
    /\ Init
    /\ LET greeted == HelloBoot(ClearScreen(BootScreen), boot)
       IN  \E out \in Outputs : screen = PutString(ClearScreen(greeted), out)
    /\ row = 0 /\ over = FALSE /\ destroyed = FALSE

-----------------------------------------------------------------------------
(***************************************************************************)
(* CommandToScreen.  The division in the end of what is cleared belongs to *)
(* the prompt only: it is a place far behind the screen, unless the line is*)
(* the first one.  A place before the screen comes back from the 16 bits of*)
(* the cursor as one far behind it, and the clearing from there goes on    *)
(* over the stack, the kernel and the page tables.                         *)
(***************************************************************************)
LineStart(s, cmd) ==
    GetLinePosition(CursorPosition(s, s.cursor - cmd.CurrentPos))

Prepared(s, cmd) ==
    CursorPosition(s, LineStart(s, cmd))

EndOfClearing_OfTheRow(pos, cmd) ==
    ((pos + cmd.CurrentPos + Len(prompt)) \div MAX_COLUMNS + 1) * MAX_COLUMNS - 1

EndOfClearing(pos, cmd) ==
    (pos + cmd.CurrentPos + Len(prompt) \div MAX_COLUMNS + 1) * MAX_COLUMNS - 1

CommandToScreen_CursorAtTheEnd(s, cmd) ==
    LET pos == LineStart(s, cmd)
        clear == ClearPos(Prepared(s, cmd), pos, EndOfClearing(pos, cmd) - 1)
    IN  PutString(clear, prompt \o cmd.text)

CommandToScreen(s, cmd) ==
    LET pos == LineStart(s, cmd)
        clear == ClearPos(Prepared(s, cmd), pos, EndOfClearing(pos, cmd) - 1)
        full == PutString(clear, prompt \o cmd.text)
    IN  CursorPosition(full, full.cursor - (cmd.EndPos - cmd.CurrentPos))

ClearsKernel(s, cmd) == EndOfClearing(LineStart(s, cmd), cmd) > FreeCells

(* The line that is current after the step is drawn on s.                  *)
Drawn(s) == CommandToScreen(s, commands'[commandIdx'])

Remember(s, before) ==
    LET cmd == commands'[commandIdx']
        pos == LineStart(s, cmd)
    IN
    /\ row' = pos
    /\ over' = (before \/ pos + Len(prompt) + Len(cmd.text) > MAX_OFFSET)
    /\ destroyed' = ClearsKernel(s, cmd)

Draw(s) == screen' = Drawn(s) /\ Remember(s, FALSE)

(* BackSpace and Delete put the cursor where it was before.                *)
DrawAround(pos) ==
    /\ screen' = CursorPosition(Drawn(screen), pos)
    /\ Remember(screen, over)

-----------------------------------------------------------------------------
(***************************************************************************)
(* The keys.                                                               *)
(***************************************************************************)
TypeOnScreen == (\E c \in Chars : WriteIntoComand(c)) /\ Draw(screen)

BackSpaceOnScreen == BackSpace /\ DrawAround(screen.cursor - 1)
DeleteOnScreen == Delete /\ DrawAround(screen.cursor)

MoveOnScreen ==
    /\ \/ Left /\ screen' = CursorPosition(screen, screen.cursor - 1)
       \/ Right /\ screen' = CursorPosition(screen, screen.cursor + 1)
    /\ UNCHANGED drawing

(* prevCommand and nextCommand do nothing at the ends of the history, and  *)
(* the line is drawn all the same.                                         *)
RecallOnScreen ==
    /\ \/ Up \/ Down
       \/ commandIdx \in {0, NumberOfCommands} /\ UNCHANGED console
    /\ Draw(CursorPosition(screen, screen.cursor + commands'[commandIdx'].EndPos))

EnterOnScreen == Enter /\ screen' = NewLine(screen) /\ UNCHANGED drawing

KeyOnScreen ==
    /\ ~Stopped /\ StateMachine = "WAITING_FOR_COMMAND"
    /\ \/ TypeOnScreen \/ BackSpaceOnScreen \/ DeleteOnScreen
       \/ MoveOnScreen \/ RecallOnScreen \/ EnterOnScreen
    /\ UNCHANGED thread

-----------------------------------------------------------------------------
(***************************************************************************)
(* The thread.                                                             *)
(***************************************************************************)
PromptOnScreen ==
    /\ NewCommand
    /\ IF at' = "begun" THEN Draw(screen) ELSE UNCHANGED <<screen, drawing>>

AnswerOnScreen ==
    /\ ExecuteOther \/ ExecuteUsage
    /\ \/ \E out \in Outputs : screen' = PutString(screen, out)
       \/ screen' = ClearScreen(screen)
    /\ UNCHANGED drawing

ExitOnScreen ==
    /\ ExitCommand
    /\ screen' = NewLine(screen)
    /\ UNCHANGED drawing

NotOnScreen ==
    /\ \/ CtrlC \/ DownOutOfHistory \/ Tick
       \/ WakeUp \/ ReadState \/ BeginWaiting \/ WaitForCommand
       \/ ProcessCommand \/ BeginExecuting \/ EndCommand
    /\ UNCHANGED <<screen, drawing>>

LineNext ==
    /\ ~destroyed
    /\ \/ KeyOnScreen \/ PromptOnScreen \/ AnswerOnScreen \/ ExitOnScreen
       \/ NotOnScreen

LineSpec == LineInit /\ [][LineNext]_lineVars

-----------------------------------------------------------------------------
(* While the console waits for keys the screen shows the prompt and the    *)
(* line from a row on, on as many rows as it takes, and the cursor stands  *)
(* where the next key works, through every edit and every move in the      *)
(* history.  Behind the line nothing is left of a longer one, except when  *)
(* it stands in the first row.  The cursor of a slot that is used again    *)
(* stands behind its old text until a key is typed, and a line that goes   *)
(* over the end of the screen, as every prompt after the last row does, is *)
(* not shown as it is; the next key may be the last one then.              *)
LineIsShown ==
    StateMachine = "WAITING_FOR_COMMAND" /\ ~Stopped /\ ~over =>
        LET line == prompt \o Line IN
        /\ row % MAX_COLUMNS = 0
        /\ \A k \in 1 .. Len(line) : screen.cells[row + k - 1] = line[k]
        /\ row > 0 => TextAt(screen, row) = line
        /\ Ccommand.EndPos = Len(Line) =>
              screen.cursor = row + Len(prompt) + Ccommand.CurrentPos

(* CommandToScreen destroys the kernel only after a line has gone over the *)
(* end of the screen, or when Up or Down go to the end of a line from a    *)
(* place that is too near to it: no other key, prompt or answer lets it    *)
(* look for the beginning of a line before the screen, whatever slot of the*)
(* history it draws and wherever on the screen it does.                    *)
KernelOutlivesTheLine ==
    [][destroyed' =>
          \/ destroyed \/ over
          \/ /\ RecallOnScreen
             /\ screen.cursor + commands'[commandIdx'].EndPos > MAX_OFFSET]_lineVars
=============================================================================
