------------------------------ MODULE Console -------------------------------
(***************************************************************************)
(* The console of kernel/console.c: ExecuteConsole, the loop that is the   *)
(* only thread of the kernel, against function, which the keyboard         *)
(* interrupt calls with every key, and the timer that ends the sleeps of   *)
(* the thread.  An interrupt handler runs as a whole between two steps of  *)
(* the thread; the two share console.StateMachine, the commands and the    *)
(* screen, and there is no lock.                                           *)
(*                                                                         *)
(* A line is a sequence of characters, a word one without blanks; Kinds    *)
(* says what the commands do, and a word may stand for several of them.    *)
(* Help texts and the wording of answers are left out.                     *)
(*                                                                         *)
(* A definition whose name has an underscore and a few words after that of *)
(* another definition is that definition with a plausible mistake: the     *)
(* properties below must reject it.                                        *)
(***************************************************************************)
EXTENDS Integers, SequencesExt

CONSTANTS
    MaxCommands,   \* elements of commandStructs (100)
    MaxArgs,       \* rows of args (7)
    MaxWord,       \* what command and a row of args hold, less the 0 (19)
    TIMER_FREQ,    \* ticks in a second (100)
    MILLIS,        \* milliseconds in a second (1000)
    Needed,        \* arguments that "sleep" takes (2)
    Chars,         \* bound: the characters that are typed
    Blank,
    Option,        \* the word "-c"
    Usage,         \* the word "-h"
    Kinds,         \* what the commands do, by their names
    MaxLine,       \* bound: the longest line that is typed (254)
    MaxNumber,     \* bound: the longest sleep asked for
    MaxEntered     \* bound: commands begun

ASSUME ConsoleAssumption ==
    /\ MaxCommands \in Nat \ {0} /\ MaxArgs \in Nat /\ MaxWord \in Nat
    /\ TIMER_FREQ \in Nat \ {0} /\ MILLIS \in Nat \ {0}
    /\ Needed \in Nat /\ MaxLine \in Nat /\ MaxNumber \in Nat
    /\ MaxEntered \in Nat \ {0}
    /\ Blank \in Chars
    /\ \A name \in DOMAIN Kinds :
          Kinds[name] \in SUBSET {"continuous", "sleep", "fault", "plain"} \ {{}}

VARIABLES
    StateMachine,       \* console.StateMachine
    commands,           \* the history, one COMMAND_STRUCT per slot
    commandIdx,         \* the current slot; -1 before the first line
    NumberOfCommands,
    shown,              \* the line CommandToScreen printed last
    at,                 \* where the thread is
    wait,               \* ticks the thread still has to sleep
    back                \* where it goes on after the sleep

console == <<StateMachine, commands, commandIdx, NumberOfCommands, shown>>
thread == <<at, wait, back>>
vars == <<console, thread>>

Slots == 0 .. MaxCommands - 1

STATES == {"NEW_COMMAND", "WAITING_FOR_COMMAND", "PROCESS_COMMAND",
           "EXECUTE_COMMAND", "EXIT_COMMAND"}

(* The five cases of the switch, and the other places the thread is at.    *)
PLACES == STATES \cup {"switch", "begun", "processed", "loop", "asleep",
                       "executed", "halted", "corrupted"}

Stopped == at \in {"halted", "corrupted"}

(* Arguments that args has rows for, each with the 0 behind its word.      *)
RowsFit(args) ==
    /\ Len(args) <= MaxArgs
    /\ \A n \in 1 .. Len(args) : Len(args[n]) <= MaxWord

EmptyCommand == [text |-> <<>>, CurrentPos |-> 0, EndPos |-> 0, args |-> <<>>]

ConsoleTypeOK ==
    /\ StateMachine \in STATES
    /\ commandIdx \in -1 .. MaxCommands - 1
    /\ commandIdx <= NumberOfCommands /\ NumberOfCommands <= MaxEntered
    /\ \A s \in Slots :
          /\ commands[s].text \in Seq(Chars)
          /\ commands[s].args \in Seq(Seq(Chars)) /\ RowsFit(commands[s].args)
    /\ shown \in Seq(Chars)
    /\ at \in PLACES /\ back \in PLACES
    /\ wait \in Nat

(* InitConsole; the thread then enters ExecuteConsole.                     *)
Init ==
    /\ StateMachine = "NEW_COMMAND"
    /\ commands = [s \in Slots |-> EmptyCommand]
    /\ commandIdx = -1 /\ NumberOfCommands = 0
    /\ shown = <<>>
    /\ at = "switch" /\ wait = 0 /\ back = "switch"

-----------------------------------------------------------------------------
(***************************************************************************)
(* Lines.                                                                  *)
(***************************************************************************)
Ccommand == commands[commandIdx]

(* Where a word that starts at position k ends.                            *)
WordAt(text, k) ==
    LET blanks == {b \in k .. Len(text) : text[b] = Blank}
    IN SubSeq(text, k, IF blanks = {} THEN Len(text) ELSE Min(blanks) - 1)

CommandWord(cmd) == WordAt(cmd.text, 1)

(* The arguments on a line.  Every blank ends a word, also an empty one;   *)
(* a word that would start behind EndPos is not looked at.                 *)
ArgumentsOf(text, end) ==
    LET first == Len(WordAt(text, 1)) + 2
        starts == {k \in first .. end : k = first \/ text[k - 1] = Blank}
        Before(k) == {earlier \in starts : earlier < k}
        Start(n) == CHOOSE k \in starts : Cardinality(Before(k)) = n - 1
    IN [n \in 1 .. Cardinality(starts) |-> WordAt(text, Start(n))]

(* GetExec, as far as it matters what the command does.                    *)
KindsOf(cmd) ==
    IF CommandWord(cmd) \in DOMAIN Kinds THEN Kinds[CommandWord(cmd)] ELSE {"plain"}

argc(cmd) == Len(cmd.args)

-----------------------------------------------------------------------------
(***************************************************************************)
(* The keyboard interrupt: function.  Keys mean something to the line only *)
(* while the console waits for a command.                                  *)
(***************************************************************************)
Edit(cmd) ==
    /\ commands' = [commands EXCEPT ![commandIdx] = cmd]
    /\ shown' = cmd.text
    /\ UNCHANGED <<StateMachine, commandIdx, NumberOfCommands>>

(* pos counts from 0; removeChar takes away the character before it.       *)
insertChar(c, str, pos) == InsertAt(str, pos + 1, c)
removeChar(str, pos) == RemoveAt(str, pos)

(* At the end of the line the character is stored where the cursor is.     *)
WriteIntoComand_EndCounted(c) ==
    LET cmd == Ccommand
        text == IF cmd.CurrentPos < cmd.EndPos
                THEN insertChar(c, cmd.text, cmd.CurrentPos)
                ELSE SubSeq(cmd.text, 1, cmd.CurrentPos) \o <<c>>
                       \o SubSeq(cmd.text, cmd.CurrentPos + 2, Len(cmd.text))
    IN /\ Len(text) <= MaxLine
       /\ Edit([cmd EXCEPT !.text = text, !.CurrentPos = @ + 1,
                           !.EndPos = @ + 1])

WriteIntoComand(c) ==
    LET cmd == Ccommand
        text == IF cmd.CurrentPos < cmd.EndPos
                THEN insertChar(c, cmd.text, cmd.CurrentPos)
                ELSE SubSeq(cmd.text, 1, cmd.CurrentPos) \o <<c>>
                       \o SubSeq(cmd.text, cmd.CurrentPos + 2, Len(cmd.text))
    IN /\ Len(text) <= MaxLine
       /\ Edit([cmd EXCEPT !.text = text, !.CurrentPos = @ + 1,
                           !.EndPos = Len(text)])

BackSpace ==
    LET cmd == Ccommand IN
    /\ cmd.CurrentPos > 0
    /\ Edit([cmd EXCEPT !.text = removeChar(@, cmd.CurrentPos),
                        !.CurrentPos = @ - 1, !.EndPos = @ - 1])

Delete ==
    LET cmd == Ccommand IN
    /\ cmd.CurrentPos < cmd.EndPos
    /\ Edit([cmd EXCEPT !.text = removeChar(@, cmd.CurrentPos + 1),
                        !.EndPos = @ - 1])

MoveCursor(by) ==
    LET pos == Ccommand.CurrentPos + by IN
    /\ pos \in 0 .. Ccommand.EndPos
    /\ commands' = [commands EXCEPT ![commandIdx].CurrentPos = pos]
    /\ UNCHANGED <<StateMachine, commandIdx, NumberOfCommands, shown>>

Left == MoveCursor(-1)
Right == MoveCursor(1)

Up_NotShown ==
    /\ commandIdx > 0
    /\ commandIdx' = commandIdx - 1
    /\ UNCHANGED <<StateMachine, commands, NumberOfCommands, shown>>

prevCommand == commandIdx > 0 /\ commandIdx' = commandIdx - 1

Up ==
    /\ prevCommand
    /\ shown' = commands[commandIdx - 1].text
    /\ UNCHANGED <<StateMachine, commands, NumberOfCommands>>

(* The history is as long as the number of commands begun, and Down goes   *)
(* one further.                                                            *)
nextCommand ==
    /\ commandIdx < NumberOfCommands /\ commandIdx + 1 \in Slots
    /\ commandIdx' = commandIdx + 1

Down ==
    /\ nextCommand
    /\ shown' = commands[commandIdx + 1].text
    /\ UNCHANGED <<StateMachine, commands, NumberOfCommands>>

Enter ==
    /\ NumberOfCommands < MaxEntered
    /\ StateMachine' = "PROCESS_COMMAND"
    /\ UNCHANGED <<commands, commandIdx, NumberOfCommands, shown>>

KeyForTheLine_InEveryState ==
    /\ ~Stopped /\ StateMachine # "NEW_COMMAND"
    /\ \/ \E c \in Chars : WriteIntoComand(c)
       \/ BackSpace \/ Delete \/ Left \/ Right \/ Up \/ Down \/ Enter
    /\ UNCHANGED thread

KeyForTheLine ==
    /\ ~Stopped /\ StateMachine = "WAITING_FOR_COMMAND"
    /\ \/ \E c \in Chars : WriteIntoComand(c)
       \/ BackSpace \/ Delete \/ Left \/ Right \/ Up \/ Down \/ Enter
    /\ UNCHANGED thread

(* Ctrl-C.  New lines are bounded.                                         *)
CtrlC ==
    /\ ~Stopped /\ StateMachine # "NEW_COMMAND"
    /\ StateMachine = "WAITING_FOR_COMMAND" => NumberOfCommands < MaxEntered
    /\ StateMachine' = "EXIT_COMMAND"
    /\ UNCHANGED <<commands, commandIdx, NumberOfCommands, shown, thread>>

(* Down on the last element of commandStructs leaves the array.            *)
DownOutOfHistory ==
    /\ ~Stopped /\ StateMachine = "WAITING_FOR_COMMAND"
    /\ commandIdx < NumberOfCommands /\ commandIdx + 1 \notin Slots
    /\ at' = "corrupted"
    /\ UNCHANGED <<console, wait, back>>

(* The timer interrupt, as far as a sleeping thread can see it.            *)
Tick ==
    /\ ~Stopped /\ wait > 0
    /\ wait' = wait - 1
    /\ UNCHANGED <<console, at, back>>

-----------------------------------------------------------------------------
(***************************************************************************)
(* The thread: ExecuteConsole.                                             *)
(***************************************************************************)
Goto(place) == at' = place /\ UNCHANGED <<wait, back>>

(* Sleep(ticks) returns to a place.                                        *)
SleepThen(ticks, place) == at' = "asleep" /\ wait' = ticks /\ back' = place

mSleepTicks(milliseconds) == (TIMER_FREQ * milliseconds) \div MILLIS

WakeUp ==
    /\ at = "asleep" /\ wait = 0
    /\ at' = back
    /\ UNCHANGED <<console, wait, back>>

ReadState == at = "switch" /\ Goto(StateMachine) /\ UNCHANGED console

(* newCommand.  A slot that the history is gone back from is used again    *)
(* with its old text.                                                      *)
NewCommand_NotCounted ==
    /\ at = "NEW_COMMAND"
    /\ IF commandIdx + 1 \in Slots
       THEN /\ commandIdx' = commandIdx + 1
            /\ UNCHANGED NumberOfCommands
            /\ commands' = [commands EXCEPT
                   ![commandIdx + 1].CurrentPos = 0,
                   ![commandIdx + 1].EndPos = 0,
                   ![commandIdx + 1].args = <<>>]
            /\ shown' = commands[commandIdx + 1].text
            /\ Goto("begun")
       ELSE Goto("corrupted") /\ UNCHANGED <<commandIdx, NumberOfCommands,
                                             commands, shown>>
    /\ UNCHANGED StateMachine

NewCommand ==
    /\ at = "NEW_COMMAND"
    /\ IF commandIdx + 1 \in Slots
       THEN /\ commandIdx' = commandIdx + 1
            /\ NumberOfCommands' = NumberOfCommands + 1
            /\ commands' = [commands EXCEPT
                   ![commandIdx + 1].CurrentPos = 0,
                   ![commandIdx + 1].EndPos = 0,
                   ![commandIdx + 1].args = <<>>]
            /\ shown' = commands[commandIdx + 1].text
            /\ Goto("begun")
       ELSE Goto("corrupted") /\ UNCHANGED <<commandIdx, NumberOfCommands,
                                             commands, shown>>
    /\ UNCHANGED StateMachine

BeginWaiting ==
    /\ at = "begun"
    /\ StateMachine' = "WAITING_FOR_COMMAND"
    /\ Goto("switch")
    /\ UNCHANGED <<commands, commandIdx, NumberOfCommands, shown>>

(* mSleep(10) is a tick long.                                              *)
WaitForCommand ==
    /\ at = "WAITING_FOR_COMMAND"
    /\ SleepThen(1, "switch")
    /\ UNCHANGED console

(* processCommand adds the arguments on the line to those that are there;  *)
(* argc is only reset by newCommand.  A word that is too long for command  *)
(* or its row of args, and a row behind args, are written over what follows*)
(* in the structure, argc and the cursor among it: nothing is said of what *)
(* the thread does then.                                                   *)
ProcessCommand ==
    LET args == Ccommand.args \o ArgumentsOf(Ccommand.text, Ccommand.EndPos) IN
    /\ at = "PROCESS_COMMAND"
    /\ IF Len(CommandWord(Ccommand)) <= MaxWord /\ RowsFit(args)
       THEN /\ commands' = [commands EXCEPT ![commandIdx].args = args]
            /\ Goto("processed")
       ELSE Goto("corrupted") /\ UNCHANGED commands
    /\ UNCHANGED <<StateMachine, commandIdx, NumberOfCommands, shown>>

(* A Ctrl-C that came since the state was read is overwritten here.        *)
BeginExecuting ==
    /\ at = "processed"
    /\ StateMachine' = "EXECUTE_COMMAND"
    /\ Goto("switch")
    /\ UNCHANGED <<commands, commandIdx, NumberOfCommands, shown>>

(* The commands.  "-h" alone asks for the usage of any of them.           *)
ExecuteCommand(kind) ==
    /\ at = "EXECUTE_COMMAND" /\ kind \in KindsOf(Ccommand)
    /\ Ccommand.args # <<Usage>>
    /\ UNCHANGED console

(* "get_time -c" and "get_date -c" go on until the state is another one.   *)
ExecuteContinuous ==
    /\ ExecuteCommand("continuous")
    /\ IF argc(Ccommand) > 0 /\ Ccommand.args[1] = Option
       THEN Goto("loop") ELSE Goto("executed")

(* "sleep -m" and "sleep -s" sleep for a number, the second of ticks where *)
(* it means milliseconds.                                                  *)
ExecuteSleep ==
    /\ ExecuteCommand("sleep")
    /\ IF argc(Ccommand) = Needed
       THEN \E number \in 0 .. MaxNumber :
                \/ SleepThen(mSleepTicks(number), "executed")
                \/ SleepThen(number * MILLIS, "executed")
       ELSE Goto("executed")

(* div-zero and page-fault end in a handler that halts with interrupts     *)
(* disabled.                                                               *)
ExecuteFault == ExecuteCommand("fault") /\ Goto("halted")

(* All others answer, and so does a word that is no command.               *)
ExecuteOther == ExecuteCommand("plain") /\ Goto("executed")

ExecuteUsage ==
    /\ at = "EXECUTE_COMMAND" /\ Ccommand.args = <<Usage>>
    /\ Goto("executed")
    /\ UNCHANGED console

Execute ==
    \/ ExecuteContinuous \/ ExecuteSleep \/ ExecuteFault \/ ExecuteOther
    \/ ExecuteUsage

(* One round of the loop: get_time sleeps a tick, get_date a second.       *)
Loop_StateNotRead ==
    /\ at = "loop"
    /\ \E ticks \in {1, TIMER_FREQ} : SleepThen(ticks, "loop")
    /\ UNCHANGED console

Loop ==
    /\ at = "loop"
    /\ IF StateMachine = "EXECUTE_COMMAND"
       THEN \E ticks \in {1, TIMER_FREQ} : SleepThen(ticks, "loop")
       ELSE Goto("executed")
    /\ UNCHANGED console

EndCommand_StateKept ==
    /\ at = "executed"
    /\ Goto("switch")
    /\ UNCHANGED console

EndCommand ==
    /\ at = "executed"
    /\ StateMachine' = "EXIT_COMMAND"
    /\ Goto("switch")
    /\ UNCHANGED <<commands, commandIdx, NumberOfCommands, shown>>

(* NewLine, and the state is written.                                      *)
ExitCommand_PromptSkipped ==
    /\ at = "EXIT_COMMAND"
    /\ StateMachine' = "WAITING_FOR_COMMAND"
    /\ Goto("NEW_COMMAND")
    /\ UNCHANGED <<commands, commandIdx, NumberOfCommands, shown>>

ExitCommand ==
    /\ at = "EXIT_COMMAND"
    /\ StateMachine' = "NEW_COMMAND"
    /\ Goto("switch")
    /\ UNCHANGED <<commands, commandIdx, NumberOfCommands, shown>>

Interrupt == KeyForTheLine \/ CtrlC \/ DownOutOfHistory

Thread ==
    \/ WakeUp \/ ReadState \/ NewCommand \/ BeginWaiting \/ WaitForCommand
    \/ ProcessCommand \/ BeginExecuting \/ Execute \/ Loop \/ EndCommand
    \/ ExitCommand

Next == Interrupt \/ Tick \/ Thread

(* The thread is the only one there is, and the timer goes on interrupting *)
(* it: GetTicks, the one place that disables interrupts, enables them      *)
(* again at once.  Nobody has to press a key.                              *)
Spec == Init /\ [][Next]_vars /\ WF_vars(Thread) /\ WF_vars(Tick)

-----------------------------------------------------------------------------
(***************************************************************************)
(* Properties.                                                             *)
(***************************************************************************)
Line == Ccommand.text

(* While a key can change the line and the screen, the thread does neither:*)
(* it sleeps or is about to look at the state.  Nothing but the order in   *)
(* which the state machine is written keeps the cursor ports, the color    *)
(* and the command from being used by both at once.                        *)
ScreenHasOneWriter ==
    StateMachine = "WAITING_FOR_COMMAND" =>
        \/ at \in {"switch", "WAITING_FOR_COMMAND"} \/ Stopped
        \/ at = "asleep" /\ back = "switch"

(* From the moment it is entered until the next prompt no key changes the  *)
(* line or moves to another one: what is processed is what is executed.    *)
EnteredLineStands ==
    [][(StateMachine \in {"PROCESS_COMMAND", "EXECUTE_COMMAND"}) =>
          /\ commandIdx' = commandIdx
          /\ Line' = Line]_vars

(* The cursor is on the line, and the end is the end of the text, or 0 in  *)
(* a slot that is used again: insertChar and removeChar never work on text *)
(* that is not there, also after moving through the history.               *)
CursorInLine ==
    \A s \in Slots :
        LET cmd == commands[s] IN
        /\ cmd.CurrentPos \in 0 .. cmd.EndPos
        /\ cmd.EndPos \in {0, Len(cmd.text)}

(* The line printed last is the text of the current command, through every *)
(* edit and every move in the history, until the command is executed.  Its *)
(* arguments may be other ones: GoesOnOnlyIfAsked below.                   *)
ShownLineIsExecuted ==
    StateMachine \in {"WAITING_FOR_COMMAND", "PROCESS_COMMAND",
                      "EXECUTE_COMMAND"} => shown = Line

(* Ctrl-C ends every command, the two that go on for ever too, unless it   *)
(* comes while the line is processed: there the thread overwrites the state*)
(* that function has written.                                              *)
CtrlCEndsCommand ==
    (StateMachine = "EXIT_COMMAND" /\ at \notin {"PROCESS_COMMAND", "processed"})
        ~> (StateMachine = "NEW_COMMAND" \/ Stopped)

(* Every line that is entered is answered: the prompt comes back, unless   *)
(* the command goes on until Ctrl-C or stops the machine.                  *)
EnteredLineIsAnswered ==
    (StateMachine = "PROCESS_COMMAND")
        ~> (StateMachine = "NEW_COMMAND" \/ at = "loop" \/ Stopped)

(* "get_time      # without arguments and returns current time", says the  *)
(* help: only a line with the argument -c goes on for ever.                *)
GoesOnOnlyIfAsked ==
    at = "loop" => ArgumentsOf(Line, Len(Line)) # <<>>
=============================================================================
