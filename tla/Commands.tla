------------------------------ MODULE Commands -------------------------------
(***************************************************************************)
(* What the commands of the console do with their arguments and with what  *)
(* the rest of the kernel returns to them (the cases of EXECUTE_COMMAND in *)
(* kernel/console.c): get_date and get_time print on the screen what the   *)
(* clock shows, once or again and again; sleep, disk, mem and show-memory  *)
(* read numbers, among them the addresses that mem printed before.  The    *)
(* calls of the timer, the drives and the allocators end here: what comes  *)
(* of them is in Interrupts, Ata and BlockHeap.                            *)
(***************************************************************************)
EXTENDS Clock, Numbers, Screen

CONSTANTS
    TIMER_FREQ,   \* ticks in a second (100)
    MILLIS,       \* milliseconds in a second (1000)
    MaxAnswers,   \* bound: answers of the clock
    Addresses,    \* bound: where allocated blocks begin
    Typed,        \* bound: the numbers that are typed
    OldTexts      \* bound: what earlier commands left on the screen

ASSUME CommandsAssumption ==
    /\ TIMER_FREQ \in Nat \ {0} /\ MILLIS \in Nat \ {0}
    /\ MaxAnswers \in Nat
    /\ Addresses \subseteq 1 .. UINTS - 1 /\ Typed \subseteq Nat
    /\ \A old \in OldTexts : old = [cell \in 0 .. MAX_OFFSET - 1 |-> old[cell]]
    \* an answer, six numbers at most, is shorter than a row
    /\ \A n \in 0 .. UINTS - 1 : 6 * Len(convert(n, 10)) + 5 < MAX_COLUMNS

VARIABLES
    screen,
    pos,        \* where the line of the answer begins
    going,      \* get_date -c and get_time -c: go on
    answers,    \* answers that were shown
    response,   \* the text of the last one
    longest,    \* history: the longest one of the command
    found,      \* history: what the command found on the screen
    ref,        \* the address that mem -alloc got last
    printed,    \* and its text
    call        \* the call that a command made of its arguments, or NoCall

display == <<screen, pos, going, answers, response, longest, found>>
arguments == <<ref, printed, call>>
vars == <<clockVars, display, arguments>>

NoCall == [does |-> "nothing", texts |-> <<>>, with |-> <<>>]

Init ==
    /\ ClockInit
    /\ screen = BootScreen /\ pos = 0 /\ found = BootScreen.cells
    /\ going = "no" /\ answers = 0 /\ longest = 0
    /\ response = <<>>
    /\ ref = 0 /\ printed = <<>>
    /\ call = NoCall

-----------------------------------------------------------------------------
(***************************************************************************)
(* get_date and get_time.                                                  *)
(***************************************************************************)
printf(s, format, args) == PutString(s, Formatted(format, args))

(* No digit of a date is filled up.                                        *)
DateFormat ==
    <<"%d", "/", "%d", "/", "%d", " ", "%d", ":", "%d", ":", "%d">>
Fields(d) == <<d.year, d.month, d.day, d.hour, d.minute, d.second>>

(* A bound: the clock is asked or numbers are read, not one after the      *)
(* other; the two share no state.                                          *)
NoNumbers == call = NoCall /\ printed = <<>>
NoClock == answers = 0 /\ passed = 0

(* A command finds old text on the screen and the cursor at the start of a *)
(* row, which its Enter took it to, or behind the last one: nothing scrolls*)
(* or clears.  With -c it takes the place again before every answer.       *)
Ask(function, option) ==
    /\ Begin(function) /\ NoNumbers /\ answers < MaxAnswers
    /\ going' = option
    /\ \/ /\ going = "no"
          /\ \E row \in 1 .. MAX_LINES, old \in OldTexts :
                /\ screen' = [cells |-> old, cursor |-> row * MAX_COLUMNS]
                /\ pos' = row * MAX_COLUMNS /\ found' = old
          /\ longest' = 0
       \/ /\ going # "no" /\ going = option
          /\ pos' = GetCursorPosition(screen)
          /\ UNCHANGED <<screen, found, longest>>
    /\ UNCHANGED <<answers, response, arguments>>

GetDate == \E option \in {"no", "date -c"} : Ask("SysGetDate", option)
GetTime == \E option \in {"no", "time -c"} : Ask("SysGetTime", option)

Answered == at = "date" \/ at = "time"

(* The response is written over the one before.                            *)
Answer ==
    IF at = "date" THEN sprintf(response, DateFormat, Fields(date))
                   ELSE sprintf(response, <<"%d">>, <<time>>)

Show_CursorStays ==
    /\ Return /\ answers' = answers + 1
    /\ response' = Answer
    /\ screen' = printf(screen, <<"%s">>, <<Answer>>)
    /\ longest' = IF Len(Answer) > longest THEN Len(Answer) ELSE longest
    /\ UNCHANGED <<pos, going, found, arguments>>

(* With -c the cursor is put back for the next answer.                     *)
Show ==
    LET full == printf(screen, <<"%s">>, <<Answer>>) IN
    /\ Return /\ answers' = answers + 1
    /\ response' = Answer
    /\ screen' = IF going = "no" THEN full ELSE CursorPosition(full, pos)
    /\ longest' = IF Len(Answer) > longest THEN Len(Answer) ELSE longest
    /\ UNCHANGED <<pos, going, found, arguments>>

(* Ctrl-C between two rounds.                                              *)
EndContinuous ==
    /\ at = "idle" /\ going # "no"
    /\ going' = "no"
    /\ UNCHANGED <<clockVars, screen, pos, answers, response, longest, found,
                   arguments>>

-----------------------------------------------------------------------------
(***************************************************************************)
(* The commands that read numbers.  What is typed is one of the numbers or *)
(* the address that was printed, as it was printed.                        *)
(***************************************************************************)
Texts == {convert(n, 10) : n \in Typed} \cup {<<"1", "x">>}

MemAlloc ==
    /\ at = "idle" /\ NoClock
    /\ \E address \in Addresses :
          ref' = address /\ printed' = Formatted(<<"%x">>, <<address>>)
    /\ call' = NoCall
    /\ UNCHANGED <<clockVars, display>>

Execute(does, texts, with) ==
    /\ at = "idle" /\ NoClock
    /\ call' = [does |-> does, texts |-> texts, with |-> with]
    /\ UNCHANGED <<clockVars, display, ref, printed>>

(* mSleep gets milliseconds, Sleep ticks; this is what reaches Sleep.      *)
mSleep(milliseconds) == (TIMER_FREQ * milliseconds) \div MILLIS

SleepCommand ==
    \E text \in Texts :
        \/ Execute("sleep -m", <<text>>, <<mSleep(convertToULong(text))>>)
        \/ Execute("sleep -s", <<text>>, <<convertToULong(text) * MILLIS>>)

(* disk -r and disk -w.                                                    *)
DiskRead ==
    \E sectors, lba \in Texts :
        /\ printed # <<>>
        /\ Execute("disk -r", <<sectors, lba, printed>>,
              <<convertToByte(sectors), convertToUInt(lba),
                converHexToQWORD(printed)>>)

DiskWrite ==
    \E sectors, lba \in Texts :
        /\ printed # <<>>
        /\ Execute("disk -w", <<sectors, lba, printed>>,
              <<convertToByte(sectors), convertToUInt(lba),
                convertToQWord(printed)>>)

(* mem -alloc -p, mem -alloc -b, mem -free -p: a number.                   *)
MemNumber ==
    \E text \in Texts : Execute("mem", <<text>>, <<convertToUInt(text)>>)

(* mem -free -b and show-memory: an address.                               *)
MemAddress ==
    /\ printed # <<>>
    /\ Execute("mem address", <<printed>>, <<converHexToQWORD(printed)>>)

(* A bound: between the calls the clock stands still.                      *)
Next ==
    \/ /\ \/ SecondPasses /\ Reads
          \/ RegistersSettle \/ ReadRegister
          \/ ReadSecondsAgain \/ ComputeTime
       /\ UNCHANGED <<display, arguments>>
    \/ GetDate \/ GetTime \/ Show \/ EndContinuous
    \/ MemAlloc \/ SleepCommand \/ DiskRead \/ DiskWrite
    \/ MemNumber \/ MemAddress

Spec == Init /\ [][Next]_vars

-----------------------------------------------------------------------------
(***************************************************************************)
(* Properties.                                                             *)
(***************************************************************************)
(* The k-th character of an answer is printed here; the one that is        *)
(* printed behind the last row is lost, and the next ones go to the first. *)
Cell(k) == (pos + k - 1) % MAX_OFFSET
Lost(k) == pos + k - 1 = MAX_OFFSET

(* However many answers get_date -c and get_time -c print, on whichever row*)
(* and over whatever old text: each stands where the first one began, from *)
(* the first character to the last, but for one that is lost behind the    *)
(* last row; and the cells that none of the command's answers reached are  *)
(* as the command found them.                                              *)
AnswerStands ==
    [][Answered /\ at' = "idle" =>
          /\ \A k \in DOMAIN Answer :
                Lost(k) \/ screen'.cells[Cell(k)] = Answer[k]
          /\ \A cell \in DOMAIN screen.cells :
                \/ \E k \in 1 .. longest' : ~Lost(k) /\ cell = Cell(k)
                \/ screen'.cells[cell] = found[cell]]_vars

(* The number that a text says; 0 when it says none.                       *)
Number(text) == IF AllDigits(text) THEN Meaning(text, 10) ELSE 0

(* Numbers come through: a number of sectors is the one typed, or 0 when it*)
(* does not fit, every other number is the one typed modulo its width, and *)
(* a text that is none is 0; a sleep -m is as long as typed but for a tick.*)
(* An address that mem -alloc printed names the same memory when it is     *)
(* typed into mem -free -b, show-memory or disk -r.  How long sleep -s is  *)
(* and where disk -w writes from: see the two below.                       *)
ArgumentsArrive ==
    LET number == Number(call.texts[1])
        small  == number % UINTS
    IN  /\ call.does = "sleep -m" =>
              call.with[1] * MILLIS \in
                small * TIMER_FREQ - MILLIS + 1 .. small * TIMER_FREQ
        /\ call.does = "mem" => call.with[1] = small
        /\ call.does = "mem address" => call.with[1] = ref
        /\ call.does \in {"disk -r", "disk -w"} =>
              /\ call.with[1] = IF number < BYTES THEN number ELSE 0
              /\ call.with[2] = Number(call.texts[2]) % UINTS
        /\ call.does = "disk -r" => call.with[3] = ref

(* The help of get_date: -c shows the current date in continuous mode.  Of *)
(* a date that is longer than the next the end stays, even on a clear row: *)
(* 12:1:0 after 12:0:59 is shown as 12:1:09.                               *)
DateIsShown ==
    at = "idle" /\ going = "date -c" /\ pos < MAX_OFFSET =>
        TextAt(screen, pos) = response

(* The help of get_time: it returns the current time.  What it returns is  *)
(* not the time of any moment while it read.                               *)
TimeIsCurrent ==
    at = "time" /\ ~torn => \E m \in moments : time = SecondsSince2000(m)

(* The help of sleep: -s sleeps for SECONDS seconds, TIMER_FREQ ticks each.*)
(* Sleep gets MILLIS ticks for each of them.                               *)
SleepsSeconds ==
    call.does = "sleep -s" =>
        call.with[1] = (Number(call.texts[1]) % UINTS) * TIMER_FREQ

(* The help of disk: -w writes from the BUFFER address.  The address, typed*)
(* as it was printed, is read as a decimal number.                         *)
WritesFromTheBuffer == call.does = "disk -w" => call.with[3] = ref

(* What the help of these commands says (console.c:331, :368, :405, :436); *)
(* each of the four alone is violated as well.                             *)
HelpHolds == SleepsSeconds /\ WritesFromTheBuffer /\ TimeIsCurrent /\ DateIsShown
=============================================================================
