----------------------------- MODULE Interrupts -----------------------------
(***************************************************************************)
(* How the kernel brings interrupts up and lives with them: the order in   *)
(* which KernelMain (kernel/main.c) programs the two interrupt controllers,*)
(* fills the IDT, subscribes the console and enables interrupts; the       *)
(* handlers of kernel/interrupt.c, which may run between any two steps of  *)
(* the kernel while the interrupt flag is set; and the two uses of the     *)
(* hardware by the running kernel that an interrupt could disturb: Sleep,  *)
(* which watches the counter of the timer (kernel/timer.c), and ReadCMOS,  *)
(* which selects a register of the clock and then reads it (kernel/rct.c). *)
(*                                                                         *)
(* The controllers and the devices are not code of the kernel: a device    *)
(* may request its line at any time, and a controller passes a request on  *)
(* when its line is not masked and no line of the same or a higher         *)
(* priority is in service.  Lines 8 to 15 come in through line 2.          *)
(*                                                                         *)
(* A definition whose name has an underscore and a few words after that of *)
(* another definition is that definition with a plausible mistake: the     *)
(* properties below must reject it.                                        *)
(***************************************************************************)
EXTENDS Integers

CONSTANTS
    TickModulus,   \* values of the counter of ticks, a QWORD (2^64)
    MaxSleep,      \* bound: the longest sleep, in ticks
    MaxLag         \* bound: ticks between two readings of the counter by Sleep

ASSUME InterruptsAssumption ==
    /\ TickModulus \in Nat /\ MaxSleep \in Nat /\ MaxLag \in Nat \ {0}
    /\ MaxSleep + MaxLag < TickModulus

VARIABLES
    boot,          \* the next call of KernelMain
    intr,          \* the interrupt flag
    masked,        \* lines whose bit is set in the mask of their controller
    gates,         \* lines whose vector has a handler in the loaded IDT
    func,          \* the subscriber of the keyboard, or NULL
    requested,     \* lines that a device requests
    inService,     \* lines passed on and not yet ended by an EOI
    handler,       \* the line whose handler runs, or NoLine
    step,          \* where that handler is
    ticks,         \* the counter of the timer
    pc,            \* what the thread of the running kernel is doing
    old_int,       \* interrupt flag saved by GetTicks
    tick_start, t_n, ticks_loop,   \* locals of Sleep
    passed,        \* history: ticks counted since the sleep began
    lag,           \* ticks since Sleep last read the counter
    reg, index     \* register that ReadCMOS wants, register selected

pic == <<masked, requested, inService>>
handling == <<handler, step>>
sleep == <<old_int, tick_start, t_n, ticks_loop>>
cmos == <<reg, index>>
seen == <<passed, lag>>
thread == <<boot, pc, sleep, reg>>
vars == <<thread, intr, pic, gates, func, handling, ticks, seen, index>>

Lines == {0, 1, 2, 8}    \* timer, keyboard, the second controller, clock
NoLine == -1
NULL == "NULL"
CASCADE == 2

RTC_REGISTERS == {0, 2, 4}
REG_B == 11
REG_C == 12

BOOT == {"PIC_remap", "InitIDT", "TimerInit", "RTCInit", "KeyboardInit",
         "clear 0", "clear 1", "clear 8", "InitConsole", "sti", "running"}

InterruptsTypeOK ==
    /\ boot \in BOOT
    /\ intr \in BOOLEAN
    /\ masked \subseteq Lines /\ gates \subseteq Lines
    /\ func \in {NULL, "function"}
    /\ requested \subseteq Lines /\ inService \subseteq Lines
    /\ handler \in Lines \cup {NoLine}
    /\ step \in {"body", "EOI", "iretq"}
    /\ ticks \in 0 .. TickModulus - 1
    /\ pc \in {"idle", "flags", "cli", "read", "restore", "sti", "compare",
               "select", "input"}
    /\ old_int \in BOOLEAN
    /\ tick_start \in 0 .. TickModulus - 1 /\ t_n \in 0 .. TickModulus
    /\ ticks_loop \in 0 .. MaxSleep
    /\ passed \in 0 .. MaxSleep /\ lag \in 0 .. MaxLag
    /\ reg \in RTC_REGISTERS /\ index \in RTC_REGISTERS \cup {REG_B, REG_C}

(* ASMEntryPoint disables interrupts; the masks are what the BIOS left.    *)
Init ==
    /\ boot = "PIC_remap"
    /\ intr = FALSE
    /\ masked \in SUBSET Lines
    /\ gates = {} /\ func = NULL
    /\ requested = {} /\ inService = {}
    /\ handler = NoLine /\ step = "body"
    /\ ticks = 0
    /\ pc = "idle" /\ old_int = FALSE
    /\ tick_start = 0 /\ t_n = 0 /\ ticks_loop = 0 /\ passed = 0
    /\ lag = 0
    /\ reg = 0 /\ index = 0

(* Whose turn it is: a handler runs to its end before the thread goes on.  *)
ThreadRuns == handler = NoLine

-----------------------------------------------------------------------------
(***************************************************************************)
(* KernelMain.                                                             *)
(***************************************************************************)
Call(this, next) ==
    /\ ThreadRuns /\ boot = this /\ boot' = next
    /\ UNCHANGED <<pc, sleep, reg, requested, handling, seen>>

(* Initialising a controller clears its mask; the mask of the first one is *)
(* then written.                                                           *)
PIC_remap ==
    /\ Call("PIC_remap", "InitIDT")
    /\ masked' = {0, 1, 2} /\ inService' = {}
    /\ UNCHANGED <<intr, gates, func, ticks, index>>

InitIDT ==
    /\ Call("InitIDT", "TimerInit")
    /\ masked' = {0, 1, 2} /\ inService' = {}
    /\ gates' = Lines
    /\ UNCHANGED <<intr, func, ticks, index>>

(* It saves the flags only after it has disabled interrupts, so that they  *)
(* are disabled when it returns.                                           *)
PitConfigureChannel == intr' = FALSE

TimerInit ==
    /\ Call("TimerInit", "RTCInit")
    /\ ticks' = 0
    /\ PitConfigureChannel
    /\ UNCHANGED <<masked, inService, gates, func, index>>

RTCInit_Enables ==
    /\ Call("RTCInit", "KeyboardInit")
    /\ index' = REG_B
    /\ intr' = TRUE
    /\ UNCHANGED <<masked, inService, gates, func, ticks>>

RTCInit ==
    /\ Call("RTCInit", "KeyboardInit")
    /\ index' = REG_B
    /\ UNCHANGED <<intr, masked, inService, gates, func, ticks>>

KeyboardInit ==
    /\ Call("KeyboardInit", "clear 0")
    /\ UNCHANGED <<intr, masked, inService, gates, func, ticks, index>>

IRQ_clear_mask_CascadeToo(line) ==
    masked' = masked \ (IF line < 8 THEN {line} ELSE {line, CASCADE})

IRQ_clear_mask(line) == masked' = masked \ {line}

ClearMasks ==
    /\ \/ Call("clear 0", "clear 1") /\ IRQ_clear_mask(0)
       \/ Call("clear 1", "clear 8") /\ IRQ_clear_mask(1)
       \/ Call("clear 8", "InitConsole") /\ IRQ_clear_mask(8)
    /\ UNCHANGED <<intr, inService, gates, func, ticks, index>>

InitConsole ==
    /\ Call("InitConsole", "sti")
    /\ func' = "function"            \* KeyboardSubscribe
    /\ UNCHANGED <<intr, masked, inService, gates, ticks, index>>

EnableInterrupts ==
    /\ Call("sti", "running")
    /\ intr' = TRUE
    /\ UNCHANGED <<masked, inService, gates, func, ticks, index>>

Boot ==
    \/ PIC_remap \/ InitIDT \/ TimerInit \/ RTCInit \/ KeyboardInit
    \/ ClearMasks \/ InitConsole \/ EnableInterrupts

-----------------------------------------------------------------------------
(***************************************************************************)
(* Requests and handlers.  The handlers run with interrupts disabled: all  *)
(* gates are interrupt gates.                                              *)
(***************************************************************************)
Sleeping == pc \notin {"idle", "select", "input"}

(* The timer is slow: while Sleep waits, it ticks a bounded number of times *)
(* between two readings of its counter.                                    *)
DeviceRequests(line) ==
    /\ line \notin requested \cup {CASCADE}
    /\ requested' = requested \cup {line}
    /\ IF line = 0 /\ Sleeping
       THEN lag < MaxLag /\ lag' = lag + 1
       ELSE lag' = lag
    /\ UNCHANGED <<thread, intr, masked, inService, gates, func, handling,
                   ticks, passed, index>>

Passes(line) ==
    /\ line \in requested \ masked
    /\ line >= 8 => CASCADE \notin masked
    /\ \A other \in inService : line < other

Interrupt(line) ==
    /\ intr /\ ThreadRuns
    /\ Passes(line)
    /\ \A other \in Lines : Passes(other) => line <= other
    /\ handler' = line /\ step' = "body"
    /\ intr' = FALSE
    /\ requested' = requested \ {line}
    /\ inService' = inService \cup {line}
    /\ UNCHANGED <<thread, masked, gates, func, ticks, seen, index>>

AddOne(n) == (n + 1) % TickModulus

(* TimerInterruptHandler; KeyboardInterruptHandler is modelled by Console; *)
(* IRQ8_handler reads register C to let the clock request again.           *)
HandlerBody ==
    /\ handler # NoLine /\ step = "body" /\ step' = "EOI"
    /\ ticks' = IF handler = 0 THEN AddOne(ticks) ELSE ticks
    /\ passed' = IF handler = 0 /\ passed < MaxSleep THEN passed + 1 ELSE passed
    /\ index' = IF handler = 8 THEN REG_C ELSE index
    /\ UNCHANGED <<thread, intr, pic, gates, func, handler, lag>>

PIC_sendEOI_SecondOnly ==
    inService' = IF handler >= 8 THEN inService \ {handler} ELSE inService

PIC_sendEOI == inService' = inService \ {handler}

HandlerEnds ==
    /\ handler # NoLine /\ step = "EOI" /\ step' = "iretq"
    /\ PIC_sendEOI
    /\ UNCHANGED <<thread, intr, masked, requested, gates, func, handler,
                   ticks, seen, index>>

ReturnFromInterrupt ==
    /\ handler # NoLine /\ step = "iretq"
    /\ handler' = NoLine /\ step' = "body"
    /\ intr' = TRUE
    /\ UNCHANGED <<thread, pic, gates, func, ticks, seen, index>>

Handler == HandlerBody \/ HandlerEnds \/ ReturnFromInterrupt

-----------------------------------------------------------------------------
(***************************************************************************)
(* The running kernel: Sleep, and GetTicks step by step.                   *)
(***************************************************************************)
Running(here, next) ==
    /\ ThreadRuns /\ boot = "running"
    /\ pc = here /\ pc' = next
    /\ UNCHANGED <<boot, pic, gates, func, handling, ticks>>

(* Sleep reads the first value; NotRead stands for tick_start not set yet. *)
NotRead == TickModulus

Sleep(n) ==
    /\ Running("idle", "flags")
    /\ ticks_loop' = n /\ t_n' = NotRead
    /\ UNCHANGED <<intr, old_int, tick_start, seen, cmos>>

GetIntFlags ==
    /\ Running("flags", "cli")
    /\ old_int' = intr
    /\ UNCHANGED <<intr, tick_start, t_n, ticks_loop, seen, cmos>>

DisableInterrupts ==
    /\ Running("cli", "read")
    /\ intr' = FALSE
    /\ UNCHANGED <<sleep, seen, cmos>>

ElapsedTicks_Swapped(now) == (tick_start - now) % TickModulus

ElapsedTicks_NotModular(now) == IF now < tick_start THEN 0 ELSE now - tick_start

ElapsedTicks(now) == (now - tick_start) % TickModulus

ReadTicks ==
    /\ Running("read", "restore")
    /\ IF t_n = NotRead
       THEN tick_start' = ticks /\ t_n' = 0 /\ passed' = 0
       ELSE t_n' = ElapsedTicks(ticks) /\ UNCHANGED <<tick_start, passed>>
    /\ lag' = IF 0 \in requested THEN 1 ELSE 0
    /\ UNCHANGED <<intr, old_int, ticks_loop, cmos>>

SetInt ==
    /\ Running("restore", "sti")
    /\ intr' = old_int
    /\ UNCHANGED <<sleep, seen, cmos>>

GetTicksEnables ==
    /\ Running("sti", "compare")
    /\ intr' = TRUE
    /\ UNCHANGED <<sleep, seen, cmos>>

SleepAgain ==
    /\ t_n < ticks_loop
    /\ Running("compare", "flags")
    /\ UNCHANGED <<intr, sleep, seen, cmos>>

SleepReturns ==
    /\ t_n >= ticks_loop
    /\ Running("compare", "idle")
    /\ UNCHANGED <<intr, sleep, seen, cmos>>

(***************************************************************************)
(* ReadCMOS.                                                               *)
(***************************************************************************)
SelectRegister(r) ==
    /\ Running("idle", "select")
    /\ reg' = r
    /\ UNCHANGED <<intr, sleep, seen, index>>

ReadCMOS ==
    /\ \/ Running("select", "input") /\ index' = reg
       \/ Running("input", "idle") /\ UNCHANGED index
    /\ UNCHANGED <<intr, sleep, seen, reg>>

Kernel ==
    \/ GetIntFlags \/ DisableInterrupts \/ ReadTicks \/ SetInt
    \/ GetTicksEnables \/ SleepAgain \/ SleepReturns \/ ReadCMOS

Next ==
    \/ Boot \/ Handler \/ Kernel
    \/ \E n \in 0 .. MaxSleep : Sleep(n)
    \/ \E r \in RTC_REGISTERS : SelectRegister(r)
    \/ \E line \in Lines : DeviceRequests(line) \/ Interrupt(line)

(* The processor goes on; it takes the request of the timer, the line of   *)
(* the highest priority, some time while the flag is set; the timer goes   *)
(* on requesting; and the devices leave the kernel time for an instruction *)
(* between two interrupts now and then.                                    *)
Fairness ==
    /\ WF_vars(Boot) /\ WF_vars(Handler)
    /\ SF_vars(Kernel)
    /\ SF_vars(Interrupt(0))
    /\ WF_vars(DeviceRequests(0))

Spec == Init /\ [][Next]_vars /\ Fairness

-----------------------------------------------------------------------------
(***************************************************************************)
(* Properties.                                                             *)
(***************************************************************************)

(* No interrupt is taken before it can be handled: its gate is in the IDT, *)
(* and a key finds a subscriber, because interrupts stay disabled through  *)
(* all of the initialisation, the functions that save and restore the flag *)
(* included.                                                               *)
HandlersAreReady ==
    handler # NoLine =>
        handler \in gates /\ (handler = 1 => func # NULL)

(* ReadCMOS reads the register it has selected, although the handler of    *)
(* the clock selects another one: that handler never runs, because the     *)
(* line of the second controller stays masked.                             *)
ReadsSelectedRegister == pc = "input" => index = reg

(* Sleep does not return before as many ticks have been counted as it was  *)
(* asked for, also when the counter starts again at 0.                     *)
SleepsLongEnough == pc = "compare" /\ t_n >= ticks_loop => passed >= ticks_loop

(* Every Sleep returns: GetTicks leaves interrupts enabled and every       *)
(* handler tells its controller that it has ended.                         *)
SleepComesBack == (pc = "flags") ~> (pc = "idle")

(* Nothing is left in service when no handler runs, or the line, and all   *)
(* of lower priority, would be silent from then on.                        *)
NothingLeftInService == ThreadRuns => inService = {}
=============================================================================
