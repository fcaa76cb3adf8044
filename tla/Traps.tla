------------------------------- MODULE Traps --------------------------------
(***************************************************************************)
(* The way into a handler and back (the stubs __IRQ0 to __ERQ14 of         *)
(* kernel/__init.asm, the ERQ handlers of kernel/interrupt.c): the         *)
(* processor pushes a frame, for some exceptions with an error code; the   *)
(* stub pushes seven registers; the handler, compiled C, may change every  *)
(* register that its calling convention leaves to it, and the four words   *)
(* above its return address, which the convention leaves to it as well: the*)
(* stubs reserve none and have saved registers there.  Then the stub pops  *)
(* the seven and returns with iretq.  The handlers of a division by zero   *)
(* and of a page fault do not return: they print the frame and halt.       *)
(*                                                                         *)
(* Interrupts goes into what the IRQ handlers do; here only the registers  *)
(* and the stack matter.  The gates are interrupt gates: nothing comes     *)
(* between.  A page fault is what the tables of Paging make one.           *)
(***************************************************************************)
EXTENDS Paging, Sequences, SequencesExt

VARIABLES
    at,        \* "thread", a step of a stub, "halted" or "astray"
    vector,    \* the exception or interrupt that is handled
    regs,      \* whose value is in a register
    stack,     \* what was pushed since the thread was interrupted
    shown      \* the frame that PrintTrapFrame printed

trapVars == <<at, vector, regs, stack, shown>>
machineVars == <<loaderVars, pagingVars, trapVars>>

(* ERQ n is exception n; vector 32 + n is IRQ n.                           *)
DIVIDE == 0
BOUND == 5
DOUBLE_FAULT == 8
PAGE_FAULT == 14
IRQS == 32 .. 41
WithErrorCode == {DOUBLE_FAULT, PAGE_FAULT}

Pushed == <<"rax", "rcx", "rdx", "rbx", "rbp", "rsi", "rdi">>

(* Registers that a C function need not preserve (Microsoft's convention); *)
(* r8 stands for r8 to r11, which nobody pushes.                           *)
Scratch == {"rax", "rcx", "rdx", "r8"}
Registers == ToSet(Pushed) \cup Scratch

(* The same convention has a caller leave four words above the return      *)
(* address to the function it calls: here the last four that are pushed.   *)
HOME_WORDS == 4
HomeRegisters == {"rbx", "rbp", "rsi", "rdi"}

OfThread == [r \in Registers |-> r]      \* the value that r has in the thread
NoFrame == <<>>

TrapsInit ==
    /\ at = "thread" /\ vector = DIVIDE
    /\ regs = OfThread
    /\ stack = <<>>
    /\ shown = NoFrame

MachineInit == LoaderInit /\ PagingInit /\ TrapsInit

-----------------------------------------------------------------------------
(* What the processor does.                                                *)
FrameOf(v) ==
    <<<<"ss", "thread">>, <<"rsp", "thread">>, <<"rflags", "thread">>,
      <<"cs", "thread">>, <<"rip", "thread">>>>
    \o (IF v \in WithErrorCode THEN <<<<"error", "code">>>> ELSE <<>>)

Raise(v) ==
    /\ paging = "on" /\ at = "thread"
    /\ at' = "stub" /\ vector' = v
    /\ stack' = FrameOf(v)
    /\ regs' = OfThread
    /\ UNCHANGED shown

InterruptRequest == \E v \in IRQS : Raise(v)
DivideByZero == Raise(DIVIDE)
BoundRangeExceeded == Raise(BOUND)
DoubleFault == Raise(DOUBLE_FAULT)      \* an exception without a gate

(* The thread touches page v.                                              *)
PageFault(v) == Translate(v) = Fault /\ Raise(PAGE_FAULT)

-----------------------------------------------------------------------------
(***************************************************************************)
(* The stub and the handler.                                               *)
(***************************************************************************)
pushaq ==
    /\ at = "stub"
    /\ at' = "handler"
    /\ stack' = stack \o [i \in 1 .. Len(Pushed) |->
                            <<Pushed[i], regs[Pushed[i]]>>]
    /\ UNCHANGED <<vector, regs, shown>>

(* The handlers that return: IRQ0 to IRQ9, ERQ5 and ERQ8.  Which registers *)
(* and which of the four words they change is up to the compiler.          *)
HandlerReturns ==
    /\ at = "handler" /\ vector \notin {DIVIDE, PAGE_FAULT}
    /\ at' = "return"
    /\ \E changed \in SUBSET Scratch :
          regs' = [r \in Registers |->
                     IF r \in changed THEN "handler" ELSE regs[r]]
    /\ \E changed \in SUBSET (Len(stack) - HOME_WORDS + 1 .. Len(stack)) :
          stack' = [k \in 1 .. Len(stack) |->
                      IF k \in changed THEN <<stack[k][1], "handler">>
                      ELSE stack[k]]
    /\ UNCHANGED <<vector, shown>>

(* __trap_esp adds 0x80 to its own stack pointer, the handler 8 or 16 more:*)
(* counted in words of 8 bytes, over the return address of __trap_esp, the *)
(* 72 bytes that the compiler gives each of the two handlers (they begin   *)
(* with sub rsp, 48h in kernel/x64/Release/interrupt.obj, the build in the *)
(* repository), and the return address into the stub.  Another build may   *)
(* give them more or less; the source has no way to know.                  *)
HandlerFrame == 9
TrapFrame ==
    Len(stack) + 2 + HandlerFrame
      - (16 + (IF vector \in WithErrorCode THEN 2 ELSE 1))

(* The fields of the frame, from error up to ss, in the order of pushing    *)
(* them backwards.                                                         *)
TRAP_FRAME(s, t) == [i \in 1 .. 6 |-> s[t + 1 - i]]

(* ERQ0_handler writes 0 as the error code that its exception has not.     *)
HandlerHalts ==
    LET t == TrapFrame
        s == IF vector = DIVIDE THEN [stack EXCEPT ![t] = <<"error", "code">>]
             ELSE stack
    IN  /\ at = "handler" /\ vector \in {DIVIDE, PAGE_FAULT}
        /\ at' = "halted"
        /\ stack' = s
        /\ shown' = TRAP_FRAME(s, t)
        /\ UNCHANGED <<vector, regs>>

popaq_OtherOrder ==
    LET n == Len(stack) - Len(Pushed)
    IN  /\ at = "return"
        /\ at' = "iretq"
        /\ regs' = [r \in Registers |->
              IF r \in ToSet(Pushed)
              THEN stack[n + 8 - CHOOSE i \in 1 .. 7 : Pushed[i] = r][2]
              ELSE regs[r]]
        /\ stack' = SubSeq(stack, 1, n)
        /\ UNCHANGED <<vector, shown>>

popaq ==
    LET n == Len(stack) - Len(Pushed)
    IN  /\ at = "return"
        /\ at' = "iretq"
        /\ regs' = [r \in Registers |->
              IF \E i \in 1 .. Len(Pushed) : Pushed[i] = r
              THEN stack[n + CHOOSE i \in 1 .. Len(Pushed) : Pushed[i] = r][2]
              ELSE regs[r]]
        /\ stack' = SubSeq(stack, 1, n)
        /\ UNCHANGED <<vector, shown>>

(* The stubs leave an error code on the stack: iretq takes it for rip.     *)
iretq ==
    /\ at = "iretq"
    /\ at' = IF Last(stack)[1] = "rip" THEN "thread" ELSE "astray"
    /\ stack' = <<>>
    /\ UNCHANGED <<vector, regs, shown>>

TrapsNext ==
    /\ \/ InterruptRequest \/ DivideByZero \/ BoundRangeExceeded \/ DoubleFault
       \/ \E v \in 0 .. PT_SIZE * PT_SIZE - 1 : PageFault(v)
       \/ pushaq \/ HandlerReturns \/ HandlerHalts \/ popaq \/ iretq
    /\ UNCHANGED <<loaderVars, pagingVars>>

MachineNext ==
    \/ LoaderNext /\ UNCHANGED <<pagingVars, trapVars>>
    \/ PagingNext /\ UNCHANGED trapVars
    \/ TrapsNext

MachineSpec == MachineInit /\ [][MachineNext]_machineVars

-----------------------------------------------------------------------------
(***************************************************************************)
(* Properties.                                                             *)
(***************************************************************************)

(* What the stubs guarantee whatever the compiler does: a handler that     *)
(* returns gives the thread back rax, rcx and rdx and the address it was   *)
(* interrupted at, and never one register in another; only a double fault, *)
(* whose error code nobody takes off, leads astray.  rbx, rbp, rsi and rdi *)
(* come back only if the handler leaves its home area alone, and r8 to r11 *)
(* only if it does not use them: nobody saves these.                       *)
ResumesAsItWas ==
    /\ at = "thread" =>
           \A r \in ToSet(Pushed) :
               regs[r] = r \/ (r \in HomeRegisters /\ regs[r] = "handler")
    /\ at = "astray" => vector = DOUBLE_FAULT

(* What the handlers of a division by zero and of a page fault print, as   *)
(* they are compiled in the repository's build, is the frame the processor *)
(* pushed, from error to ss, and the frame of a page fault has the         *)
(* processor's error code.                                                 *)
ShownIsTheFrame ==
    shown # NoFrame =>
        [i \in 1 .. 6 |-> shown[i][1]]
          = <<"error", "rip", "cs", "rflags", "rsp", "ss">>

TrapsComeBack == ResumesAsItWas /\ ShownIsTheFrame
=============================================================================
