-------------------------- MODULE InterruptsProofs --------------------------
(***************************************************************************)
(* Proofs about interrupts: what their handlers do (Interrupts), and the   *)
(* way from the floppy into the kernel and through its stubs (BootLoader,  *)
(* Paging and Traps, one specification).                                   *)
(*                                                                         *)
(* For every modulus of the counter and every bound: no interrupt is taken *)
(* before its handler is ready, none is left in service, ReadCMOS reads    *)
(* the register it has selected, and Sleep sleeps long enough.             *)
(*                                                                         *)
(* Ready is the order of KernelMain: how far it has come says which tables *)
(* are set up, and interrupts are disabled until the last call.  Serviced  *)
(* says what is in service at each step of a handler.  CascadeMasked is    *)
(* why the handler of the clock never runs, and so never selects another   *)
(* register.  SleepCounted is about the ticks that Sleep has not seen yet. *)
(*                                                                         *)
(* For kernels of every size the loader is made for, tables of any size    *)
(* and every exception and interrupt: each of the loader, the tables and   *)
(* the stubs keeps its own invariant, and leaves what the other two have   *)
(* alone.                                                                  *)
(***************************************************************************)
EXTENDS Interrupts, Traps, SequenceTheorems, TLAPS

Ready ==
    /\ boot \in BOOT
    /\ boot # "running" => handler = NoLine /\ intr = FALSE /\ pc = "idle"
    /\ boot \notin {"PIC_remap", "InitIDT"} => gates = Lines
    /\ boot \in {"sti", "running"} => func = "function"

Serviced ==
    /\ handler \in Lines \cup {NoLine}
    /\ step \in {"body", "EOI", "iretq"}
    /\ handler = NoLine => inService = {}
    /\ handler # NoLine =>
         inService = IF step = "iretq" THEN {} ELSE {handler}

CascadeMasked ==
    /\ boot # "PIC_remap" => CASCADE \in masked
    /\ handler # 8

IInv == Ready /\ Serviced /\ CascadeMasked /\ ReadsSelectedRegister

(* ASMEntryPoint leaves interrupts disabled and no handler running.        *)
LEMMA InitIInv == Init => IInv
  BY DEF Init, IInv, Ready, Serviced, CascadeMasked, ReadsSelectedRegister,
         BOOT, NoLine, Lines

(* Clearing the mask of another line keeps that of the cascade.            *)
LEMMA ClearMaskKeepsCascade ==
  ASSUME CASCADE \in masked,
         IRQ_clear_mask(0) \/ IRQ_clear_mask(1) \/ IRQ_clear_mask(8)
  PROVE  CASCADE \in masked'
<1>1. CASCADE \notin {0} /\ CASCADE \notin {1} /\ CASCADE \notin {8}
  BY DEF CASCADE
<1> QED
  BY <1>1, Zenon DEF IRQ_clear_mask

(* A call of KernelMain: only the boot sequence and its tables change.     *)
LEMMA BootKeeps ==
  ASSUME IInv, Boot
  PROVE  IInv'
<1> USE DEF IInv, Ready, Serviced, CascadeMasked, ReadsSelectedRegister, BOOT,
            Call, ThreadRuns, NoLine, Lines, CASCADE, NULL, thread, pic, handling,
            sleep, cmos, seen
<1>1. CASE PIC_remap
  BY <1>1 DEF PIC_remap
<1>2. CASE InitIDT
  BY <1>2 DEF InitIDT
<1>3. CASE TimerInit
  BY <1>3 DEF TimerInit, PitConfigureChannel
<1>4. CASE RTCInit
  BY <1>4 DEF RTCInit
<1>5. CASE KeyboardInit
  BY <1>5 DEF KeyboardInit
<1>6. CASE ClearMasks
  <2>1. CASCADE \in masked'
    <3>1. CASCADE \in masked
      <4>1. boot # "PIC_remap"
        BY <1>6 DEF ClearMasks
      <4> QED
        BY <4>1, Zenon
    <3>2. IRQ_clear_mask(0) \/ IRQ_clear_mask(1) \/ IRQ_clear_mask(8)
      BY <1>6, Zenon DEF ClearMasks
    <3> QED
      BY <3>1, <3>2, ClearMaskKeepsCascade
  <2>2. /\ boot' \in {"clear 1", "clear 8", "InitConsole"}
        /\ boot \notin {"PIC_remap", "InitIDT", "running"}
    BY <1>6 DEF ClearMasks
  <2>3. UNCHANGED <<intr, inService, gates, func, index, handler, step, pc, reg>>
    BY <1>6 DEF ClearMasks
  <2> QED
    BY <2>1, <2>2, <2>3
<1>7. CASE InitConsole
  BY <1>7 DEF InitConsole
<1>8. CASE EnableInterrupts
  BY <1>8 DEF EnableInterrupts
<1> QED
  BY <1>1, <1>2, <1>3, <1>4, <1>5, <1>6, <1>7, <1>8 DEF Boot

(* A handler, and the interrupt that begins one.                           *)
LEMMA HandlerKeeps ==
  ASSUME IInv, Handler
  PROVE  IInv'
<1> USE DEF IInv, Ready, Serviced, CascadeMasked, ReadsSelectedRegister,
            NoLine, Lines, thread, pic, sleep, seen
<1>1. CASE HandlerBody
  BY <1>1 DEF HandlerBody
<1>2. CASE HandlerEnds
  BY <1>2 DEF HandlerEnds, PIC_sendEOI
<1>3. CASE ReturnFromInterrupt
  BY <1>3 DEF ReturnFromInterrupt
<1> QED
  BY <1>1, <1>2, <1>3 DEF Handler

(* An interrupt is taken with the flag set, so KernelMain is done.         *)
LEMMA InterruptKeeps ==
  ASSUME IInv, NEW line \in Lines, Interrupt(line)
  PROVE  IInv'
  BY DEF IInv, Ready, Serviced, CascadeMasked, ReadsSelectedRegister, Interrupt,
         Passes, ThreadRuns, NoLine, Lines, CASCADE, thread, sleep, seen

(* A request alone changes nothing that the kernel relies on.              *)
LEMMA DeviceKeeps ==
  ASSUME IInv, NEW line \in Lines, DeviceRequests(line)
  PROVE  IInv'
  BY DEF IInv, Ready, Serviced, CascadeMasked, ReadsSelectedRegister,
         DeviceRequests, thread, handling, sleep

(* A step of the running kernel: the tables and the controllers stay.      *)
LEMMA RunningKeeps ==
  ASSUME IInv,
         \/ Kernel
         \/ \E n \in 0 .. MaxSleep : Sleep(n)
         \/ \E r \in RTC_REGISTERS : SelectRegister(r)
  PROVE  IInv'
<1> USE DEF IInv, Ready, Serviced, CascadeMasked, ReadsSelectedRegister, Running,
            pic, handling, sleep, cmos, seen
<1>1. CASE GetIntFlags
  BY <1>1 DEF GetIntFlags
<1>2. CASE DisableInterrupts
  BY <1>2 DEF DisableInterrupts
<1>3. CASE ReadTicks
  BY <1>3 DEF ReadTicks
<1>4. CASE SetInt
  BY <1>4 DEF SetInt
<1>5. CASE GetTicksEnables
  BY <1>5 DEF GetTicksEnables
<1>6. CASE SleepAgain
  BY <1>6 DEF SleepAgain
<1>7. CASE SleepReturns
  BY <1>7 DEF SleepReturns
<1>8. CASE ReadCMOS
  BY <1>8 DEF ReadCMOS
<1>9. CASE \E n \in 0 .. MaxSleep : Sleep(n)
  BY <1>9 DEF Sleep
<1>10. CASE \E r \in RTC_REGISTERS : SelectRegister(r)
  BY <1>10 DEF SelectRegister
<1> QED
  BY <1>1, <1>2, <1>3, <1>4, <1>5, <1>6, <1>7, <1>8, <1>9, <1>10 DEF Kernel

(* The invariant holds in every reachable state.                           *)
LEMMA IInvHolds == Spec => []IInv
<1>1. IInv /\ [Next]_vars => IInv'
  <2> SUFFICES ASSUME IInv, [Next]_vars PROVE IInv'
    OBVIOUS
  <2>1. CASE UNCHANGED vars
    BY <2>1 DEF IInv, Ready, Serviced, CascadeMasked, ReadsSelectedRegister, vars,
                thread, pic, handling, sleep, seen
  <2>2. CASE Next
    BY <2>2, BootKeeps, HandlerKeeps, InterruptKeeps, DeviceKeeps, RunningKeeps
       DEF Next
  <2> QED
    BY <2>1, <2>2
<1> QED
  BY <1>1, InitIInv, PTL DEF Spec

(* Whenever a handler runs, its gate is in the IDT, and a key finds a      *)
(* subscriber: KernelMain enables interrupts last, and none of the         *)
(* functions that save and restore the flag enables them before.           *)
THEOREM InterruptsAreHandled == Spec => []HandlersAreReady
<1>1. IInv => HandlersAreReady
  BY DEF IInv, Ready, Serviced, HandlersAreReady, NULL, NoLine
<1> QED
  BY <1>1, IInvHolds, PTL

(* No line is left in service when no handler runs.                        *)
THEOREM EveryHandlerEnds == Spec => []NothingLeftInService
<1>1. IInv => NothingLeftInService
  BY DEF IInv, Serviced, NothingLeftInService, ThreadRuns
<1> QED
  BY <1>1, IInvHolds, PTL

(* ReadCMOS reads the register it has selected, whatever interrupts come   *)
(* between its two steps.                                                  *)
THEOREM CMOSIsNotDisturbed == Spec => []ReadsSelectedRegister
<1>1. IInv => ReadsSelectedRegister
  BY DEF IInv
<1> QED
  BY <1>1, IInvHolds, PTL

-----------------------------------------------------------------------------
(***************************************************************************)
(* Sleep.  Between two readings of the counter some ticks have been        *)
(* counted and some are still to come: the line of the timer is requested, *)
(* or its handler has not yet got to its body.                             *)
(***************************************************************************)
Pending ==
    (IF 0 \in requested THEN 1 ELSE 0)
      + (IF handler = 0 /\ step = "body" THEN 1 ELSE 0)

(* Ticks counted since Sleep last read the counter.                        *)
Since == lag - Pending

SleepTypeOK ==
    /\ ticks \in 0 .. TickModulus - 1 /\ tick_start \in 0 .. TickModulus - 1
    /\ t_n \in 0 .. TickModulus /\ ticks_loop \in 0 .. MaxSleep
    /\ passed \in 0 .. MaxSleep /\ lag \in 0 .. MaxLag

(* A sleep that goes on has not slept long enough, so few enough ticks     *)
(* pass before the next reading that the counter cannot have gone all the  *)
(* way round: the two values it read still tell how many have passed.      *)
SleepCounted ==
    /\ pc \in {"flags", "cli", "read"} => t_n = NotRead \/ t_n < ticks_loop
    /\ pc \in {"restore", "sti", "compare"} => t_n < MaxSleep + MaxLag
    /\ Sleeping /\ t_n # NotRead =>
         /\ Since >= 0
         /\ t_n < ticks_loop =>
              tick_start + t_n + Since \in {ticks, ticks + TickModulus}
         /\ passed >= MaxSleep \/ passed >= t_n + Since

SInv == IInv /\ SleepTypeOK /\ SleepCounted

(* Arithmetic of a counter that starts again at 0.                         *)
LEMMA AddOneIs ==
  ASSUME NEW n \in 0 .. TickModulus - 1
  PROVE  AddOne(n) = IF n = TickModulus - 1 THEN 0 ELSE n + 1
<1>1. TickModulus \in Nat /\ TickModulus > 0
  BY InterruptsAssumption
<1>2. CASE n = TickModulus - 1
  BY <1>1, <1>2 DEF AddOne
<1>3. CASE n # TickModulus - 1
  BY <1>1, <1>3 DEF AddOne
<1> QED
  BY <1>2, <1>3

(* The difference modulo TickModulus is the number of ticks between.       *)
LEMMA ElapsedTicksIs ==
  ASSUME tick_start \in 0 .. TickModulus - 1,
         NEW now \in 0 .. TickModulus - 1,
         NEW elapsed \in 0 .. TickModulus - 1,
         tick_start + elapsed \in {now, now + TickModulus}
  PROVE  ElapsedTicks(now) = elapsed
<1>1. TickModulus \in Nat /\ TickModulus > 0
  BY InterruptsAssumption
<1>2. CASE tick_start + elapsed = now
  <2>1. now - tick_start = elapsed
    BY <1>1, <1>2
  <2>2. elapsed % TickModulus = elapsed
    BY <1>1
  <2> QED
    BY <2>1, <2>2 DEF ElapsedTicks
<1>3. CASE tick_start + elapsed = now + TickModulus
  <2>1. now - tick_start = elapsed - TickModulus
    BY <1>1, <1>3
  <2>2. (elapsed - TickModulus) % TickModulus = elapsed
    BY <1>1
  <2> QED
    BY <2>1, <2>2 DEF ElapsedTicks
<1> QED
  BY <1>2, <1>3

(* A step that neither counts nor reads, and keeps the thread where it is. *)
LEMMA SameCountKeepsSleep ==
  ASSUME SInv, UNCHANGED <<pc, sleep, ticks, passed, lag>>, Pending' = Pending
  PROVE  SleepTypeOK' /\ SleepCounted'
  BY DEF SInv, SleepTypeOK, SleepCounted, Since, Sleeping, NotRead, sleep

(* Nobody sleeps before KernelMain is done.                                *)
LEMMA BootKeepsSleep ==
  ASSUME SInv, Boot
  PROVE  SleepTypeOK' /\ SleepCounted'
<1>1. /\ pc = "idle" /\ UNCHANGED <<pc, sleep, passed, lag>>
  BY DEF SInv, IInv, Ready, Boot, PIC_remap, InitIDT, TimerInit, RTCInit,
         KeyboardInit, ClearMasks, InitConsole, EnableInterrupts, Call, seen,
         sleep
<1>2. ticks' = ticks \/ ticks' = 0
  BY DEF Boot, PIC_remap, InitIDT, TimerInit, RTCInit, KeyboardInit, ClearMasks,
         InitConsole, EnableInterrupts
<1>3. 0 \in 0 .. TickModulus - 1
  BY InterruptsAssumption
<1> QED
  BY <1>1, <1>2, <1>3 DEF SInv, SleepTypeOK, SleepCounted, Sleeping, sleep

(* The handler of the timer counts one of the ticks that were to come.     *)
LEMMA HandlerKeepsSleep ==
  ASSUME SInv, Handler
  PROVE  SleepTypeOK' /\ SleepCounted'
<1>1. CASE HandlerBody /\ handler # 0
  <2>1. UNCHANGED <<pc, sleep, ticks, passed, lag, handler, requested>>
    BY <1>1 DEF HandlerBody, thread, pic
  <2>2. Pending' = Pending
    BY <1>1, <2>1 DEF Pending
  <2> QED
    BY <2>1, <2>2, SameCountKeepsSleep
<1>2. CASE HandlerBody /\ handler = 0
  <2>1. /\ UNCHANGED <<pc, sleep, lag, handler, requested>>
        /\ step = "body" /\ step' = "EOI"
        /\ ticks' = AddOne(ticks)
        /\ passed' = IF passed < MaxSleep THEN passed + 1 ELSE passed
    BY <1>2 DEF HandlerBody, thread, pic
  <2>2. Pending' = Pending - 1 /\ Pending \in Nat /\ Pending >= 1
    BY <1>2, <2>1 DEF Pending
  <2>3. ticks' = IF ticks = TickModulus - 1 THEN 0 ELSE ticks + 1
    BY <2>1, AddOneIs DEF SInv, SleepTypeOK
  <2>4. SleepTypeOK'
    BY <2>1, <2>3, InterruptsAssumption DEF SInv, SleepTypeOK, sleep
  <2>5. Since' = Since + 1 /\ Since \in Int
    BY <2>1, <2>2 DEF Since, SInv, SleepTypeOK
  <2>6. SleepCounted'
    <3>1. ASSUME Sleeping, t_n # NotRead
          PROVE  /\ Since' >= 0
                 /\ t_n < ticks_loop =>
                      tick_start + t_n + Since' \in {ticks', ticks' + TickModulus}
                 /\ passed' >= MaxSleep \/ passed' >= t_n + Since'
      <4>1. /\ Since >= 0
            /\ t_n < ticks_loop =>
                 tick_start + t_n + Since \in {ticks, ticks + TickModulus}
            /\ passed >= MaxSleep \/ passed >= t_n + Since
        BY <3>1 DEF SInv, SleepCounted
      <4>2. /\ t_n \in Nat /\ passed \in Nat /\ MaxSleep \in Nat
            /\ ticks_loop \in 0 .. MaxSleep
            /\ tick_start \in 0 .. TickModulus - 1
            /\ ticks \in 0 .. TickModulus - 1 /\ TickModulus \in Nat
            /\ MaxLag \in Nat /\ MaxSleep + MaxLag < TickModulus
        BY InterruptsAssumption DEF SInv, SleepTypeOK
      <4>3. Since + 1 <= MaxLag
        BY <2>2, <4>2 DEF Since, SInv, SleepTypeOK
      <4>4. t_n < ticks_loop =>
              tick_start + t_n + (Since + 1) \in {ticks', ticks' + TickModulus}
        BY <2>3, <2>5, <4>1, <4>2, <4>3
      <4>5. passed' >= MaxSleep \/ passed' >= t_n + (Since + 1)
        BY <2>1, <2>5, <4>1, <4>2
      <4> QED
        BY <2>5, <4>1, <4>4, <4>5
    <3> QED
      BY <2>1, <3>1 DEF SInv, SleepCounted, Sleeping, NotRead, sleep
  <2> QED
    BY <2>4, <2>6
<1>3. CASE HandlerEnds
  <2>1. UNCHANGED <<pc, sleep, ticks, passed, lag, handler, requested>>
        /\ step = "EOI" /\ step' = "iretq"
    BY <1>3 DEF HandlerEnds, thread, pic, seen
  <2>2. Pending' = Pending
    BY <2>1 DEF Pending
  <2> QED
    BY <2>1, <2>2, SameCountKeepsSleep
<1>4. CASE ReturnFromInterrupt
  <2>1. UNCHANGED <<pc, sleep, ticks, passed, lag, requested>>
        /\ step = "iretq" /\ handler' = NoLine
    BY <1>4 DEF ReturnFromInterrupt, thread, pic, seen
  <2>2. Pending' = Pending
    BY <2>1 DEF Pending, NoLine
  <2> QED
    BY <2>1, <2>2, SameCountKeepsSleep
<1> QED
  BY <1>1, <1>2, <1>3, <1>4 DEF Handler


(* The request of the timer becomes the handler that will count it.        *)
LEMMA InterruptKeepsSleep ==
  ASSUME SInv, NEW line \in Lines, Interrupt(line)
  PROVE  SleepTypeOK' /\ SleepCounted'
<1>1. /\ UNCHANGED <<pc, sleep, ticks, passed, lag>>
      /\ handler = NoLine /\ handler' = line /\ step' = "body"
      /\ requested' = requested \ {line} /\ line \in requested
  BY DEF Interrupt, Passes, ThreadRuns, thread, seen
<1>2. CASE line = 0
  <2>1. Pending' = Pending
    BY <1>1, <1>2 DEF Pending, NoLine
  <2> QED
    BY <1>1, <2>1, SameCountKeepsSleep
<1>3. CASE line # 0
  <2>1. 0 \in requested' <=> 0 \in requested
    BY <1>1, <1>3
  <2>2. Pending' = Pending
    BY <1>1, <1>3, <2>1 DEF Pending, NoLine
  <2> QED
    BY <1>1, <2>2, SameCountKeepsSleep
<1> QED
  BY <1>2, <1>3

(* A tick that comes while Sleep waits adds to the lag.                    *)
LEMMA DeviceKeepsSleep ==
  ASSUME SInv, NEW line \in Lines, DeviceRequests(line)
  PROVE  SleepTypeOK' /\ SleepCounted'
<1>1. /\ UNCHANGED <<pc, sleep, ticks, passed, handler, step>>
      /\ requested' = requested \cup {line} /\ line \notin requested
  BY DEF DeviceRequests, thread, handling
<1>2. CASE line # 0
  <2>1. 0 \in requested' <=> 0 \in requested
    BY <1>1, <1>2
  <2>2. Pending' = Pending /\ lag' = lag
    BY <1>1, <1>2, <2>1 DEF Pending, DeviceRequests
  <2> QED
    BY <1>1, <2>2, SameCountKeepsSleep
<1>3. CASE line = 0 /\ Sleeping
  <2>1. Pending' = Pending + 1 /\ Pending \in Nat
    BY <1>1, <1>3 DEF Pending
  <2>2. lag < MaxLag /\ lag' = lag + 1
    BY <1>3 DEF DeviceRequests
  <2>3. Since' = Since
    BY <2>1, <2>2 DEF Since, SInv, SleepTypeOK
  <2>4. SleepTypeOK'
    BY <1>1, <2>2, InterruptsAssumption DEF SInv, SleepTypeOK, sleep
  <2>5. SleepCounted'
    BY <1>1, <2>3 DEF SInv, SleepCounted, Sleeping, NotRead, sleep
  <2> QED
    BY <2>4, <2>5
<1>4. CASE line = 0 /\ ~Sleeping
  <2>1. lag' = lag
    BY <1>4 DEF DeviceRequests
  <2> QED
    BY <1>1, <1>4, <2>1
       DEF SInv, SleepTypeOK, SleepCounted, Sleeping, sleep
<1> QED
  BY <1>2, <1>3, <1>4

(* The reading that Sleep makes tells how many ticks have passed.          *)
LEMMA ReadTicksKeepsSleep ==
  ASSUME SInv, ReadTicks
  PROVE  SleepTypeOK' /\ SleepCounted'
<1>1. /\ pc = "read" /\ pc' = "restore" /\ handler = NoLine
      /\ UNCHANGED <<ticks_loop, ticks, requested, handler, step>>
      /\ lag' = IF 0 \in requested THEN 1 ELSE 0
  BY DEF ReadTicks, Running, ThreadRuns, pic, handling
<1>2. Pending' = lag' /\ lag' \in {0, 1} /\ Pending \in Nat
  <2>1. ~(handler = 0) /\ ~(handler' = 0)
    BY <1>1 DEF NoLine
  <2>2. Pending = (IF 0 \in requested THEN 1 ELSE 0) + 0
    BY <2>1 DEF Pending
  <2>3. Pending' = (IF 0 \in requested THEN 1 ELSE 0) + 0
    BY <1>1, <2>1 DEF Pending
  <2> QED
    BY <1>1, <2>2, <2>3
<1>3. Since' = 0 /\ lag' \in 0 .. MaxLag
  <2>1. Since' = lag' - Pending'
    BY DEF Since
  <2>2. Since' = 0
    <3>1. \A k \in Int : k - k = 0
      OBVIOUS
    <3>2. lag' \in Int
      BY <1>2
    <3> QED
      BY <1>2, <2>1, <3>1, <3>2
  <2>3. lag' \in 0 .. MaxLag
    BY <1>2, InterruptsAssumption
  <2> QED
    BY <2>2, <2>3
<1>4. /\ MaxSleep \in Nat /\ MaxLag \in Nat /\ TickModulus \in Nat /\ MaxLag > 0
      /\ MaxSleep + MaxLag < TickModulus
      /\ ticks \in 0 .. TickModulus - 1 /\ tick_start \in 0 .. TickModulus - 1
      /\ t_n \in 0 .. TickModulus /\ ticks_loop \in 0 .. MaxSleep
      /\ passed \in 0 .. MaxSleep /\ lag \in 0 .. MaxLag
  BY InterruptsAssumption DEF SInv, SleepTypeOK
<1>5. CASE t_n = NotRead
  <2>1. tick_start' = ticks /\ t_n' = 0 /\ passed' = 0
    BY <1>5 DEF ReadTicks
  <2>2. SleepTypeOK'
    BY <1>1, <1>3, <1>4, <2>1 DEF SleepTypeOK
  <2>3. SleepCounted'
    BY <1>1, <1>3, <1>4, <2>1 DEF SleepCounted
  <2> QED
    BY <2>2, <2>3
<1>6. CASE t_n # NotRead
  <2>1. /\ t_n < ticks_loop /\ Since >= 0
        /\ tick_start + t_n + Since \in {ticks, ticks + TickModulus}
        /\ passed >= MaxSleep \/ passed >= t_n + Since
    BY <1>1, <1>6 DEF SInv, SleepCounted, Sleeping
  <2>2. PICK elapsed \in Int : elapsed = t_n + Since
    BY <1>2, <1>4 DEF Since
  <2>3. Since <= MaxLag /\ Since \in Int
    BY <1>2, <1>4 DEF Since
  <2>4. elapsed \in 0 .. TickModulus - 1 /\ elapsed < MaxSleep + MaxLag
    BY <1>4, <2>1, <2>2, <2>3
  <2>5. tick_start + elapsed \in {ticks, ticks + TickModulus}
    BY <1>4, <2>1, <2>2, <2>3
  <2>6. ElapsedTicks(ticks) = elapsed
    BY <1>4, <2>4, <2>5, ElapsedTicksIs
  <2>7. t_n' = elapsed /\ tick_start' = tick_start /\ passed' = passed
    BY <1>6, <2>6 DEF ReadTicks
  <2>8. SleepTypeOK'
    BY <1>1, <1>3, <1>4, <2>4, <2>7 DEF SleepTypeOK
  <2>9. passed >= MaxSleep \/ passed >= elapsed + 0
    BY <1>4, <2>1, <2>2, <2>4
  <2>10. tick_start + elapsed + 0 \in {ticks, ticks + TickModulus}
    BY <1>4, <2>4, <2>5
  <2>11. SleepCounted'
    BY <1>1, <1>3, <1>4, <2>4, <2>7, <2>9, <2>10 DEF SleepCounted
  <2> QED
    BY <2>8, <2>11
<1> QED
  BY <1>5, <1>6

(* The other steps of the kernel: only a sleep that has not slept long     *)
(* enough goes on.                                                         *)
LEMMA RunningKeepsSleep ==
  ASSUME SInv,
         \/ Kernel
         \/ \E n \in 0 .. MaxSleep : Sleep(n)
         \/ \E r \in RTC_REGISTERS : SelectRegister(r)
  PROVE  SleepTypeOK' /\ SleepCounted'
<1>1. ASSUME UNCHANGED <<ticks, tick_start, t_n, ticks_loop, passed, lag,
                         requested, handler, step>>,
             \/ pc = "flags" /\ pc' = "cli"
             \/ pc = "cli" /\ pc' = "read"
             \/ pc = "restore" /\ pc' = "sti"
             \/ pc = "sti" /\ pc' = "compare"
             \/ pc = "compare" /\ pc' = "flags" /\ t_n < ticks_loop
             \/ pc' \in {"idle", "select", "input"}
      PROVE  SleepTypeOK' /\ SleepCounted'
  <2>1. Since' = Since
    BY <1>1 DEF Since, Pending
  <2>2. SleepTypeOK'
    BY <1>1 DEF SInv, SleepTypeOK
  <2>3. SleepCounted'
    BY <1>1, <2>1 DEF SInv, SleepCounted, Sleeping, NotRead
  <2> QED
    BY <2>2, <2>3
<1> USE DEF Running, pic, handling, sleep, cmos, seen
<1>2. CASE GetIntFlags
  BY <1>1, <1>2 DEF GetIntFlags
<1>3. CASE DisableInterrupts
  BY <1>1, <1>3 DEF DisableInterrupts
<1>4. CASE ReadTicks
  BY <1>4, ReadTicksKeepsSleep
<1>5. CASE SetInt
  BY <1>1, <1>5 DEF SetInt
<1>6. CASE GetTicksEnables
  BY <1>1, <1>6 DEF GetTicksEnables
<1>7. CASE SleepAgain
  BY <1>1, <1>7 DEF SleepAgain
<1>8. CASE SleepReturns
  BY <1>1, <1>8 DEF SleepReturns
<1>9. CASE ReadCMOS
  BY <1>1, <1>9 DEF ReadCMOS
<1>10. ASSUME NEW n \in 0 .. MaxSleep, Sleep(n)
       PROVE  SleepTypeOK' /\ SleepCounted'
  <2>1. /\ pc' = "flags" /\ t_n' = NotRead /\ ticks_loop' = n
        /\ UNCHANGED <<ticks, tick_start, passed, lag>>
    BY <1>10 DEF Sleep
  <2>2. NotRead \in 0 .. TickModulus
    BY InterruptsAssumption DEF NotRead
  <2>3. SleepTypeOK'
    BY <2>1, <2>2 DEF SInv, SleepTypeOK
  <2>4. SleepCounted'
    BY <2>1 DEF SleepCounted, NotRead
  <2> QED
    BY <2>3, <2>4
<1>11. ASSUME NEW r \in RTC_REGISTERS, SelectRegister(r)
       PROVE  SleepTypeOK' /\ SleepCounted'
  BY <1>1, <1>11 DEF SelectRegister
<1> QED
  BY <1>2, <1>3, <1>4, <1>5, <1>6, <1>7, <1>8, <1>9, <1>10, <1>11 DEF Kernel

(* Sleep never returns before as many ticks have been counted as it was    *)
(* asked for, although it looks at two values of a counter that starts     *)
(* again at 0, and the timer interrupts it anywhere: the counter is read   *)
(* often enough, once in less than TickModulus - MaxSleep ticks.           *)
THEOREM SleepIsLongEnough == Spec => []SleepsLongEnough
<1>1. Init => SInv
  <2> SUFFICES ASSUME Init PROVE SInv
    OBVIOUS
  <2>1. 0 \in 0 .. TickModulus - 1
    BY InterruptsAssumption
  <2> QED
    BY <2>1, InitIInv, InterruptsAssumption
       DEF Init, SInv, SleepTypeOK, SleepCounted, Sleeping
<1>2. SInv /\ IInv' /\ [Next]_vars => SInv'
  <2> SUFFICES ASSUME SInv, [Next]_vars PROVE SleepTypeOK' /\ SleepCounted'
    BY DEF SInv
  <2>1. CASE UNCHANGED vars
    <3>1. UNCHANGED <<pc, sleep, ticks, passed, lag>>
          /\ UNCHANGED <<requested, handler, step>>
      BY <2>1 DEF vars, thread, seen, pic, handling
    <3>2. Pending' = Pending
      BY <3>1 DEF Pending
    <3> QED
      BY <3>1, <3>2, SameCountKeepsSleep
  <2>2. CASE Next
    BY <2>2, BootKeepsSleep, HandlerKeepsSleep, InterruptKeepsSleep,
       DeviceKeepsSleep, RunningKeepsSleep
       DEF Next
  <2> QED
    BY <2>1, <2>2
<1>3. SInv => SleepsLongEnough
  <2> SUFFICES ASSUME SInv, pc = "compare", t_n >= ticks_loop
               PROVE  passed >= ticks_loop
    BY DEF SleepsLongEnough
  <2>1. /\ MaxSleep \in Nat /\ MaxLag \in Nat /\ TickModulus \in Nat
        /\ MaxSleep + MaxLag < TickModulus
        /\ t_n \in 0 .. TickModulus /\ ticks_loop \in 0 .. MaxSleep
        /\ passed \in 0 .. MaxSleep /\ lag \in 0 .. MaxLag
    BY InterruptsAssumption DEF SInv, SleepTypeOK
  <2>2. t_n < MaxSleep + MaxLag
    BY DEF SInv, SleepCounted
  <2>3. t_n # NotRead
    BY <2>1, <2>2 DEF NotRead
  <2>4. Since >= 0 /\ (passed >= MaxSleep \/ passed >= t_n + Since)
    BY <2>3 DEF SInv, SleepCounted, Sleeping
  <2>5. Since \in Int
    BY <2>1 DEF Since, Pending
  <2> QED
    BY <2>1, <2>4, <2>5
<1> QED
  BY <1>1, <1>2, <1>3, IInvHolds, PTL DEF Spec

-----------------------------------------------------------------------------
(***************************************************************************)
(* The tables.                                                             *)
(***************************************************************************)
Entries == 0 .. PT_SIZE - 1

(* The flags that an entry of the page tables gets.                        *)
Flags(table) == IF table < 3 THEN READ_WRITE_PRESENT ELSE READ_WRITE

TablesTyped ==
    /\ paging \in {"off", "cleared", "filling", "on"}
    /\ filled \in 0 .. 4 * PT_SIZE
    /\ ram \in {0, 1}
    /\ mem \in [TABLES -> [Entries -> [low : Nat, high : {0, 1}]]]
    /\ paging \in {"off", "cleared"} => filled = 0
    /\ paging = "on" => filled = 4 * PT_SIZE

(* Upper halves are 0 where memory was cleared, or was 0 before.           *)
Halves ==
    \A t \in TABLES, i \in Entries :
        ram = 0 \/ (paging # "off" /\ t < 4) => mem[t][i].high = 0

(* The upper tables, before they are linked and after.                     *)
Links ==
    /\ paging = "cleared" => \A i \in Entries : mem[PD][i].low = 0
    /\ paging \in {"filling", "on"} =>
          /\ mem[PML4][0].low = Address(PDP) + READ_WRITE_PRESENT
          /\ mem[PDP][0].low = Address(PD) + READ_WRITE_PRESENT
          /\ \A i \in Entries :
                mem[PD][i].low =
                   IF i < 4 THEN Address(PT(i)) + READ_WRITE_PRESENT ELSE 0

(* The entries written so far, and what eax goes on with.                  *)
Filled ==
    /\ paging = "filling" =>
          eax = filled * PAGE_SIZE
                  + (IF filled = 0 THEN 0
                     ELSE IF filled <= 3 * PT_SIZE THEN READ_WRITE_PRESENT
                     ELSE READ_WRITE)
    /\ \A t \in 0 .. 3, i \in Entries :
          t * PT_SIZE + i < filled =>
             mem[PT(t)][i].low = (t * PT_SIZE + i) * PAGE_SIZE + Flags(t)

PagingInv == TablesTyped /\ Halves /\ Links /\ Filled

-----------------------------------------------------------------------------
(***************************************************************************)
(* Division.                                                               *)
(***************************************************************************)
(* Quotient and remainder are what they are known to be.                   *)
LEMMA Division ==
    ASSUME NEW x \in Nat, NEW d \in Nat \ {0}
    PROVE  \E q \in Nat, r \in Nat :
              q = x \div d /\ r = x % d /\ x = q * d + r /\ r < d
<1>1. PICK q \in Nat : q = x \div d
      OBVIOUS
<1>2. PICK r \in Nat : r = x % d
      OBVIOUS
<1>3. x = q * d + r /\ r < d
      BY <1>1, <1>2
<1> QED BY <1>1, <1>2, <1>3, Zenon

(* There is only one way to divide.                                        *)
LEMMA DivisionIsUnique ==
    ASSUME NEW x \in Nat, NEW d \in Nat \ {0}, NEW q \in Nat, NEW r \in Nat,
           r < d, x = q * d + r
    PROVE  x \div d = q /\ x % d = r
<1>1. PICK q2 \in Nat, r2 \in Nat :
          q2 = x \div d /\ r2 = x % d /\ x = q2 * d + r2 /\ r2 < d
      BY Division, Zenon
<1>2. x = q2 * d + r2 /\ r2 < d
      BY <1>1
<1>3. ASSUME NEW a \in Nat, NEW b \in Nat, NEW k \in Nat, NEW l \in Nat,
             a < b, k < d, a * d + k = b * d + l
      PROVE  FALSE
  <2>1. PICK n \in Nat : b = a + 1 + n
    <3>1. b - a - 1 \in Nat /\ b = a + 1 + (b - a - 1)
          BY <1>3
    <3> QED BY <3>1
  <2>2. b * d = a * d + d + n * d
        BY <2>1
  <2>3. n * d \in Nat
        OBVIOUS
  <2> QED BY <1>3, <2>2, <2>3
<1>4. q2 = q
      BY <1>2, <1>3
<1> QED BY <1>1, <1>2, <1>4

-----------------------------------------------------------------------------
(***************************************************************************)
(* Filling the tables.                                                     *)
(***************************************************************************)
(* At the start, all is what it was in memory.                             *)
LEMMA PagingStarts == PagingInit => PagingInv
<1> SUFFICES ASSUME PagingInit PROVE PagingInv
    OBVIOUS
<1>1. PT_SIZE \in Nat /\ PT_SIZE >= 4
      BY PagingAssumption
<1>2. /\ paging = "off" /\ filled = 0 /\ eax = 0 /\ ram \in {0, 1}
      /\ mem = [t \in TABLES |-> [k \in Entries |-> [low |-> ram, high |-> ram]]]
      BY DEF PagingInit, Entries
<1>3. TablesTyped
  <2>1. [low |-> ram, high |-> ram] \in [low : Nat, high : {0, 1}]
        BY <1>2
  <2> QED BY <1>1, <1>2, <2>1 DEF TablesTyped
<1>4. Halves
      BY <1>2 DEF Halves
<1>5. Links
      BY <1>2 DEF Links
<1>6. Filled
  <2>1. ASSUME NEW t \in 0 .. 3, NEW k \in Entries PROVE ~(t * PT_SIZE + k < 0)
        BY <1>1 DEF Entries
  <2> QED BY <1>2, <2>1 DEF Filled
<1> QED BY <1>3, <1>4, <1>5, <1>6 DEF PagingInv

(* Entries are numbers in a table of known size.                           *)
LEMMA Sizes ==
    /\ PT_SIZE \in Nat /\ PT_SIZE >= 4
    /\ 0 \in Entries /\ 1 \in Entries /\ 2 \in Entries /\ 3 \in Entries
    /\ PML4 \in TABLES /\ PDP \in TABLES /\ PD \in TABLES
    /\ \A t \in 0 .. 3 : PT(t) \in TABLES
    /\ \A t \in TABLES : Address(t) \in Nat
BY PagingAssumption DEF Entries, PML4, PDP, PD, PT, TABLES, Address, FIRST_TABLE,
                        PAGE_SIZE

(* Four tables are cleared: the three upper ones and the first page table. *)
LEMMA ClearTablesKeeps == PagingInv /\ ClearTables => PagingInv'
<1> SUFFICES ASSUME PagingInv, ClearTables PROVE PagingInv'
    OBVIOUS
<1>1. CLEARED \div PAGE_SIZE = 4
      BY DEF CLEARED, PAGE_SIZE
<1>2. /\ paging = "off" /\ paging' = "cleared" /\ filled = 0 /\ filled' = 0
      /\ eax' = eax /\ ram' = ram
      /\ mem' = [t \in TABLES |-> IF t < 4
                   THEN [k \in Entries |-> [low |-> 0, high |-> 0]] ELSE mem[t]]
      BY <1>1 DEF ClearTables, Entries, PagingInv, TablesTyped
<1>3. TablesTyped'
  <2>1. [k \in Entries |-> [low |-> 0, high |-> 0]]
           \in [Entries -> [low : Nat, high : {0, 1}]]
        OBVIOUS
  <2>2. mem' \in [TABLES -> [Entries -> [low : Nat, high : {0, 1}]]]
        BY <1>2, <2>1 DEF PagingInv, TablesTyped
  <2> QED BY <1>2, <2>2, Sizes DEF PagingInv, TablesTyped
<1>4. ASSUME NEW t \in TABLES, t < 4, NEW k \in Entries
      PROVE  mem'[t][k].low = 0 /\ mem'[t][k].high = 0
      BY <1>2, <1>4
<1>5. Halves'
  <2>1. ASSUME NEW t \in TABLES, ~(t < 4) PROVE mem'[t] = mem[t]
        BY <1>2, <2>1
  <2> QED BY <1>2, <1>4, <2>1 DEF PagingInv, Halves
<1>6. Links'
      BY <1>2, <1>4, Sizes DEF Links, PD
<1>7. Filled'
  <2>1. ASSUME NEW t \in 0 .. 3, NEW k \in Entries PROVE ~(t * PT_SIZE + k < 0)
        BY Sizes DEF Entries
  <2> QED BY <1>2, <2>1 DEF Filled
<1> QED BY <1>3, <1>5, <1>6, <1>7 DEF PagingInv

(* Every table is linked to the next ones.                                 *)
LEMMA LinkTablesKeeps == PagingInv /\ LinkTables => PagingInv'
<1> SUFFICES ASSUME PagingInv, LinkTables PROVE PagingInv'
    OBVIOUS
<1>1. PICK to \in [TABLES -> Nat] :
          /\ to = [t \in TABLES |-> Or(Address(t), READ_WRITE_PRESENT)]
          /\ \A t \in TABLES : to[t] = Address(t) + READ_WRITE_PRESENT
  <2>1. ASSUME NEW t \in TABLES
        PROVE  /\ Or(Address(t), READ_WRITE_PRESENT) \in Nat
               /\ Or(Address(t), READ_WRITE_PRESENT) = Address(t) + READ_WRITE_PRESENT
    <3>1. Address(t) \in Nat /\ Address(t) % 4 = 0
          BY DEF Address, PAGE_SIZE, FIRST_TABLE, TABLES
    <3>2. ASSUME NEW a \in Nat, a % 4 = 0
          PROVE  /\ Or(a, READ_WRITE_PRESENT) \in Nat
                 /\ Or(a, READ_WRITE_PRESENT) = a + READ_WRITE_PRESENT
          BY <3>2 DEF Or, READ_WRITE_PRESENT, READ_WRITE
    <3> QED BY <3>1, <3>2, Zenon
  <2>2. PICK to : to = [t \in TABLES |-> Or(Address(t), READ_WRITE_PRESENT)]
        OBVIOUS
  <2>3. \A t \in TABLES : to[t] = Or(Address(t), READ_WRITE_PRESENT)
        BY <2>2
  <2>4. to \in [TABLES -> Nat]
        BY <2>1, <2>2
  <2> QED BY <2>1, <2>2, <2>3, <2>4, Zenon
<1>2. /\ paging = "cleared" /\ paging' = "filling" /\ filled = 0 /\ filled' = 0
      /\ eax' = 0 /\ ram' = ram
      BY DEF LinkTables, PagingInv, TablesTyped
<1>3. mem \in [TABLES -> [Entries -> [low : Nat, high : {0, 1}]]]
      BY DEF PagingInv, TablesTyped
<1>4. mem' = [mem EXCEPT ![PML4][0].low = to[PDP],
                         ![PDP][0].low = to[PD],
                         ![PD] = [k \in DOMAIN @ |->
                            IF k < 4 THEN [@[k] EXCEPT !.low = to[PT(k)]] ELSE @[k]]]
  <2>1. to[PDP] = Or(Address(PDP), READ_WRITE_PRESENT)
        /\ to[PD] = Or(Address(PD), READ_WRITE_PRESENT)
        BY <1>1, Sizes
  <2>2. ASSUME NEW k \in Entries, k < 4
        PROVE  to[PT(k)] = Or(Address(PT(k)), READ_WRITE_PRESENT)
    <3>1. k \in 0 .. 3
          BY <2>2, Sizes DEF Entries
    <3> QED BY <1>1, <3>1, Sizes
  <2> QED BY <1>3, <2>1, <2>2, Sizes DEF LinkTables
<1>5. PICK h1 \in [low : Nat, high : {0, 1}], h2 \in [low : Nat, high : {0, 1}] :
          /\ h1 = [mem[PML4][0] EXCEPT !.low = to[PDP]]
          /\ h1.low = to[PDP] /\ h1.high = mem[PML4][0].high
          /\ h2 = [mem[PDP][0] EXCEPT !.low = to[PD]]
          /\ h2.low = to[PD] /\ h2.high = mem[PDP][0].high
  <2>1. mem[PML4][0] \in [low : Nat, high : {0, 1}]
        /\ mem[PDP][0] \in [low : Nat, high : {0, 1}]
        /\ to[PDP] \in Nat /\ to[PD] \in Nat
        BY <1>1, <1>3, Sizes
  <2>2. PICK h1, h2 : /\ h1 = [mem[PML4][0] EXCEPT !.low = to[PDP]]
                      /\ h2 = [mem[PDP][0] EXCEPT !.low = to[PD]]
        OBVIOUS
  <2>3. /\ h1 \in [low : Nat, high : {0, 1}]
        /\ h1.low = to[PDP] /\ h1.high = mem[PML4][0].high
        BY <2>1, <2>2
  <2>4. /\ h2 \in [low : Nat, high : {0, 1}]
        /\ h2.low = to[PD] /\ h2.high = mem[PDP][0].high
        BY <2>1, <2>2
  <2> QED BY <2>2, <2>3, <2>4
<1>6. PICK e1, e2 : /\ e1 = [mem[PML4] EXCEPT ![0] = h1]
                    /\ e2 = [mem[PDP] EXCEPT ![0] = h2]
      OBVIOUS
<1>7. PICK e3 : e3 = [k \in Entries |->
                        IF k < 4 THEN [mem[PD][k] EXCEPT !.low = to[PT(k)]]
                        ELSE mem[PD][k]]
      OBVIOUS
<1>8. /\ mem'[PML4] = e1 /\ mem'[PDP] = e2 /\ mem'[PD] = e3
      /\ \A t \in TABLES : t > 2 => mem'[t] = mem[t]
      /\ mem' = [mem EXCEPT ![PML4] = e1, ![PDP] = e2, ![PD] = e3]
  <2>1. PML4 # PDP /\ PML4 # PD /\ PDP # PD
        /\ \A t \in TABLES : t > 2 => t # PML4 /\ t # PDP /\ t # PD
        BY DEF PML4, PDP, PD
  <2>2. mem' = [mem EXCEPT ![PML4] = e1, ![PDP] = e2, ![PD] = e3]
        BY <1>3, <1>4, <1>5, <1>6, <1>7, <2>1, Sizes
  <2> QED BY <1>3, <2>1, <2>2, Sizes
<1>9. \A t \in TABLES : to[t] \in Nat
      BY <1>1
<1>10. e1 \in [Entries -> [low : Nat, high : {0, 1}]]
       /\ e1[0].low = to[PDP] /\ \A k \in Entries : e1[k].high = mem[PML4][k].high
       BY <1>3, <1>5, <1>6, Sizes
<1>11. e2 \in [Entries -> [low : Nat, high : {0, 1}]]
       /\ e2[0].low = to[PD] /\ \A k \in Entries : e2[k].high = mem[PDP][k].high
       BY <1>3, <1>5, <1>6, Sizes
<1>12. ASSUME NEW k \in Entries
       PROVE  /\ e3[k] \in [low : Nat, high : {0, 1}]
              /\ e3[k].high = mem[PD][k].high
              /\ e3[k].low = IF k < 4 THEN to[PT(k)] ELSE mem[PD][k].low
  <2>1. PICK e \in [low : Nat, high : {0, 1}] : e = mem[PD][k]
        BY <1>3, Sizes
  <2>2. k < 4 => to[PT(k)] \in Nat
    <3>1. k < 4 => k \in 0 .. 3
          BY Sizes DEF Entries
    <3> QED BY <1>9, <3>1, Sizes
  <2>3. CASE k < 4
    <3>1. PICK f : f = [e EXCEPT !.low = to[PT(k)]]
          OBVIOUS
    <3>2. f \in [low : Nat, high : {0, 1}] /\ f.high = e.high /\ f.low = to[PT(k)]
          BY <2>2, <2>3, <3>1
    <3>3. e3[k] = f
          BY <1>7, <2>1, <2>3, <3>1
    <3> QED BY <2>1, <2>3, <3>2, <3>3
  <2>4. CASE ~(k < 4)
        BY <1>7, <2>1, <2>4
  <2> QED BY <2>3, <2>4
<1>13. e3 \in [Entries -> [low : Nat, high : {0, 1}]]
       BY <1>7, <1>12
<1>14. TablesTyped'
  <2>1. mem' \in [TABLES -> [Entries -> [low : Nat, high : {0, 1}]]]
        BY <1>3, <1>8, <1>10, <1>11, <1>13, Sizes
  <2> QED BY <1>2, <2>1, Sizes DEF PagingInv, TablesTyped
<1>15. Halves'
  <2>1. ASSUME NEW t \in TABLES, NEW k \in Entries
        PROVE  mem'[t][k].high = mem[t][k].high
    <3>1. t \in {PML4, PDP, PD} \/ t > 2
          BY DEF TABLES, PML4, PDP, PD
    <3> QED BY <1>8, <1>10, <1>11, <1>12, <3>1
  <2> QED BY <1>2, <2>1 DEF PagingInv, Halves
<1>16. Links'
  <2>1. to[PDP] = Address(PDP) + READ_WRITE_PRESENT
        /\ to[PD] = Address(PD) + READ_WRITE_PRESENT
        BY <1>1, Sizes
  <2>2. ASSUME NEW k \in Entries
        PROVE  mem'[PD][k].low = IF k < 4 THEN Address(PT(k)) + READ_WRITE_PRESENT
                                 ELSE 0
    <3>1. CASE k < 4
      <4>1. k \in 0 .. 3
            BY <3>1, Sizes DEF Entries
      <4>2. to[PT(k)] = Address(PT(k)) + READ_WRITE_PRESENT
            BY <1>1, <4>1, Sizes
      <4> QED BY <1>8, <1>12, <3>1, <4>2
    <3>2. CASE ~(k < 4)
          BY <1>2, <1>8, <1>12, <3>2 DEF PagingInv, Links
    <3> QED BY <3>1, <3>2
  <2> QED BY <1>2, <1>8, <1>10, <1>11, <2>1, <2>2 DEF Links
<1>17. Filled'
  <2>1. ASSUME NEW t \in 0 .. 3, NEW k \in Entries PROVE ~(t * PT_SIZE + k < 0)
        BY Sizes DEF Entries
  <2>2. 0 * PAGE_SIZE + 0 = 0
        BY DEF PAGE_SIZE
  <2> QED BY <1>2, <2>1, <2>2 DEF Filled
<1> QED BY <1>14, <1>15, <1>16, <1>17 DEF PagingInv

(* The entry that is written maps its own page: the flags of the entry     *)
(* before do not get in the way.                                           *)
LEMMA EntryOfPage ==
    ASSUME PagingInv, paging = "filling", filled < 4 * PT_SIZE,
           NEW t \in 0 .. 3, NEW k \in Entries, filled = t * PT_SIZE + k,
           NEW page, page = IF filled = 3 * PT_SIZE THEN eax - 3 ELSE eax
    PROVE  Or(page, Flags(t)) = filled * PAGE_SIZE + Flags(t)
<1>1. PT_SIZE \in Nat /\ PT_SIZE >= 4 /\ k \in 0 .. PT_SIZE - 1 /\ filled \in Nat
      BY Sizes DEF Entries, PagingInv, TablesTyped
<1>2. /\ t < 3 => filled < 3 * PT_SIZE
      /\ t = 3 => filled >= 3 * PT_SIZE
      BY <1>1
<1>3. PICK a \in Nat : a = filled * PAGE_SIZE /\ a % 4 = 0
  <2>1. filled * 4096 \in Nat /\ (filled * 4096) % 4 = 0
        BY <1>1
  <2> QED BY <2>1 DEF PAGE_SIZE
<1>4. \/ page = a /\ (t = 3 => filled = 3 * PT_SIZE)
      \/ page = a + 3 /\ t < 3
      \/ page = a + 2 /\ t = 3
      BY <1>1, <1>2, <1>3
         DEF PagingInv, Filled, READ_WRITE_PRESENT, READ_WRITE, PAGE_SIZE
<1>5. CASE t < 3
  <2>1. page = a \/ page = a + 3
        BY <1>4, <1>5
  <2> QED BY <1>3, <1>5, <2>1 DEF Or, Flags, READ_WRITE_PRESENT, READ_WRITE
<1>6. CASE t = 3
  <2>1. page = a \/ page = a + 2
        BY <1>4, <1>6
  <2>2. Flags(t) = READ_WRITE
        BY <1>6 DEF Flags
  <2>3. Or(a, READ_WRITE) = a + READ_WRITE
    <3>1. a % 4 = 0
          BY <1>3
    <3> QED BY <3>1 DEF Or, READ_WRITE_PRESENT, READ_WRITE
  <2>4. Or(a + 2, READ_WRITE) = a + READ_WRITE
    <3>1. (a + 2) % 4 = 2
          BY <1>3
    <3> QED BY <3>1 DEF Or, READ_WRITE_PRESENT, READ_WRITE
  <2> QED BY <1>3, <2>1, <2>2, <2>3, <2>4
<1> QED BY <1>5, <1>6

(* An entry more.                                                          *)
LEMMA FillEntryKeeps == PagingInv /\ FillEntry => PagingInv'
<1> SUFFICES ASSUME PagingInv, FillEntry PROVE PagingInv'
    OBVIOUS
<1>1. PT_SIZE \in Nat /\ PT_SIZE >= 4 /\ filled \in Nat /\ filled < 4 * PT_SIZE
      BY Sizes DEF PagingInv, TablesTyped, FillEntry
<1>2. PICK t \in 0 .. 3, k \in Entries :
          t = filled \div PT_SIZE /\ k = filled % PT_SIZE /\ filled = t * PT_SIZE + k
  <2>1. PICK q \in Nat, r \in Nat :
            q = filled \div PT_SIZE /\ r = filled % PT_SIZE
            /\ filled = q * PT_SIZE + r /\ r < PT_SIZE
    <3>1. PT_SIZE \in Nat \ {0}
          BY <1>1
    <3> QED BY <1>1, <3>1, Division, Zenon
  <2>2. q \in 0 .. 3
    <3>1. SUFFICES ASSUME q >= 4 PROVE FALSE
          OBVIOUS
    <3>2. PICK n \in Nat : q = 4 + n
      <4>1. q - 4 \in Nat /\ q = 4 + (q - 4)
            BY <3>1
      <4> QED BY <4>1
    <3>3. filled = 4 * PT_SIZE + n * PT_SIZE + r /\ n * PT_SIZE \in Nat
          BY <1>1, <2>1, <3>2
    <3> QED BY <1>1, <3>3
  <2>3. r \in Entries
        BY <1>1, <2>1 DEF Entries
  <2> QED BY <2>1, <2>2, <2>3
<1>3. PICK entry \in Nat : entry = filled * PAGE_SIZE + Flags(t)
      BY <1>1 DEF PAGE_SIZE, Flags, READ_WRITE, READ_WRITE_PRESENT
<1>4. /\ paging = "filling" /\ paging' = "filling" /\ ram' = ram
      /\ filled' = filled + 1 /\ eax' = entry + PAGE_SIZE
      /\ mem' = [mem EXCEPT ![PT(t)][k].low = entry]
  <2>1. PICK page : page = IF filled = 3 * PT_SIZE THEN eax - 3 ELSE eax
        OBVIOUS
  <2>2. Or(page, Flags(t)) = entry
        BY <1>1, <1>2, <1>3, <2>1, EntryOfPage DEF FillEntry
  <2> QED BY <1>2, <2>1, <2>2 DEF FillEntry, Flags
<1>5. mem \in [TABLES -> [Entries -> [low : Nat, high : {0, 1}]]]
      BY DEF PagingInv, TablesTyped
<1>6. PICK old \in [low : Nat, high : {0, 1}] : old = mem[PT(t)][k]
      BY <1>5, Sizes
<1>7. PICK new : new = [old EXCEPT !.low = entry]
      OBVIOUS
<1>8. new \in [low : Nat, high : {0, 1}] /\ new.low = entry /\ new.high = old.high
      BY <1>7
<1>9. PICK table : table = [mem[PT(t)] EXCEPT ![k] = new]
      OBVIOUS
<1>10. mem' = [mem EXCEPT ![PT(t)] = table]
       BY <1>4, <1>5, <1>6, <1>7, <1>9, Sizes
<1>11. /\ mem' \in [TABLES -> [Entries -> [low : Nat, high : {0, 1}]]]
       /\ mem'[PT(t)][k] = new
       /\ \A u \in TABLES, j \in Entries :
             u # PT(t) \/ j # k => mem'[u][j] = mem[u][j]
  <2>1. table \in [Entries -> [low : Nat, high : {0, 1}]] /\ table[k] = new
        /\ \A j \in Entries : j # k => table[j] = mem[PT(t)][j]
        BY <1>5, <1>8, <1>9, Sizes
  <2>2. mem'[PT(t)] = table /\ \A u \in TABLES : u # PT(t) => mem'[u] = mem[u]
        BY <1>5, <1>10, Sizes
  <2>3. mem' \in [TABLES -> [Entries -> [low : Nat, high : {0, 1}]]]
        BY <1>5, <1>10, <2>1, Sizes
  <2> QED BY <2>1, <2>2, <2>3
<1>12. TablesTyped'
       BY <1>1, <1>4, <1>11 DEF PagingInv, TablesTyped
<1>13. Halves'
       BY <1>4, <1>6, <1>8, <1>11 DEF PagingInv, Halves
<1>14. Links'
  <2>1. PML4 # PT(t) /\ PDP # PT(t) /\ PD # PT(t)
        BY DEF PML4, PDP, PD, PT
  <2>2. /\ mem'[PML4][0] = mem[PML4][0] /\ mem'[PDP][0] = mem[PDP][0]
        /\ \A j \in Entries : mem'[PD][j] = mem[PD][j]
        BY <1>11, <2>1, Sizes
  <2> QED BY <1>4, <2>2 DEF PagingInv, Links
<1>15. Filled'
  <2>1. eax' = filled' * PAGE_SIZE
                 + (IF filled' = 0 THEN 0
                    ELSE IF filled' <= 3 * PT_SIZE THEN READ_WRITE_PRESENT
                    ELSE READ_WRITE)
    <3>1. t < 3 <=> filled + 1 <= 3 * PT_SIZE
          BY <1>1, <1>2 DEF Entries
    <3>2. (filled + 1) * PAGE_SIZE = filled * PAGE_SIZE + PAGE_SIZE
          BY <1>1 DEF PAGE_SIZE
    <3>3. PICK a \in Nat : a = filled * PAGE_SIZE
          BY <1>1 DEF PAGE_SIZE
    <3> QED BY <1>1, <1>3, <1>4, <3>1, <3>2, <3>3
            DEF Flags, PAGE_SIZE, READ_WRITE, READ_WRITE_PRESENT
  <2>2. ASSUME NEW u \in 0 .. 3, NEW j \in Entries, u * PT_SIZE + j < filled + 1
        PROVE  mem'[PT(u)][j].low = (u * PT_SIZE + j) * PAGE_SIZE + Flags(u)
    <3>1. CASE u = t /\ j = k
          BY <1>2, <1>3, <1>8, <1>11, <3>1
    <3>2. CASE ~(u = t /\ j = k)
      <4>1. u * PT_SIZE + j # filled
            BY <1>1, <1>2, <3>2 DEF Entries
      <4>2. u * PT_SIZE + j < filled
            BY <1>1, <2>2, <4>1 DEF Entries
      <4>3. PT(u) # PT(t) \/ j # k
            BY <3>2 DEF PT
      <4>4. mem'[PT(u)][j] = mem[PT(u)][j]
            BY <1>11, <4>3, Sizes
      <4> QED BY <4>2, <4>4 DEF PagingInv, Filled
    <3> QED BY <3>1, <3>2
  <2> QED BY <1>4, <2>1, <2>2 DEF Filled
<1> QED BY <1>12, <1>13, <1>14, <1>15 DEF PagingInv

(* What else a step may do to the tables: nothing.                         *)
LEMMA PagingKeeps ==
    PagingInv /\ (PagingNext \/ UNCHANGED pagingVars) => PagingInv'
<1> SUFFICES ASSUME PagingInv, PagingNext \/ UNCHANGED pagingVars PROVE PagingInv'
    OBVIOUS
<1>1. CASE activate_paging
      BY <1>1, Sizes DEF activate_paging, PagingInv, TablesTyped, Halves, Links, Filled
<1>2. CASE UNCHANGED pagingVars
      BY <1>2 DEF pagingVars, PagingInv, TablesTyped, Halves, Links, Filled
<1> QED BY <1>1, <1>2, ClearTablesKeeps, LinkTablesKeeps, FillEntryKeeps DEF PagingNext

(* An entry with the address of a table leads to that table.               *)
LEMMA LinkedTable ==
    ASSUME NEW t \in TABLES, NEW e, e.high = 0,
           e.low = Address(t) + READ_WRITE_PRESENT
    PROVE  IsTable(e) /\ TableAt(e) = mem[t]
<1>1. Address(t) = 4096 * (1025 + t) /\ t \in Nat
      BY DEF Address, FIRST_TABLE, PAGE_SIZE, TABLES
<1>2. e.low = 4096 * (1025 + t) + 3
      BY <1>1 DEF READ_WRITE_PRESENT
<1>3. e.low % 2 = 1 /\ e.low \div 4096 = 1025 + t
      BY <1>1, <1>2
<1>4. Present(e) /\ Frame(e) = 1025 + t
      BY <1>1, <1>3 DEF Present, Frame, PAGE_SIZE, HALF_FRAMES
<1>5. Frame(e) - FIRST_TABLE = t
      BY <1>1, <1>4 DEF FIRST_TABLE
<1> QED BY <1>4, <1>5 DEF IsTable, TableAt

(* What the processor finds in the tables that are linked.                 *)
LEMMA EntryFound ==
    ASSUME PagingInv, paging = "on", NEW q \in Entries, NEW k \in Entries,
           NEW v, v \div PT_SIZE = q, v % PT_SIZE = k, ram = 0 \/ q = 0
    PROVE  Entry(v) = IF q < 4 THEN mem[PT(q)][k] ELSE [low |-> 0, high |-> 0]
<1>1. /\ mem[PML4][0].low = Address(PDP) + READ_WRITE_PRESENT
      /\ mem[PDP][0].low = Address(PD) + READ_WRITE_PRESENT
      /\ mem[PD][q].low = IF q < 4 THEN Address(PT(q)) + READ_WRITE_PRESENT ELSE 0
      BY DEF PagingInv, Links
<1>2. mem[PML4][0].high = 0 /\ mem[PDP][0].high = 0 /\ mem[PD][q].high = 0
  <2>1. PML4 < 4 /\ PDP < 4 /\ PD < 4
        BY DEF PML4, PDP, PD
  <2> QED BY <2>1, Sizes DEF PagingInv, Halves
<1>3. PICK e4, e3, e2 : e4 = mem[PML4][0] /\ e3 = mem[PDP][0] /\ e2 = mem[PD][q]
      OBVIOUS
<1>4. IsTable(e4) /\ TableAt(e4) = mem[PDP]
      BY <1>1, <1>2, <1>3, LinkedTable, Sizes
<1>5. IsTable(e3) /\ TableAt(e3) = mem[PD]
      BY <1>1, <1>2, <1>3, LinkedTable, Sizes
<1>6. q < 4 => IsTable(e2) /\ TableAt(e2) = mem[PT(q)]
  <2>1. q < 4 => PT(q) \in TABLES
        BY Sizes DEF Entries
  <2> QED BY <1>1, <1>2, <1>3, <2>1, LinkedTable
<1>7. ~(q < 4) => ~IsTable(e2)
      BY <1>1, <1>3 DEF IsTable, Present
<1>8. Entry(v) = IF IsTable(e2) THEN TableAt(e2)[k] ELSE [low |-> 0, high |-> 0]
  <2>1. TableAt(mem[PML4][0])[0] = e3
        BY <1>3, <1>4
  <2>2. TableAt(TableAt(mem[PML4][0])[0])[v \div PT_SIZE] = e2
        BY <1>3, <1>5, <2>1
  <2> QED BY <1>3, <1>4, <1>5, <2>1, <2>2 DEF Entry
<1> QED BY <1>6, <1>7, <1>8

(* A page of the first three page tables is mapped to itself, a page of the*)
(* arena is absent, and behind the arena there is nothing.                 *)
LEMMA TablesMap == PagingInv => MapsToItself
<1> SUFFICES ASSUME PagingInv, paging = "on",
                    NEW v \in 0 .. PT_SIZE * PT_SIZE - 1, ram = 0 \/ v < PT_SIZE
             PROVE  IF v < 3 * PT_SIZE THEN Translate(v) = v
                    ELSE /\ Translate(v) = Fault
                         /\ v \in Arena => Entry(v) =
                              [low |-> v * PAGE_SIZE + READ_WRITE, high |-> 0]
    BY DEF MapsToItself
<1>1. PT_SIZE \in Nat \ {0} /\ PT_SIZE * PT_SIZE \in Nat /\ v \in Nat
      /\ v < PT_SIZE * PT_SIZE
      BY Sizes
<1>2. PICK q \in Nat, k \in Entries :
          q = v \div PT_SIZE /\ k = v % PT_SIZE /\ v = q * PT_SIZE + k
  <2>1. PICK q \in Nat, k \in Nat : q = v \div PT_SIZE /\ k = v % PT_SIZE
            /\ v = q * PT_SIZE + k /\ k < PT_SIZE
        BY <1>1, Division, Zenon
  <2>2. k \in Entries
        BY <1>1, <2>1 DEF Entries
  <2> QED BY <2>1, <2>2
<1>3. q < PT_SIZE
  <2>1. SUFFICES ASSUME q >= PT_SIZE PROVE FALSE
        BY <1>1
  <2>2. PICK n \in Nat : q = PT_SIZE + n
    <3>1. q - PT_SIZE \in Nat /\ q = PT_SIZE + (q - PT_SIZE)
          BY <1>1, <2>1
    <3> QED BY <3>1
  <2>3. v = PT_SIZE * PT_SIZE + n * PT_SIZE + k /\ n * PT_SIZE \in Nat
        BY <1>1, <1>2, <2>2
  <2> QED BY <1>1, <1>2, <2>3 DEF Entries
<1>4. q \in Entries /\ k \in 0 .. PT_SIZE - 1
      BY <1>1, <1>3 DEF Entries
<1>5. (v < PT_SIZE => q = 0) /\ (q < 3 <=> v < 3 * PT_SIZE)
      /\ (v < 4 * PT_SIZE => q < 4)
  <2>1. ASSUME NEW m \in Nat, q >= m PROVE v >= m * PT_SIZE
    <3>1. PICK n \in Nat : q = m + n
      <4>1. q - m \in Nat /\ q = m + (q - m)
            BY <2>1
      <4> QED BY <4>1
    <3>2. v = m * PT_SIZE + n * PT_SIZE + k /\ n * PT_SIZE \in Nat
          BY <1>1, <1>2, <3>1
    <3> QED BY <1>1, <1>4, <3>2
  <2>2. q >= 1 => v >= 1 * PT_SIZE
        BY <2>1
  <2>3. q >= 3 => v >= 3 * PT_SIZE
        BY <2>1
  <2>4. q >= 4 => v >= 4 * PT_SIZE
        BY <2>1
  <2>5. q < 3 => v < 3 * PT_SIZE
    <3>1. SUFFICES ASSUME q \in 0 .. 2 PROVE v < 3 * PT_SIZE
          BY <1>2
    <3> QED BY <1>1, <1>2, <1>4, <3>1
  <2> QED BY <1>1, <1>2, <2>2, <2>3, <2>4, <2>5
<1>6. Entry(v) = IF q < 4 THEN mem[PT(q)][k] ELSE [low |-> 0, high |-> 0]
  <2>1. ram = 0 \/ q = 0
        BY <1>5
  <2> QED BY <1>2, <1>4, <2>1, EntryFound
<1>7. CASE q >= 4
  <2>1. Entry(v) = [low |-> 0, high |-> 0]
        BY <1>2, <1>6, <1>7
  <2>2. Translate(v) = Fault
        BY <2>1 DEF Translate, Present
  <2>3. ~(v < 3 * PT_SIZE) /\ v \notin Arena
        BY <1>1, <1>2, <1>5, <1>7 DEF Arena
  <2> QED BY <2>2, <2>3
<1>8. CASE q < 4
  <2>1. q \in 0 .. 3
        BY <1>2, <1>8
  <2>2. PICK e \in [low : Nat, high : {0, 1}] : e = mem[PT(q)][k]
        BY <2>1, Sizes DEF PagingInv, TablesTyped
  <2>3. e.high = 0
    <3>1. ram = 0 \/ (paging # "off" /\ PT(q) < 4)
          BY <1>1, <1>5 DEF PT
    <3> QED BY <2>1, <2>2, <3>1, Sizes DEF PagingInv, Halves
  <2>4. e.low = v * PAGE_SIZE + Flags(q)
    <3>1. q * PT_SIZE + k < filled
      <4>1. filled = 4 * PT_SIZE
            BY DEF PagingInv, TablesTyped
      <4> QED BY <1>1, <1>4, <2>1, <4>1
    <3> QED BY <1>2, <2>1, <2>2, <3>1 DEF PagingInv, Filled
  <2>5. Entry(v) = e
        BY <1>6, <1>8, <2>2
  <2>6. CASE q < 3
    <3>1. e.low = 4096 * v + 3
          BY <1>1, <2>4, <2>6 DEF PAGE_SIZE, Flags, READ_WRITE_PRESENT
    <3>2. e.low % 2 = 1 /\ e.low \div 4096 = v
          BY <1>1, <3>1
    <3>3. Translate(v) = v
          BY <1>1, <2>3, <2>5, <3>2 DEF Translate, Present, Frame, PAGE_SIZE, HALF_FRAMES
    <3> QED BY <1>5, <2>6, <3>3
  <2>7. CASE ~(q < 3)
    <3>1. e.low = 4096 * v + 2 /\ e.low = v * PAGE_SIZE + READ_WRITE
          BY <1>1, <2>4, <2>7 DEF PAGE_SIZE, Flags, READ_WRITE
    <3>2. e.low % 2 = 0
          BY <1>1, <3>1
    <3>3. Translate(v) = Fault
          BY <2>5, <3>2 DEF Translate, Present
    <3>4. e = [low |-> v * PAGE_SIZE + READ_WRITE, high |-> 0]
          BY <2>3, <3>1
    <3> QED BY <1>5, <2>5, <2>7, <3>3, <3>4
  <2> QED BY <2>6, <2>7
<1> QED BY <1>2, <1>7, <1>8

-----------------------------------------------------------------------------
(***************************************************************************)
(* The stubs.                                                              *)
(***************************************************************************)
Vectors == {DIVIDE, BOUND, DOUBLE_FAULT, PAGE_FAULT} \cup IRQS

(* What the stub has pushed for a thread that is to come back.             *)
OfStub == [k \in 1 .. Len(Pushed) |-> <<Pushed[k], OfThread[Pushed[k]]>>]

(* The names of what lies on a stack, and whose it is.                     *)
Names == {"rax", "rcx", "rdx", "rbx", "rbp", "rsi", "rdi",
          "ss", "rsp", "rflags", "cs", "rip", "thread", "error", "code",
          "handler"}
Words == Names \X Names

(* A register that comes back is the thread's, or the handler has used the *)
(* word it was saved in.                                                   *)
GivenBack(r, value) == value = r \/ (r \in HomeRegisters /\ value = "handler")

(* The same stack behind a handler that may have used its home area.       *)
StackBehindHandler ==
    LET n == Len(FrameOf(vector))
    IN  /\ stack \in Seq(Words) /\ Len(stack) = n + 7
        /\ \A k \in 1 .. n : stack[k] = FrameOf(vector)[k]
        /\ \A k \in 1 .. 7 : GivenBack(Pushed[k], stack[n + k][2])

(* What lies on the stack in each step of a stub; the registers are those  *)
(* of the thread before the handler and are given back behind popaq.       *)
StubInv ==
    /\ vector \in Vectors
    /\ at \in {"thread", "stub", "handler", "return", "iretq", "halted", "astray"}
    /\ at = "stub" => stack = FrameOf(vector) /\ regs = OfThread
    /\ at = "handler" => stack = FrameOf(vector) \o OfStub
    /\ at = "return" => StackBehindHandler
    /\ at = "iretq" => stack = FrameOf(vector)
    /\ at \in {"return", "iretq"} => vector \notin {DIVIDE, PAGE_FAULT}
    /\ at \in {"thread", "iretq"} =>
           \A r \in ToSet(Pushed) : GivenBack(r, regs[r])
    /\ at = "astray" => vector = DOUBLE_FAULT
    /\ ShownIsTheFrame

(* Seven different registers are pushed, the home registers last.          *)
LEMMA PushedRegisters ==
    /\ Len(Pushed) = 7 /\ DOMAIN Pushed = 1 .. 7
    /\ \A k \in 4 .. 7 : Pushed[k] \in HomeRegisters
    /\ \A k \in 1 .. 7 : Pushed[k] \in Names
    /\ \A k, j \in 1 .. 7 : Pushed[k] = Pushed[j] => k = j
    /\ \A r : r \in ToSet(Pushed) <=> \E k \in 1 .. 7 : Pushed[k] = r
    /\ \A k \in 1 .. 7 : Pushed[k] \in Registers /\ OfThread[Pushed[k]] = Pushed[k]
<1>1. PICK p : p = <<"rax", "rcx", "rdx", "rbx", "rbp", "rsi", "rdi">>
      OBVIOUS
<1>2. p = Pushed
      BY <1>1 DEF Pushed
<1>3. /\ Len(p) = 7 /\ DOMAIN p = 1 .. 7
      /\ \A k \in 1 .. 7 : p[k] \in Names
  <2>1. Len(p) = 7
        BY <1>1
  <2>2. p \in Seq(Names)
        BY <1>1 DEF Names
  <2>3. DOMAIN p = 1 .. 7
        BY <2>1, <2>2, LenProperties
  <2> QED BY <2>1, <2>2, <2>3, ElementOfSeq
<1>4. \A k, j \in 1 .. 7 : p[k] = p[j] => k = j
      BY <1>1
<1>5. \A r : r \in ToSet(p) <=> \E k \in 1 .. 7 : p[k] = r
      BY <1>3 DEF ToSet
<1>6. \A k \in 1 .. 7 : p[k] \in ToSet(p)
      BY <1>5
<1>7. \A k \in 1 .. 7 : p[k] \in Registers /\ OfThread[p[k]] = p[k]
      BY <1>2, <1>6 DEF Registers, OfThread
<1>8. \A k \in 4 .. 7 : p[k] \in HomeRegisters
  <2>1. /\ p[4] = "rbx" /\ p[5] = "rbp" /\ p[6] = "rsi" /\ p[7] = "rdi"
        BY <1>1
  <2>2. \A k \in 4 .. 7 : k = 4 \/ k = 5 \/ k = 6 \/ k = 7
        OBVIOUS
  <2> QED BY <2>1, <2>2 DEF HomeRegisters
<1> QED BY <1>2, <1>3, <1>4, <1>5, <1>7, <1>8

(* The frame the processor pushes, by its words.                           *)
LEMMA FrameWords ==
    ASSUME NEW v \in Vectors
    PROVE  /\ FrameOf(v) \in Seq(Words)
           /\ Len(FrameOf(v)) = IF v \in WithErrorCode THEN 6 ELSE 5
           /\ FrameOf(v)[1] = <<"ss", "thread">> /\ FrameOf(v)[2] = <<"rsp", "thread">>
           /\ FrameOf(v)[3] = <<"rflags", "thread">> /\ FrameOf(v)[4] = <<"cs", "thread">>
           /\ FrameOf(v)[5] = <<"rip", "thread">>
           /\ v \in WithErrorCode => FrameOf(v)[6] = <<"error", "code">>
<1>1. PICK f : f = <<<<"ss", "thread">>, <<"rsp", "thread">>, <<"rflags", "thread">>,
                     <<"cs", "thread">>, <<"rip", "thread">>>>
      OBVIOUS
<1>2. PICK e : e = IF v \in WithErrorCode THEN <<<<"error", "code">>>> ELSE <<>>
      OBVIOUS
<1>3. FrameOf(v) = f \o e
      BY <1>1, <1>2 DEF FrameOf
<1>4. /\ f \in Seq(Words) /\ Len(f) = 5
      /\ f[1] = <<"ss", "thread">> /\ f[2] = <<"rsp", "thread">>
      /\ f[3] = <<"rflags", "thread">> /\ f[4] = <<"cs", "thread">>
      /\ f[5] = <<"rip", "thread">>
  <2>1. /\ <<"ss", "thread">> \in Words /\ <<"rsp", "thread">> \in Words
        /\ <<"rflags", "thread">> \in Words /\ <<"cs", "thread">> \in Words
        /\ <<"rip", "thread">> \in Words
        BY DEF Words, Names
  <2>2. f \in Seq(Words)
        BY <1>1, <2>1
  <2>3. Len(f) = 5
        BY <1>1
  <2>4. /\ f[1] = <<"ss", "thread">> /\ f[2] = <<"rsp", "thread">>
        /\ f[3] = <<"rflags", "thread">> /\ f[4] = <<"cs", "thread">>
        /\ f[5] = <<"rip", "thread">>
        BY <1>1
  <2> QED BY <2>2, <2>3, <2>4
<1>5. CASE v \in WithErrorCode
  <2>1. e \in Seq(Words) /\ Len(e) = 1 /\ e[1] = <<"error", "code">>
    <3>1. e = <<<<"error", "code">>>>
          BY <1>2, <1>5
    <3>2. <<"error", "code">> \in Words
          BY DEF Words, Names
    <3> QED BY <3>1, <3>2
  <2>2. /\ f \o e \in Seq(Words) /\ Len(f \o e) = 6
        /\ \A k \in 1 .. 6 : (f \o e)[k] = IF k <= 5 THEN f[k] ELSE e[k - 5]
    <3>1. /\ f \o e \in Seq(Words) /\ Len(f \o e) = Len(f) + Len(e)
          /\ \A k \in 1 .. Len(f) + Len(e) :
                (f \o e)[k] = IF k <= Len(f) THEN f[k] ELSE e[k - Len(f)]
          BY <1>4, <2>1, ConcatProperties, Zenon
    <3> QED BY <1>4, <2>1, <3>1
  <2>3. (f \o e)[6] = e[1] /\ \A k \in 1 .. 5 : (f \o e)[k] = f[k]
        BY <2>2
  <2> QED BY <1>3, <1>4, <1>5, <2>1, <2>2, <2>3
<1>6. CASE v \notin WithErrorCode
  <2>1. e = <<>>
        BY <1>2, <1>6
  <2>2. f \o e = f
        BY <1>4, <2>1, ConcatEmptySeq
  <2> QED BY <1>3, <1>4, <1>6, <2>2
<1> QED BY <1>5, <1>6

(* The whole stack of a stub: the frame, and the registers on top of it.   *)
LEMMA StackWords ==
    ASSUME NEW v \in Vectors
    PROVE  /\ OfStub \in Seq(Words)
           /\ FrameOf(v) \o OfStub \in Seq(Words)
           /\ Len(FrameOf(v) \o OfStub) = Len(FrameOf(v)) + 7
           /\ \A k \in 1 .. Len(FrameOf(v)) :
                 (FrameOf(v) \o OfStub)[k] = FrameOf(v)[k]
           /\ \A k \in 1 .. 7 :
                 (FrameOf(v) \o OfStub)[Len(FrameOf(v)) + k][2] = Pushed[k]
<1>1. PICK o : o = OfStub
      OBVIOUS
<1>2. /\ o \in Seq(Words) /\ Len(o) = 7
      /\ \A k \in 1 .. 7 : o[k] = <<Pushed[k], Pushed[k]>>
  <2>1. o = [k \in 1 .. 7 |-> <<Pushed[k], Pushed[k]>>]
        BY <1>1, PushedRegisters DEF OfStub
  <2>2. \A k \in 1 .. 7 : <<Pushed[k], Pushed[k]>> \in Words
        BY PushedRegisters DEF Words
  <2> QED BY <2>1, <2>2
<1>3. PICK f \in Seq(Words) : f = FrameOf(v)
      BY FrameWords
<1>4. PICK n \in Nat : n = Len(f)
      BY <1>3, LenProperties
<1>5. /\ f \o o \in Seq(Words) /\ Len(f \o o) = n + 7
      /\ \A k \in 1 .. n + 7 : (f \o o)[k] = IF k <= n THEN f[k] ELSE o[k - n]
  <2>1. /\ f \o o \in Seq(Words) /\ Len(f \o o) = Len(f) + Len(o)
        /\ \A k \in 1 .. Len(f) + Len(o) :
              (f \o o)[k] = IF k <= Len(f) THEN f[k] ELSE o[k - Len(f)]
        BY <1>2, ConcatProperties, Zenon
  <2> QED BY <1>2, <1>4, <2>1
<1>6. \A k \in 1 .. n : (f \o o)[k] = f[k]
      BY <1>4, <1>5
<1>7. ASSUME NEW k \in 1 .. 7 PROVE (f \o o)[n + k][2] = Pushed[k]
  <2>1. n + k \in 1 .. n + 7 /\ ~(n + k <= n) /\ n + k - n = k
        BY <1>4
  <2>2. PICK m \in 1 .. n + 7 : m = n + k
        BY <2>1
  <2>3. (f \o o)[m] = o[m - n] /\ m - n = k
    <3>1. ~(m <= n) /\ m - n = k
          BY <1>4, <2>1, <2>2
    <3> QED BY <1>5, <3>1
  <2>4. (f \o o)[n + k] = <<Pushed[k], Pushed[k]>>
        BY <1>2, <2>2, <2>3
  <2> QED BY <2>4
<1> QED BY <1>1, <1>2, <1>3, <1>4, <1>5, <1>6, <1>7

(* At the start no frame has been printed, and the thread has its registers.*)
LEMMA StubsStart == TrapsInit => StubInv
<1> SUFFICES ASSUME TrapsInit PROVE StubInv
    OBVIOUS
<1>1. \A r \in ToSet(Pushed) : OfThread[r] = r
      BY DEF OfThread, Registers
<1>2. shown = NoFrame
      BY DEF TrapsInit
<1>3. vector \in Vectors
      BY DEF TrapsInit, Vectors
<1> QED BY <1>1, <1>2, <1>3 DEF TrapsInit, StubInv, ShownIsTheFrame, GivenBack

LEMMA RaiseKeeps ==
    ASSUME StubInv, NEW v \in Vectors, Raise(v)
    PROVE  StubInv'
<1>1. ShownIsTheFrame'
      BY DEF StubInv, ShownIsTheFrame, Raise
<1>2. at' = "stub" /\ vector' = v /\ stack' = FrameOf(v) /\ regs' = OfThread
      BY DEF Raise
<1> QED BY <1>1, <1>2 DEF StubInv

LEMMA PushaqKeeps == StubInv /\ pushaq => StubInv'
<1> SUFFICES ASSUME StubInv, pushaq PROVE StubInv'
    OBVIOUS
<1>1. ShownIsTheFrame'
      BY DEF StubInv, ShownIsTheFrame, pushaq
<1>2. stack = FrameOf(vector) /\ regs = OfThread
      BY DEF StubInv, pushaq
<1>3. stack' = FrameOf(vector) \o OfStub
      BY <1>2 DEF pushaq, OfStub
<1> QED BY <1>1, <1>3 DEF StubInv, pushaq

LEMMA HandlerReturnsKeeps == StubInv /\ HandlerReturns => StubInv'
<1> SUFFICES ASSUME StubInv, HandlerReturns PROVE StubInv'
    OBVIOUS
<1>1. ShownIsTheFrame'
      BY DEF StubInv, ShownIsTheFrame, HandlerReturns
<1>2. /\ at = "handler" /\ at' = "return" /\ vector' = vector
      /\ vector \notin {DIVIDE, PAGE_FAULT} /\ vector \in Vectors
      BY DEF StubInv, HandlerReturns
<1>3. PICK changed \in SUBSET (Len(stack) - HOME_WORDS + 1 .. Len(stack)) :
          stack' = [k \in 1 .. Len(stack) |->
                      IF k \in changed THEN <<stack[k][1], "handler">>
                      ELSE stack[k]]
      BY DEF HandlerReturns
<1>4. PICK f \in Seq(Words) : f = FrameOf(vector)
      BY <1>2, FrameWords
<1>5. PICK n \in Nat : n = Len(f)
      BY <1>4, LenProperties
<1>6. /\ stack \in Seq(Words) /\ Len(stack) = n + 7
      /\ \A k \in 1 .. n : stack[k] = f[k]
      /\ \A k \in 1 .. 7 : stack[n + k][2] = Pushed[k]
      BY <1>2, <1>4, <1>5, StackWords DEF StubInv
<1>7. changed \subseteq n + 4 .. n + 7
      BY <1>3, <1>5, <1>6 DEF HOME_WORDS
<1>8. \A k \in 1 .. n + 7 : stack[k] \in Words
      BY <1>5, <1>6, ElementOfSeq
<1>9. \A w \in Words : <<w[1], "handler">> \in Words
      BY DEF Words, Names
<1>10. stack' \in [1 .. n + 7 -> Words]
      BY <1>3, <1>6, <1>8, <1>9
<1>11. stack' \in Seq(Words) /\ Len(stack') = n + 7
  <2>1. PICK m \in Nat : m = n + 7
        BY <1>5
  <2> QED BY <1>10, <2>1
<1>12. \A k \in 1 .. n : stack'[k] = f[k]
      BY <1>3, <1>5, <1>6, <1>7
<1>13. ASSUME NEW k \in 1 .. 7 PROVE GivenBack(Pushed[k], stack'[n + k][2])
  <2>1. PICK m \in 1 .. n + 7 : m = n + k
        BY <1>5
  <2>2. CASE m \in changed
    <3>1. k \in 4 .. 7
          BY <1>5, <1>7, <2>1, <2>2
    <3>2. stack'[m] = <<stack[m][1], "handler">>
          BY <1>3, <1>6, <2>1, <2>2
    <3>3. stack'[n + k][2] = "handler"
          BY <2>1, <3>2
    <3> QED BY <3>1, <3>3, PushedRegisters DEF GivenBack
  <2>3. CASE m \notin changed
    <3>1. stack'[m] = stack[m]
          BY <1>3, <1>6, <2>1, <2>3
    <3> QED BY <1>6, <2>1, <3>1 DEF GivenBack
  <2> QED BY <2>2, <2>3
<1>14. StackBehindHandler'
  <2>1. PICK v : v = vector
        OBVIOUS
  <2>2. vector' = v /\ FrameOf(v) = f /\ Len(FrameOf(v)) = n
        BY <1>2, <1>4, <1>5, <2>1
  <2> QED BY <1>11, <1>12, <1>13, <2>2 DEF StackBehindHandler
<1> QED BY <1>1, <1>2, <1>14 DEF StubInv

(* What lies where the handler looks for the frame: the frame.  Its lowest  *)
(* word is the error code, or the register that ERQ0_handler overwrites.   *)
LEMMA FrameIsFound ==
    ASSUME StubInv, at = "handler", vector \in {DIVIDE, PAGE_FAULT}
    PROVE  /\ TrapFrame = 6
           /\ stack \in Seq(Words) /\ Len(stack) \in Nat /\ Len(stack) >= 6
           /\ stack[1] = <<"ss", "thread">> /\ stack[2] = <<"rsp", "thread">>
           /\ stack[3] = <<"rflags", "thread">> /\ stack[4] = <<"cs", "thread">>
           /\ stack[5] = <<"rip", "thread">>
           /\ vector = PAGE_FAULT => stack[6] = <<"error", "code">>
<1>1. vector \in Vectors /\ stack = FrameOf(vector) \o OfStub
      BY DEF StubInv
<1>2. PICK f : f = FrameOf(vector)
      OBVIOUS
<1>3. /\ Len(f) = IF vector \in WithErrorCode THEN 6 ELSE 5
      /\ f[1] = <<"ss", "thread">> /\ f[2] = <<"rsp", "thread">>
      /\ f[3] = <<"rflags", "thread">> /\ f[4] = <<"cs", "thread">>
      /\ f[5] = <<"rip", "thread">>
      /\ vector \in WithErrorCode => f[6] = <<"error", "code">>
      BY <1>1, <1>2, FrameWords
<1>4. /\ stack \in Seq(Words) /\ Len(stack) = Len(f) + 7
      /\ \A k \in 1 .. Len(f) : stack[k] = f[k]
      BY <1>1, <1>2, StackWords
<1>5. TrapFrame = 6 /\ Len(stack) \in Nat /\ Len(stack) >= 6
  <2>1. CASE vector \in WithErrorCode
    <3>1. Len(stack) = 13
          BY <1>3, <1>4, <2>1
    <3> QED BY <2>1, <3>1 DEF TrapFrame, HandlerFrame
  <2>2. CASE vector \notin WithErrorCode
    <3>1. Len(stack) = 12
          BY <1>3, <1>4, <2>2
    <3> QED BY <2>2, <3>1 DEF TrapFrame, HandlerFrame
  <2> QED BY <2>1, <2>2
<1>6. \A k \in 1 .. 5 : stack[k] = f[k]
      BY <1>3, <1>4
<1>7. vector = PAGE_FAULT => stack[6] = <<"error", "code">>
      BY <1>3, <1>4 DEF WithErrorCode
<1> QED BY <1>3, <1>4, <1>5, <1>6, <1>7

LEMMA HandlerHaltsKeeps == StubInv /\ HandlerHalts => StubInv'
<1> SUFFICES ASSUME StubInv, HandlerHalts PROVE StubInv'
    OBVIOUS
<1>1. /\ at = "handler" /\ vector \in {DIVIDE, PAGE_FAULT}
      /\ at' = "halted" /\ vector' = vector
      BY DEF HandlerHalts
<1>2. PICK s : s = IF vector = DIVIDE THEN [stack EXCEPT ![6] = <<"error", "code">>]
                   ELSE stack
      OBVIOUS
<1>3. shown' = [i \in 1 .. 6 |-> s[6 + 1 - i]]
      BY <1>1, <1>2, FrameIsFound DEF HandlerHalts, TRAP_FRAME
<1>4. /\ s[1] = <<"ss", "thread">> /\ s[2] = <<"rsp", "thread">>
      /\ s[3] = <<"rflags", "thread">> /\ s[4] = <<"cs", "thread">>
      /\ s[5] = <<"rip", "thread">> /\ s[6] = <<"error", "code">>
  <2>1. PICK n \in Nat : n = Len(stack) /\ n >= 6
        BY <1>1, FrameIsFound
  <2>2. stack \in [1 .. n -> Words]
        BY <1>1, <2>1, FrameIsFound
  <2>3. CASE vector = DIVIDE
    <3>1. \A k \in 1 .. n : s[k] = IF k = 6 THEN <<"error", "code">> ELSE stack[k]
          BY <1>2, <2>2, <2>3
    <3>2. \A k \in 1 .. 5 : s[k] = stack[k]
          BY <2>1, <3>1
    <3>3. s[6] = <<"error", "code">>
          BY <2>1, <3>1
    <3> QED BY <1>1, <3>2, <3>3, FrameIsFound
  <2>4. CASE vector # DIVIDE
    <3>1. s = stack /\ vector = PAGE_FAULT
          BY <1>1, <1>2, <2>4
    <3> QED BY <1>1, <3>1, FrameIsFound
  <2> QED BY <2>3, <2>4
<1>5. [i \in 1 .. 6 |-> shown'[i][1]]
         = <<"error", "rip", "cs", "rflags", "rsp", "ss">>
  <2>1. PICK w : w = [i \in 1 .. 6 |-> shown'[i][1]]
        OBVIOUS
  <2>2. /\ shown'[1] = s[6] /\ shown'[2] = s[5] /\ shown'[3] = s[4]
        /\ shown'[4] = s[3] /\ shown'[5] = s[2] /\ shown'[6] = s[1]
        BY <1>3
  <2>3. /\ w[1] = "error" /\ w[2] = "rip" /\ w[3] = "cs"
        /\ w[4] = "rflags" /\ w[5] = "rsp" /\ w[6] = "ss"
        BY <1>4, <2>1, <2>2
  <2>4. w = [i \in 1 .. 6 |-> w[i]]
        BY <2>1
  <2>5. w = <<"error", "rip", "cs", "rflags", "rsp", "ss">>
        BY <2>3, <2>4
  <2> QED BY <2>1, <2>5
<1>6. ShownIsTheFrame'
      BY <1>5 DEF ShownIsTheFrame
<1> QED BY <1>1, <1>6 DEF StubInv

LEMMA PopaqKeeps == StubInv /\ popaq => StubInv'
<1> SUFFICES ASSUME StubInv, popaq PROVE StubInv'
    OBVIOUS
<1>1. ShownIsTheFrame'
      BY DEF StubInv, ShownIsTheFrame, popaq
<1>2. /\ at = "return" /\ at' = "iretq" /\ vector' = vector
      /\ vector \in Vectors /\ vector \notin {DIVIDE, PAGE_FAULT}
      /\ StackBehindHandler
      BY DEF StubInv, popaq
<1>3. PICK f \in Seq(Words) : f = FrameOf(vector)
      BY <1>2, FrameWords
<1>4. PICK n \in Nat : n = Len(f)
      BY <1>3, LenProperties
<1>5. /\ stack \in Seq(Words) /\ Len(stack) = n + 7
      /\ \A k \in 1 .. n : stack[k] = f[k]
      /\ \A k \in 1 .. 7 : GivenBack(Pushed[k], stack[n + k][2])
      BY <1>2, <1>3, <1>4 DEF StackBehindHandler
<1>6. Len(stack) - Len(Pushed) = n
      BY <1>5, PushedRegisters
<1>7. ASSUME NEW r \in ToSet(Pushed) PROVE GivenBack(r, regs'[r])
  <2>1. PICK k \in 1 .. 7 : k = CHOOSE i \in 1 .. Len(Pushed) : Pushed[i] = r
    <3>1. \E i \in 1 .. Len(Pushed) : Pushed[i] = r
          BY PushedRegisters
    <3> QED BY <3>1, PushedRegisters
  <2>2. \E i \in 1 .. Len(Pushed) : Pushed[i] = r
        BY PushedRegisters
  <2>3. Pushed[k] = r
        BY <2>1, <2>2
  <2>4. r \in Registers
        BY DEF Registers
  <2>5. regs'[r] = stack[n + k][2]
        BY <1>6, <2>1, <2>2, <2>4 DEF popaq
  <2> QED BY <1>5, <2>3, <2>5
<1>8. stack' = f
  <2>1. PICK s : s = SubSeq(stack, 1, n)
        OBVIOUS
  <2>2. stack' = s
        BY <1>6, <2>1 DEF popaq
  <2>3. s \in Seq(Words) /\ Len(s) = n /\ \A k \in 1 .. n : s[k] = stack[k]
        BY <1>4, <1>5, <2>1
  <2>4. s = f
        BY <1>3, <1>4, <1>5, <2>3, SeqEqual
  <2> QED BY <2>2, <2>4
<1> QED BY <1>1, <1>2, <1>3, <1>7, <1>8 DEF StubInv

(* Only the frame of a double fault, which returns, has something on top   *)
(* of the address to return to.                                            *)
LEMMA IretqKeeps == StubInv /\ iretq => StubInv'
<1> SUFFICES ASSUME StubInv, iretq PROVE StubInv'
    OBVIOUS
<1>1. ShownIsTheFrame'
      BY DEF StubInv, ShownIsTheFrame, iretq
<1>2. /\ vector' = vector /\ regs' = regs
      /\ vector \in Vectors /\ vector \notin {DIVIDE, PAGE_FAULT}
      /\ stack = FrameOf(vector)
      /\ at' = IF Last(stack)[1] = "rip" THEN "thread" ELSE "astray"
      /\ \A r \in ToSet(Pushed) : GivenBack(r, regs[r])
      BY DEF StubInv, iretq
<1>3. CASE vector \in WithErrorCode
      BY <1>1, <1>2, <1>3 DEF StubInv, WithErrorCode
<1>4. CASE vector \notin WithErrorCode
  <2>1. Len(stack) = 5 /\ stack[5] = <<"rip", "thread">>
        BY <1>2, <1>4, FrameWords
  <2>2. Last(stack)[1] = "rip"
        BY <2>1 DEF Last
  <2> QED BY <1>1, <1>2, <2>2 DEF StubInv
<1> QED BY <1>3, <1>4

(* Every step of the kernel's entry and exit.                              *)
LEMMA StubsKeep == StubInv /\ (TrapsNext \/ UNCHANGED trapVars) => StubInv'
<1> SUFFICES ASSUME StubInv, TrapsNext \/ UNCHANGED trapVars PROVE StubInv'
    OBVIOUS
<1>1. ASSUME NEW v, v \in IRQS \/ v \in {DIVIDE, BOUND, DOUBLE_FAULT, PAGE_FAULT}, Raise(v)
      PROVE  StubInv'
      BY <1>1, RaiseKeeps DEF Vectors
<1>2. CASE InterruptRequest
      BY <1>1, <1>2 DEF InterruptRequest
<1>3. CASE DivideByZero
      BY <1>1, <1>3 DEF DivideByZero
<1>4. CASE BoundRangeExceeded
      BY <1>1, <1>4 DEF BoundRangeExceeded
<1>5. CASE DoubleFault
      BY <1>1, <1>5 DEF DoubleFault
<1>6. CASE \E v \in 0 .. PT_SIZE * PT_SIZE - 1 : PageFault(v)
      BY <1>1, <1>6 DEF PageFault
<1>7. CASE UNCHANGED trapVars
      BY <1>7 DEF trapVars, StubInv, StackBehindHandler, ShownIsTheFrame
<1> QED BY <1>2, <1>3, <1>4, <1>5, <1>6, <1>7, PushaqKeeps, HandlerReturnsKeeps,
           HandlerHaltsKeeps, PopaqKeeps, IretqKeeps DEF TrapsNext

-----------------------------------------------------------------------------
(***************************************************************************)
(* The loader.                                                             *)
(***************************************************************************)
(* A kernel the loader is made for, in sectors, and as the loader splits   *)
(* it: so many full batches, and sectors in the batch behind them.         *)
KernelSectors == bytes \div SECTOR_SIZE
FullBatches == KernelSectors \div READ_BATCH
LastSectors == KernelSectors % READ_BATCH

(* The first m sectors of the kernel are in the windows, the sectors of a  *)
(* batch one behind the other from the start of its window.                *)
LowHas(m) ==
    \A q \in Nat, r \in 0 .. READ_BATCH - 1 :
        READ_BATCH * q + r < m =>
           /\ WINDOW * (1 + q) + SECTOR_SIZE * r \in DOMAIN low
           /\ low[WINDOW * (1 + q) + SECTOR_SIZE * r]
                 = KERNEL_FIRST_LBA + READ_BATCH * q + r

(* The first m sectors of the kernel are in their places.                  *)
ImageHas(m) ==
    \A i \in 0 .. m - 1 : i \in DOMAIN image /\ image[i] = KERNEL_FIRST_LBA + i

(* k batches have been read.                                               *)
ReadSoFar(k) ==
    /\ count = FullBatches + 1 - k
    /\ rest = LastSectors
    /\ lba = KERNEL_FIRST_LBA + READ_BATCH * k
    /\ es = KERNEL_ADDRESS_ES + 4096 * k
    /\ k > 0 => bx = KERNEL_ADDRESS_BX
    /\ LowHas(READ_BATCH * k)

(* k batches have been copied.                                             *)
CopiedSoFar(k) ==
    /\ count = FullBatches + 1 - k
    /\ rest = LastSectors
    /\ src = KERNEL_READ_ADDRESS + WINDOW * k
    /\ dst = KERNEL_ADDRESS + READ_BATCH * SECTOR_SIZE * k
    /\ ImageHas(READ_BATCH * k)

LoadingInv ==
    /\ stage # "lost"
    /\ stage \in {"read", "protected"} => sectors = KernelSectors
    /\ stage = "read" => \E k \in 0 .. FullBatches : ReadSoFar(k)
    /\ stage \in {"protected", "copy"} => LowHas(KernelSectors)
    /\ stage = "copy" => \E k \in 0 .. FullBatches : CopiedSoFar(k)
    /\ stage \in {"A20", "kernel"} => ImageHas(KernelSectors)

LoaderInv ==
    /\ bytes \in Nat \ {0}
    /\ Loads(bytes) => LoadingInv

(* What a kernel of such a size comes to.                                  *)
LEMMA KernelCounts ==
    ASSUME bytes \in Nat \ {0}, Loads(bytes)
    PROVE  /\ KernelSectors \in 71 .. 629 /\ bytes = SECTOR_SIZE * KernelSectors
           /\ FullBatches \in 1 .. 8 /\ LastSectors \in 1 .. 69
           /\ KernelSectors = READ_BATCH * FullBatches + LastSectors
<1>1. PICK n \in Nat, z \in Nat :
          n = bytes \div 512 /\ z = bytes % 512 /\ bytes = n * 512 + z /\ z < 512
      OBVIOUS
<1>2. n \in 71 .. 630 /\ n % 70 # 0 /\ z = 0
      BY <1>1 DEF Loads, SECTOR_SIZE, READ_BATCH
<1>3. PICK q \in Nat, r \in Nat :
          q = n \div 70 /\ r = n % 70 /\ n = q * 70 + r /\ r < 70
      OBVIOUS
<1>4. q \in 1 .. 8 /\ r \in 1 .. 69 /\ n \in 71 .. 629
      BY <1>2, <1>3
<1>5. KernelSectors = n
      BY <1>1 DEF KernelSectors, SECTOR_SIZE
<1>6. FullBatches = q /\ LastSectors = r
      BY <1>3, <1>5 DEF FullBatches, LastSectors, READ_BATCH
<1> QED BY <1>1, <1>2, <1>3, <1>4, <1>5, <1>6 DEF SECTOR_SIZE, READ_BATCH

(* Taking the bytes apart and putting them together again, in two words    *)
(* whose bytes are exchanged, gives the size.                              *)
LEMMA SizeArrives ==
    ASSUME NEW n \in Nat, n < WORD_MODULUS * 256
    PROVE  xchg(Word(BigEndian(n), 0)) * WORD_MODULUS + xchg(Word(BigEndian(n), 2)) = n
<1>1. PICK weight : weight = <<WORD_MODULUS * 256, WORD_MODULUS, 256, 1>>
      OBVIOUS
<1>2. /\ weight[1] = WORD_MODULUS * 256 /\ weight[2] = WORD_MODULUS
      /\ weight[3] = 256 /\ weight[4] = 1
      BY <1>1
<1>3. PICK f : f = BigEndian(n)
      OBVIOUS
<1>4. \A i \in 0 .. 3 : f[i] = (n \div weight[i + 1]) % 256
      BY <1>1, <1>3 DEF BigEndian
<1>5. /\ f[0] = (n \div (WORD_MODULUS * 256)) % 256 /\ f[1] = (n \div WORD_MODULUS) % 256
      /\ f[2] = (n \div 256) % 256 /\ f[3] = (n \div 1) % 256
      BY <1>2, <1>4
<1>6. PICK a \in Nat, d \in Nat : n = a * 256 + d /\ d < 256 /\ a = n \div 256
      OBVIOUS
<1>7. PICK b \in Nat, c \in Nat :
          b = a \div 256 /\ c = a % 256 /\ a = b * 256 + c /\ c < 256
      OBVIOUS
<1>8. b < 256
      BY <1>6, <1>7 DEF WORD_MODULUS
<1>9. f[3] = d /\ f[2] = c
      BY <1>5, <1>6, <1>7
<1>10. f[1] = b /\ f[0] = 0
  <2>1. n = b * 65536 + (c * 256 + d) /\ c * 256 + d < 65536
        BY <1>6, <1>7
  <2>2. n \div WORD_MODULUS = b /\ n \div (WORD_MODULUS * 256) = 0
        BY <1>8, <2>1 DEF WORD_MODULUS
  <2> QED BY <1>5, <1>8, <2>2
<1>11. Word(f, 0) = 256 * b /\ Word(f, 2) = c + 256 * d
      BY <1>9, <1>10 DEF Word
<1>12. xchg(256 * b) = b
      BY <1>8 DEF xchg
<1>13. xchg(c + 256 * d) = 256 * c + d
      BY <1>6, <1>7 DEF xchg
<1>14. xchg(Word(f, 0)) = b /\ xchg(Word(f, 2)) = 256 * c + d
      BY <1>11, <1>12, <1>13
<1>15. b * WORD_MODULUS + (256 * c + d) = n
      BY <1>6, <1>7 DEF WORD_MODULUS
<1> QED BY <1>3, <1>14, <1>15

(* The conversion to cylinder, head and sector loses nothing.              *)
LEMMA SectorIsFound == ASSUME NEW s \in Nat PROVE SectorAt(LBA2CHS(s)) = s
<1>1. PICK c \in Int, h \in Int, e \in Int :
          c = s \div 36 /\ h = (s \div 18) % 2 /\ e = (s % 18) + 1
      OBVIOUS
<1>2. LBA2CHS(s) = [C |-> c, H |-> h, S |-> e]
      BY <1>1 DEF LBA2CHS, HPC, SPT
<1>3. SectorAt(LBA2CHS(s)) = (c * 2 + h) * 18 + e - 1
      BY <1>2 DEF SectorAt, HPC, SPT
<1> QED BY <1>1, <1>3

(* A batch that is read behind those that were read before.                *)
LEMMA BatchIsRead ==
    ASSUME NEW k \in 0 .. 8, NEW n \in 1 .. READ_BATCH, NEW seg,
           LowHas(READ_BATCH * k),
           seg * 16 + KERNEL_ADDRESS_BX = WINDOW * (1 + k),
           readSectors(KERNEL_FIRST_LBA + READ_BATCH * k, n, seg, KERNEL_ADDRESS_BX)
    PROVE  LowHas(READ_BATCH * k + n)'
<1>1. PICK a0 \in Nat : a0 = WINDOW * (1 + k)
      BY DEF WINDOW
<1>2. PICK s0 \in Nat : s0 = KERNEL_FIRST_LBA + READ_BATCH * k
      BY DEF KERNEL_FIRST_LBA, READ_BATCH
<1>3. n % 256 = n
      BY DEF READ_BATCH
<1>4. PICK new : new = [a \in {a0 + i * SECTOR_SIZE : i \in 0 .. n - 1} |->
                          s0 + (a - a0) \div SECTOR_SIZE]
      OBVIOUS
<1>5. low' = Overwrite(low, new)
      BY <1>1, <1>2, <1>3, <1>4, SectorIsFound DEF readSectors
<1>6. ASSUME NEW r \in 0 .. n - 1
      PROVE  a0 + 512 * r \in DOMAIN new /\ new[a0 + 512 * r] = s0 + r
  <2>1. PICK a \in Nat : a = a0 + 512 * r
        BY DEF READ_BATCH
  <2>2. a \in DOMAIN new
        BY <1>4, <2>1 DEF SECTOR_SIZE
  <2>3. (a - a0) \div 512 = r
        BY <2>1 DEF READ_BATCH
  <2> QED BY <1>4, <2>1, <2>2, <2>3 DEF SECTOR_SIZE
<1>7. ASSUME NEW q \in Nat, NEW r \in 0 .. 69, 70 * q + r < 70 * k + n
      PROVE  /\ 65536 * (1 + q) + 512 * r \in DOMAIN low'
             /\ low'[65536 * (1 + q) + 512 * r] = 10 + 70 * q + r
  <2>1. PICK a \in Nat : a = 65536 * (1 + q) + 512 * r
        OBVIOUS
  <2>2. CASE q < k
    <3>1. a \notin DOMAIN new
      <4>1. a < a0
            BY <1>1, <2>1, <2>2 DEF WINDOW
      <4>2. \A i \in 0 .. n - 1 : a # a0 + i * SECTOR_SIZE
            BY <4>1 DEF READ_BATCH, SECTOR_SIZE
      <4>3. DOMAIN new = {a0 + i * SECTOR_SIZE : i \in 0 .. n - 1}
            BY <1>4, Zenon
      <4> QED BY <4>2, <4>3, Zenon
    <3>2. a \in DOMAIN low /\ low[a] = 10 + 70 * q + r
      <4>1. 70 * q + r < 70 * k
            BY <2>2
      <4> QED BY <2>1, <4>1 DEF LowHas, READ_BATCH, WINDOW, SECTOR_SIZE, KERNEL_FIRST_LBA
    <3> QED BY <1>5, <2>1, <3>1, <3>2 DEF Overwrite
  <2>3. CASE ~(q < k)
    <3>1. q = k /\ r \in 0 .. n - 1
          BY <1>7, <2>3 DEF READ_BATCH
    <3>2. a = a0 + 512 * r
          BY <1>1, <2>1, <3>1 DEF WINDOW
    <3>3. a \in DOMAIN new /\ new[a] = s0 + r
          BY <1>6, <3>1, <3>2
    <3>4. s0 + r = 10 + 70 * q + r
          BY <1>2, <3>1 DEF KERNEL_FIRST_LBA, READ_BATCH
    <3> QED BY <1>5, <2>1, <3>3, <3>4 DEF Overwrite
  <2> QED BY <2>2, <2>3
<1> QED BY <1>7 DEF LowHas, READ_BATCH, WINDOW, SECTOR_SIZE, KERNEL_FIRST_LBA

(* A batch that is copied behind those that were copied before.            *)
LEMMA BatchIsCopied ==
    ASSUME bytes \in Nat \ {0}, Loads(bytes), LowHas(KernelSectors),
           NEW k \in 0 .. FullBatches, CopiedSoFar(k),
           NEW n \in 1 .. READ_BATCH, READ_BATCH * k + n <= KernelSectors,
           Move(n)
    PROVE  /\ ImageHas(READ_BATCH * k + n)'
           /\ dst' = KERNEL_ADDRESS + READ_BATCH * SECTOR_SIZE * k + n * SECTOR_SIZE
<1>1. k \in 0 .. 8 /\ KernelSectors \in 71 .. 629
      BY KernelCounts
<1>2. PICK first \in Nat : first = 70 * k
      BY <1>1
<1>3. (dst - KERNEL_ADDRESS) \div SECTOR_SIZE = first
      BY <1>1, <1>2 DEF CopiedSoFar, KERNEL_ADDRESS, READ_BATCH, SECTOR_SIZE
<1>4. PICK s0 \in Nat : s0 = src /\ s0 = 65536 * (1 + k)
  <2>1. src = 65536 * (1 + k) /\ src \in Nat
        BY <1>1 DEF CopiedSoFar, KERNEL_READ_ADDRESS, WINDOW
  <2> QED BY <2>1
<1>5. PICK new : new = [i \in first .. first + n - 1 |->
                        IF /\ s0 + (i - first) * SECTOR_SIZE \in DOMAIN low
                           /\ s0 + (i - first) * SECTOR_SIZE < VIDEO_MEMORY
                        THEN low[s0 + (i - first) * SECTOR_SIZE] ELSE NoSector]
      OBVIOUS
<1>6. image' = Overwrite(image, new)
      BY <1>3, <1>4, <1>5 DEF Move
<1>7. DOMAIN new = first .. first + n - 1
      BY <1>5
<1>8. ASSUME NEW r \in 0 .. n - 1 PROVE new[first + r] = 10 + (first + r)
  <2>1. PICK i \in first .. first + n - 1 : i = first + r
        BY <1>2 DEF READ_BATCH
  <2>2. PICK a \in Nat : a = 65536 * (1 + k) + 512 * r
        BY <1>1 DEF READ_BATCH
  <2>3. a = s0 + (i - first) * SECTOR_SIZE
        BY <1>1, <1>2, <1>4, <2>1, <2>2 DEF SECTOR_SIZE, READ_BATCH
  <2>4. a < VIDEO_MEMORY
        BY <1>1, <2>2 DEF VIDEO_MEMORY, READ_BATCH
  <2>5. a \in DOMAIN low /\ low[a] = 10 + 70 * k + r
    <3>1. k \in Nat /\ r \in 0 .. READ_BATCH - 1
          BY <1>1 DEF READ_BATCH
    <3>2. READ_BATCH * k + r < KernelSectors
          BY <1>1 DEF READ_BATCH
    <3> QED BY <2>2, <3>1, <3>2 DEF LowHas, READ_BATCH, WINDOW, SECTOR_SIZE, KERNEL_FIRST_LBA
  <2>6. new[i] = low[a]
        BY <1>5, <2>3, <2>4, <2>5
  <2> QED BY <1>1, <1>2, <2>1, <2>5, <2>6
<1>9. ASSUME NEW i \in 0 .. first + n - 1
      PROVE  i \in DOMAIN image' /\ image'[i] = 10 + i
  <2>1. CASE i < first
    <3>1. i \in DOMAIN image /\ image[i] = 10 + i
      <4>1. i \in 0 .. READ_BATCH * k - 1
            BY <1>2, <2>1 DEF READ_BATCH
      <4> QED BY <4>1 DEF CopiedSoFar, ImageHas, KERNEL_FIRST_LBA
    <3>2. i \notin DOMAIN new
          BY <1>2, <1>7, <2>1
    <3> QED BY <1>6, <3>1, <3>2 DEF Overwrite
  <2>2. CASE ~(i < first)
    <3>1. PICK r \in 0 .. n - 1 : i = first + r
      <4>1. i - first \in 0 .. n - 1 /\ i = first + (i - first)
            BY <1>2, <2>2 DEF READ_BATCH
      <4> QED BY <4>1
    <3>2. i \in DOMAIN new
          BY <1>2, <1>7, <2>2
    <3>3. new[i] = 10 + i
          BY <1>8, <3>1
    <3> QED BY <1>6, <3>2, <3>3 DEF Overwrite
  <2> QED BY <2>1, <2>2
<1>10. ImageHas(READ_BATCH * k + n)'
      BY <1>2, <1>9 DEF ImageHas, READ_BATCH, KERNEL_FIRST_LBA
<1>11. dst' = KERNEL_ADDRESS + READ_BATCH * SECTOR_SIZE * k + n * SECTOR_SIZE
      BY DEF Move, CopiedSoFar
<1> QED BY <1>10, <1>11

(* The loader starts with a kernel of some size.                           *)
LEMMA LoaderStarts == LoaderInit => LoaderInv
BY KernelBytesAssumption DEF LoaderInit, LoaderInv, LoadingInv

(* The counts depend on the size of the kernel alone.                      *)
LEMMA SameKernel ==
    bytes' = bytes => /\ KernelSectors' = KernelSectors
                      /\ FullBatches' = FullBatches
                      /\ LastSectors' = LastSectors
BY DEF KernelSectors, FullBatches, LastSectors

LEMMA ReadKernelSizeKeeps ==
    ASSUME LoaderInv, Loads(bytes), readKernelSize
    PROVE  LoadingInv'
<1>1. bytes \in Nat \ {0} /\ bytes' = bytes
      BY DEF LoaderInv, readKernelSize
<1>2. /\ KernelSectors \in 71 .. 629 /\ bytes = 512 * KernelSectors
      /\ FullBatches \in 1 .. 8 /\ LastSectors \in 1 .. 69
      BY <1>1, KernelCounts DEF SECTOR_SIZE
<1>3. PICK b \in Nat : b = bytes
      BY <1>1
<1>4. xchg(Word(BigEndian(b), 0)) * WORD_MODULUS + xchg(Word(BigEndian(b), 2)) = b
  <2>1. b < WORD_MODULUS * 256
        BY <1>2, <1>3 DEF WORD_MODULUS
  <2> QED BY <2>1, SizeArrives
<1>5. PICK n \in 71 .. 629 : n = KernelSectors
      BY <1>2
<1>6. b % SECTOR_SIZE = 0 /\ b \div SECTOR_SIZE = n
      BY <1>2, <1>3, <1>5 DEF SECTOR_SIZE
<1>7. /\ n \div READ_BATCH = FullBatches /\ n % READ_BATCH = LastSectors
      BY <1>5 DEF FullBatches, LastSectors
<1>8. 0 * WORD_MODULUS + (n + 0) = n
      BY DEF WORD_MODULUS
<1>9. /\ sectors' = n /\ count' = FullBatches + 1 /\ rest' = LastSectors
      /\ es' = KERNEL_ADDRESS_ES /\ lba' = KERNEL_FIRST_LBA /\ stage' = "read"
  <2>1. FullBatches < WORD_MODULUS /\ LastSectors # 0
        BY <1>2 DEF WORD_MODULUS
  <2> QED BY <1>3, <1>4, <1>6, <1>7, <1>8, <2>1 DEF readKernelSize
<1>10. ReadSoFar(0)'
  <2>1. LowHas(READ_BATCH * 0)'
        BY DEF LowHas, READ_BATCH
  <2> QED BY <1>1, <1>2, <1>9, <2>1, SameKernel
          DEF ReadSoFar, KERNEL_FIRST_LBA, READ_BATCH, KERNEL_ADDRESS_ES
<1> QED BY <1>1, <1>2, <1>5, <1>9, <1>10, SameKernel DEF LoadingInv

LEMMA ReadLoopKeeps ==
    ASSUME LoaderInv, Loads(bytes), readLoop
    PROVE  LoadingInv'
<1>1. bytes \in Nat \ {0} /\ bytes' = bytes
      BY DEF LoaderInv, readLoop, sizes
<1>2. /\ KernelSectors \in 71 .. 629 /\ FullBatches \in 1 .. 8
      /\ KernelSectors = 70 * FullBatches + LastSectors
      BY <1>1, KernelCounts DEF LoaderInv, READ_BATCH
<1>3. PICK k \in 0 .. FullBatches : ReadSoFar(k)
      BY DEF LoaderInv, LoadingInv, readLoop
<1>4. k + 1 \in 0 .. FullBatches /\ k \in 0 .. 7
      BY <1>2, <1>3 DEF ReadSoFar, readLoop
<1>5. /\ count' = FullBatches + 1 - (k + 1)
      /\ rest' = LastSectors
      /\ lba' = KERNEL_FIRST_LBA + READ_BATCH * (k + 1)
      /\ bx' = KERNEL_ADDRESS_BX
      BY <1>2, <1>3, <1>4 DEF ReadSoFar, readLoop, KERNEL_FIRST_LBA, READ_BATCH
<1>6. es' = KERNEL_ADDRESS_ES + 4096 * (k + 1)
  <2>1. PICK e \in Nat : e = es /\ e = 4095 + 4096 * k
        BY <1>3, <1>4 DEF ReadSoFar, KERNEL_ADDRESS_ES
  <2>2. es' = (e + WINDOW \div 16) % WORD_MODULUS
        BY <2>1 DEF readLoop
  <2> QED BY <1>4, <2>1, <2>2 DEF WINDOW, WORD_MODULUS, KERNEL_ADDRESS_ES
<1>7. es * 16 + KERNEL_ADDRESS_BX = WINDOW * (1 + k)
      BY <1>3, <1>4 DEF ReadSoFar, KERNEL_ADDRESS_ES, KERNEL_ADDRESS_BX, WINDOW
<1>8. LowHas(READ_BATCH * k + READ_BATCH)'
  <2>1. readSectors(KERNEL_FIRST_LBA + READ_BATCH * k, READ_BATCH, es, KERNEL_ADDRESS_BX)
        BY <1>3 DEF ReadSoFar, readLoop
  <2>2. LowHas(READ_BATCH * k) /\ k \in 0 .. 8 /\ READ_BATCH \in 1 .. READ_BATCH
        BY <1>3, <1>4 DEF ReadSoFar, READ_BATCH
  <2> QED BY <1>7, <2>1, <2>2, BatchIsRead
<1>9. READ_BATCH * k + READ_BATCH = READ_BATCH * (k + 1)
      BY <1>4 DEF READ_BATCH
<1>10. ReadSoFar(k + 1)'
  <2>1. LowHas(READ_BATCH * (k + 1))'
        BY <1>8, <1>9
  <2> QED BY <1>1, <1>5, <1>6, <2>1, SameKernel DEF ReadSoFar
<1>11. stage' = "read"
      BY <1>4, <1>7 DEF readLoop, WINDOW, LOADER_END, KERNEL_SIZE_ADDRESS, SECTOR_SIZE
<1>12. sectors' = KernelSectors
      BY DEF LoaderInv, LoadingInv, readLoop, sizes
<1> QED BY <1>1, <1>4, <1>10, <1>11, <1>12, SameKernel DEF LoadingInv

LEMMA ReadLastBatchKeeps ==
    ASSUME LoaderInv, Loads(bytes), readLastBatch
    PROVE  LoadingInv'
<1>1. bytes \in Nat \ {0} /\ bytes' = bytes
      BY DEF LoaderInv, readLastBatch, sizes
<1>2. /\ FullBatches \in 1 .. 8 /\ LastSectors \in 1 .. 69
      /\ KernelSectors = READ_BATCH * FullBatches + LastSectors
      BY <1>1, KernelCounts DEF LoaderInv
<1>3. PICK k \in 0 .. FullBatches : ReadSoFar(k)
      BY DEF LoaderInv, LoadingInv, readLastBatch
<1>4. k = FullBatches
      BY <1>2, <1>3 DEF ReadSoFar, readLastBatch
<1>5. k \in 1 .. 8 /\ bx = KERNEL_ADDRESS_BX
      BY <1>2, <1>3, <1>4 DEF ReadSoFar
<1>6. es * 16 + KERNEL_ADDRESS_BX = WINDOW * (1 + k)
      BY <1>3, <1>5 DEF ReadSoFar, KERNEL_ADDRESS_ES, KERNEL_ADDRESS_BX, WINDOW
<1>7. LowHas(KernelSectors)'
  <2>1. readSectors(KERNEL_FIRST_LBA + READ_BATCH * k, LastSectors, es, KERNEL_ADDRESS_BX)
        BY <1>3, <1>5 DEF ReadSoFar, readLastBatch
  <2>2. LowHas(READ_BATCH * k) /\ k \in 0 .. 8 /\ LastSectors \in 1 .. READ_BATCH
        BY <1>2, <1>3, <1>5 DEF ReadSoFar, READ_BATCH
  <2>3. LowHas(READ_BATCH * k + LastSectors)'
        BY <1>1, <1>6, <2>1, <2>2, BatchIsRead, SameKernel
  <2> QED BY <1>1, <1>2, <1>4, <2>3, SameKernel
<1>8. stage' = "protected"
  <2>1. es * 16 + bx = WINDOW * (1 + k)
        BY <1>5, <1>6
  <2> QED BY <1>5, <2>1
          DEF readLastBatch, WINDOW, LOADER_END, KERNEL_SIZE_ADDRESS, SECTOR_SIZE
<1>9. sectors' = KernelSectors
      BY DEF LoaderInv, LoadingInv, readLastBatch, sizes
<1> QED BY <1>1, <1>7, <1>8, <1>9, SameKernel DEF LoadingInv

LEMMA Bits32Keeps ==
    ASSUME LoaderInv, Loads(bytes), bits32
    PROVE  LoadingInv'
<1>1. bytes \in Nat \ {0} /\ bytes' = bytes /\ low' = low /\ image' = image
      BY DEF LoaderInv, bits32, sizes, reading
<1>2. FullBatches \in 1 .. 8 /\ LastSectors \in 1 .. 69
      BY <1>1, KernelCounts DEF LoaderInv
<1>3. sectors = KernelSectors /\ LowHas(KernelSectors)
      BY DEF LoaderInv, LoadingInv, bits32
<1>4. /\ stage' = "copy" /\ count' = FullBatches + 1 - 0 /\ rest' = LastSectors
      /\ src' = KERNEL_READ_ADDRESS + WINDOW * 0
      /\ dst' = KERNEL_ADDRESS + READ_BATCH * SECTOR_SIZE * 0
      BY <1>2, <1>3 DEF bits32, FullBatches, LastSectors, KERNEL_READ_ADDRESS,
          KERNEL_ADDRESS, WINDOW, READ_BATCH, SECTOR_SIZE
<1>5. CopiedSoFar(0)'
  <2>1. ImageHas(READ_BATCH * 0)'
        BY DEF ImageHas, READ_BATCH
  <2> QED BY <1>1, <1>4, <2>1, SameKernel DEF CopiedSoFar
<1>6. LowHas(KernelSectors)'
      BY <1>1, <1>3, SameKernel DEF LowHas
<1> QED BY <1>1, <1>2, <1>4, <1>5, <1>6, SameKernel DEF LoadingInv

LEMMA KernelCopyLoopKeeps ==
    ASSUME LoaderInv, Loads(bytes), kernelCopyLoop
    PROVE  LoadingInv'
<1>1. /\ bytes \in Nat \ {0} /\ bytes' = bytes /\ low' = low
      /\ stage = "copy" /\ stage' = "copy"
      BY DEF LoaderInv, kernelCopyLoop, sizes, reading
<1>2. /\ FullBatches \in 1 .. 8 /\ LastSectors \in 1 .. 69
      /\ KernelSectors = READ_BATCH * FullBatches + LastSectors
      BY <1>1, KernelCounts
<1>3. PICK k \in 0 .. FullBatches : CopiedSoFar(k)
      BY <1>1 DEF LoaderInv, LoadingInv
<1>4. k + 1 \in 0 .. FullBatches /\ k \in 0 .. 7
      BY <1>2, <1>3 DEF CopiedSoFar, kernelCopyLoop
<1>5. LowHas(KernelSectors)
      BY <1>1 DEF LoaderInv, LoadingInv
<1>6. /\ ImageHas(READ_BATCH * k + READ_BATCH)'
      /\ dst' = KERNEL_ADDRESS + READ_BATCH * SECTOR_SIZE * k + READ_BATCH * SECTOR_SIZE
  <2>1. READ_BATCH \in 1 .. READ_BATCH /\ READ_BATCH * k + READ_BATCH <= KernelSectors
        BY <1>2, <1>4 DEF READ_BATCH
  <2>2. Move(READ_BATCH)
        BY DEF kernelCopyLoop
  <2> QED BY <1>1, <1>3, <1>5, <2>1, <2>2, BatchIsCopied
<1>7. READ_BATCH * k + READ_BATCH = READ_BATCH * (k + 1)
      BY <1>4 DEF READ_BATCH
<1>8. /\ count' = FullBatches + 1 - (k + 1)
      /\ rest' = LastSectors
      /\ src' = KERNEL_READ_ADDRESS + WINDOW * (k + 1)
      BY <1>2, <1>3, <1>4 DEF CopiedSoFar, kernelCopyLoop, KERNEL_READ_ADDRESS, WINDOW
<1>9. dst' = KERNEL_ADDRESS + READ_BATCH * SECTOR_SIZE * (k + 1)
      BY <1>4, <1>6 DEF KERNEL_ADDRESS, READ_BATCH, SECTOR_SIZE
<1>10. CopiedSoFar(k + 1)'
  <2>1. ImageHas(READ_BATCH * (k + 1))'
        BY <1>6, <1>7
  <2> QED BY <1>1, <1>8, <1>9, <2>1, SameKernel DEF CopiedSoFar
<1>11. LowHas(KernelSectors)'
      BY <1>1, <1>5, SameKernel DEF LowHas
<1> QED BY <1>1, <1>4, <1>10, <1>11, SameKernel DEF LoadingInv

LEMMA CopyLastBatchKeeps ==
    ASSUME LoaderInv, Loads(bytes), copyLastBatch
    PROVE  LoadingInv'
<1>1. /\ bytes \in Nat \ {0} /\ bytes' = bytes
      /\ stage = "copy" /\ stage' = "A20"
      BY DEF LoaderInv, copyLastBatch, sizes
<1>2. /\ FullBatches \in 1 .. 8 /\ LastSectors \in 1 .. 69
      /\ KernelSectors = READ_BATCH * FullBatches + LastSectors
      BY <1>1, KernelCounts
<1>3. PICK k \in 0 .. FullBatches : CopiedSoFar(k)
      BY <1>1 DEF LoaderInv, LoadingInv
<1>4. k = FullBatches
      BY <1>2, <1>3 DEF CopiedSoFar, copyLastBatch
<1>5. LowHas(KernelSectors)
      BY <1>1 DEF LoaderInv, LoadingInv
<1>6. ImageHas(READ_BATCH * k + LastSectors)'
  <2>1. LastSectors \in 1 .. READ_BATCH /\ READ_BATCH * k + LastSectors <= KernelSectors
        BY <1>2, <1>4 DEF READ_BATCH
  <2>2. Move(LastSectors)
        BY <1>3 DEF copyLastBatch, CopiedSoFar
  <2>3. PICK n \in 1 .. READ_BATCH : n = LastSectors
        BY <2>1
  <2>4. ImageHas(READ_BATCH * k + n)'
        BY <1>1, <1>3, <1>5, <2>1, <2>2, <2>3, BatchIsCopied
  <2> QED BY <1>1, <2>3, <2>4, SameKernel
<1>7. ImageHas(KernelSectors)'
      BY <1>1, <1>2, <1>4, <1>6, SameKernel
<1> QED BY <1>1, <1>7 DEF LoadingInv

(* The steps of the loader, and those of others.                           *)
LEMMA LoaderKeeps ==
    ASSUME LoaderInv, LoaderNext \/ UNCHANGED loaderVars
    PROVE  LoaderInv'
<1>1. bytes' = bytes
      BY DEF LoaderNext, BootMain, readKernelSize, readLoop, readLastBatch,
          ReadFails, Failed, bits32, kernelCopyLoop, copyLastBatch, is_A20_on,
          sizes, loaderVars
<1>2. bytes' \in Nat \ {0}
      BY <1>1 DEF LoaderInv
<1>3. SUFFICES ASSUME Loads(bytes) PROVE LoadingInv'
      BY <1>1, <1>2 DEF LoaderInv, Loads
<1>4. LoadingInv
      BY <1>3 DEF LoaderInv
<1>5. CASE BootMain
      BY <1>5 DEF BootMain, LoadingInv
<1>6. CASE ReadFails
      BY <1>6 DEF ReadFails, Failed, LoadingInv
<1>7. CASE is_A20_on
  <2>1. stage = "A20" /\ stage' \in {"kernel", "halted"} /\ image' = image
        BY <1>7 DEF is_A20_on, copying
  <2>2. ImageHas(KernelSectors)'
        BY <1>1, <1>4, <2>1, SameKernel DEF LoadingInv, ImageHas
  <2> QED BY <2>1, <2>2 DEF LoadingInv
<1>8. CASE UNCHANGED loaderVars
      BY <1>1, <1>4, <1>8, SameKernel
         DEF loaderVars, sizes, reading, copying, LoadingInv, ReadSoFar, CopiedSoFar,
             LowHas, ImageHas
<1> QED BY <1>3, <1>5, <1>6, <1>7, <1>8, ReadKernelSizeKeeps, ReadLoopKeeps,
           ReadLastBatchKeeps, Bits32Keeps, KernelCopyLoopKeeps, CopyLastBatchKeeps
        DEF LoaderNext

(* When the loader jumps, the kernel is there.                             *)
LEMMA KernelArrives == LoaderInv => KernelIsWhole
<1> SUFFICES ASSUME LoaderInv, Loads(bytes)
             PROVE  stage # "lost" /\ (stage = "kernel" => Whole)
    BY DEF KernelIsWhole
<1>1. LoadingInv
      BY DEF LoaderInv
<1>2. ASSUME stage = "kernel" PROVE Whole
  <2>1. ImageHas(KernelSectors)
        BY <1>1, <1>2 DEF LoadingInv
  <2>2. KernelSectors \in 71 .. 629 /\ bytes = 512 * KernelSectors
        BY KernelCounts DEF LoaderInv, SECTOR_SIZE
  <2>3. PICK n \in 71 .. 629 : n = KernelSectors /\ bytes = 512 * n
        BY <2>2
  <2>4. (bytes - 1) \div SECTOR_SIZE = n - 1
        BY <2>3 DEF SECTOR_SIZE
  <2> QED BY <2>1, <2>3, <2>4 DEF Whole, ImageHas
<1> QED BY <1>1, <1>2 DEF LoadingInv

-----------------------------------------------------------------------------
(***************************************************************************)
(* The theorems.                                                           *)
(***************************************************************************)
(* Each part keeps its own invariant, and no part disturbs another.        *)
LEMMA PartsAreKept ==
    MachineSpec => [](LoaderInv /\ PagingInv /\ StubInv)
<1>1. MachineInit => LoaderInv /\ PagingInv /\ StubInv
      BY LoaderStarts, PagingStarts, StubsStart DEF MachineInit
<1>2. LoaderInv /\ PagingInv /\ StubInv /\ [MachineNext]_machineVars
         => (LoaderInv /\ PagingInv /\ StubInv)'
  <2>1. SUFFICES ASSUME LoaderInv, PagingInv, StubInv, [MachineNext]_machineVars
                 PROVE  LoaderInv' /\ PagingInv' /\ StubInv'
        OBVIOUS
  <2>2. /\ LoaderNext \/ UNCHANGED loaderVars
        /\ PagingNext \/ UNCHANGED pagingVars
        /\ TrapsNext \/ UNCHANGED trapVars
        BY <2>1 DEF MachineNext, TrapsNext, PagingNext, machineVars
  <2>3. LoaderInv'
        BY <2>1, <2>2, LoaderKeeps
  <2> QED BY <2>1, <2>2, <2>3, PagingKeeps, StubsKeep
<1> QED BY <1>1, <1>2, PTL DEF MachineSpec

(* A kernel of any size that ssl.asm is made for (full sectors, 71 to 629  *)
(* of them, no full last batch) is never read over the loader, and lies    *)
(* whole and in order at its address when ssl.asm jumps to it.             *)
THEOREM LoadedKernelIsWhole == MachineSpec => []KernelIsWhole
BY PartsAreKept, KernelArrives, PTL

(* The tables that __init.asm fills map every page below the arena to      *)
(* itself, leave the pages of the arena absent, with their own address     *)
(* ready for PageAlloc to set the bit, and map nothing behind it - for     *)
(* tables of any size; behind the first page table, if memory was 0 before.*)
THEOREM MemoryMapsToItself == MachineSpec => []MapsToItself
BY PartsAreKept, TablesMap, PTL

(* Whatever registers and words of its home area a handler changes, the    *)
(* stubs give the thread rax, rcx and rdx back, never one register in      *)
(* another, and its address, all but the one of the double fault; and the  *)
(* handlers that halt, as the repository's build has them, print the frame *)
(* the processor pushed.                                                   *)
THEOREM InterruptsReturn == MachineSpec => []TrapsComeBack
<1>1. StubInv => TrapsComeBack
      BY DEF StubInv, TrapsComeBack, ResumesAsItWas, GivenBack
<1> QED BY <1>1, PartsAreKept, PTL
===============================================================================
