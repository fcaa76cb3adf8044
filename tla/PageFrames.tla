----------------------------- MODULE PageFrames -----------------------------
(***************************************************************************)
(* What the page allocator of kernel/memory.c promises its callers: the    *)
(* arena of Pages page frames that starts at MEMORY_MAP_ADDRESS, and which *)
(* of them are taken.                                                      *)
(*                                                                         *)
(* PageAlloc and PageFree run on the only thread of the kernel and no      *)
(* interrupt handler calls them, so each is one action.  PageScan has the  *)
(* loops they run and the two tables they keep, the bitmap and the page    *)
(* table at PT_3_ADDR, each with its own indices, and implements this      *)
(* module, which has one bit for each frame.                               *)
(*                                                                         *)
(* Neither function checks its range: PageAlloc may mark bits behind the   *)
(* end of the bitmap, and PageFree clears whatever bit it is asked to      *)
(* clear.  A store outside the two tables overwrites memory of somebody    *)
(* else, and what the kernel does afterwards is not defined by its source: *)
(* status records it, and the behaviour ends there.                        *)
(***************************************************************************)
EXTENDS Integers, FiniteSetsExt

CONSTANTS
    Pages,        \* BitMap.bit_cnt, the number of page frames (512)
    MaxRequest    \* bound: the most pages one request asks for

ASSUME PagesAssumption == Pages \in Nat \ {0} /\ MaxRequest \in Nat

VARIABLES
    bits,         \* is the frame taken?
    status        \* "ok", or "corrupted" after a store outside the tables

frameVars == <<bits, status>>

Frames == 0 .. Pages - 1

NoPage == -1

FramesTypeOK ==
    /\ bits \in [Frames -> BOOLEAN]
    /\ status \in {"ok", "corrupted"}

(* InitMemory sets the length of the bitmap and leaves its bits as it      *)
(* finds them.                                                             *)
FramesInit ==
    /\ bits \in [Frames -> BOOLEAN]
    /\ status = "ok"

-----------------------------------------------------------------------------
(***************************************************************************)
(* Which page a request is given.                                          *)
(***************************************************************************)
IsFreeRun(first, n) ==
    \A p \in first .. first + n - 1 : p \in Frames /\ ~bits[p]

FreeRuns(n) == {s \in Frames : IsFreeRun(s, n)}

(* The free pages at the end of the arena, when the last one is free.      *)
TrailingRuns == {s \in Frames : IsFreeRun(s, Pages - s)}

GetFirstFreePageNumber ==
    IF FreeRuns(1) = {} THEN NoPage ELSE Min(FreeRuns(1))

(* The scan for n consecutive pages checks its byte index against the      *)
(* number of BITS.  A run that reaches the last page and is too short is   *)
(* therefore continued in the memory behind the bitmap, and depending on   *)
(* what is there the scan fails, answers the start of that run, or finds a *)
(* run that lies behind the bitmap altogether (Pages stands for those).    *)
GetFreePagesNumberStart(n) ==
    IF FreeRuns(n) # {} THEN {Min(FreeRuns(n))}
    ELSE IF TrailingRuns = {} THEN {NoPage}
    ELSE {NoPage, Min(TrailingRuns), Pages}

(* The pages that PageAlloc(n) may answer; NoPage is the NULL answer.      *)
Answers(n) ==
    CASE n = 0 -> {NoPage}
      [] n = 1 -> {GetFirstFreePageNumber}
      [] OTHER -> GetFreePagesNumberStart(n)

-----------------------------------------------------------------------------
(***************************************************************************)
(* These two operators are steps of the allocator and the building blocks  *)
(* of the block allocator in BlockHeap.                                    *)
(***************************************************************************)
TakePages(first, n) ==
    IF first = NoPage
    THEN UNCHANGED frameVars
    ELSE LET taken == first .. first + n - 1 IN
         /\ bits' = [p \in Frames |-> p \in taken \/ bits[p]]
         /\ status' = IF taken \subseteq Frames THEN status ELSE "corrupted"

ReleasePage(page) ==
    IF page \in Frames
    THEN bits' = [bits EXCEPT ![page] = FALSE] /\ UNCHANGED status
    ELSE status' = "corrupted" /\ UNCHANGED bits

-----------------------------------------------------------------------------
PageAlloc(n) ==
    /\ status = "ok"
    /\ \E first \in Answers(n) : TakePages(first, n)

(* PageFree takes any number; Pages stands for every number that is not    *)
(* the number of a frame.                                                  *)
PageFree(page) ==
    /\ status = "ok"
    /\ ReleasePage(page)

FramesNext ==
    \/ \E n \in 0 .. MaxRequest : PageAlloc(n)
    \/ \E page \in 0 .. Pages : PageFree(page)

FramesSpec == FramesInit /\ [][FramesNext]_frameVars

=============================================================================
