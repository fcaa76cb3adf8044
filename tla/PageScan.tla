------------------------------ MODULE PageScan ------------------------------
(***************************************************************************)
(* PageAlloc as the loops that kernel/memory.c runs: the search for one    *)
(* free page, the search for several consecutive ones with its byte index  *)
(* i and its bit index j, and the marking of the pages found, one iteration*)
(* per step.  Interrupt handlers may run between two iterations; none of   *)
(* them touches the bitmap or the page table.                              *)
(*                                                                         *)
(* Each table has indices of its own: a byte and a mask for the bitmap, the*)
(* number of an entry for the page table.  They are computed separately, in*)
(* three places (one page, many pages, PageFree); the search reads the bits*)
(* with a mask of yet another form.                                        *)
(*                                                                         *)
(* The module implements PageFrames (see Abstract at its end).             *)
(*                                                                         *)
(* A definition whose name has an underscore and a few words after that of *)
(* another definition is that definition with a plausible mistake: the     *)
(* properties below must reject it.                                        *)
(***************************************************************************)
EXTENDS Integers, FiniteSetsExt

CONSTANTS
    Bytes,        \* bit_cnt / BITS_8, the bytes of the bitmap (64)
    BITS_8,       \* bits of a byte (8; the code also writes 7 for BITS_8 - 1)
    MaxRequest    \* bound: the most pages one request asks for

Pages == Bytes * BITS_8

ASSUME ScanAssumption ==
    /\ Bytes \in Nat \ {0}
    /\ BITS_8 \in Nat \ {0, 1}
    /\ MaxRequest \in Nat

VARIABLES
    BitMap,                 \* BitMap.bits: the places of the bits that are
                            \* set in each byte; place 0 is that of 1U << 0
    present,                \* bit 0 of each entry of the table at PT_3_ADDR
    status,                 \* as in PageFrames
    stale,                  \* history: pages whose bit InitMemory found set
                            \* and that nobody has released since
    pc,                     \* "idle", or where PageAlloc is
    numberOfPages,          \* its argument
    i, j,                   \* byte and bit that the search looks at
    start,                  \* where the run begins; then pageNumber
    pagesCounter,           \* pages counted, or marked, so far
    bitmapIndex, bitIndex,  \* byte and bit that is marked next
    idx                     \* entry that is marked next

tables == <<BitMap, present, status, stale>>
searchVars == <<i, j, start, pagesCounter>>
markVars == <<bitmapIndex, bitIndex, idx>>
vars == <<tables, pc, numberOfPages, searchVars, markVars>>

PagesOfArena == 0 .. Pages - 1

Bit(byte, bit) == byte * BITS_8 + bit

(* MASK_BIT_7 >> bit, by the place of its bit.                             *)
MASK_BIT_7(bit) == BITS_8 - 1 - bit

(* The mask that marks a page in its byte, and clears it there.            *)
MaskOf(page) == BITS_8 - 1 - (page % BITS_8)

IsSet(byte, bit) == MASK_BIT_7(bit) \in BitMap[byte]

(* The bitmap, bit by bit from its first byte on.                          *)
bits == [p \in PagesOfArena |-> IsSet(p \div BITS_8, p % BITS_8)]

ScanTypeOK ==
    /\ BitMap \in [0 .. Bytes - 1 -> SUBSET (0 .. BITS_8 - 1)]
    /\ present \in [PagesOfArena -> BOOLEAN]
    /\ status \in {"ok", "corrupted"}
    /\ stale \subseteq PagesOfArena
    /\ pc \in {"idle", "first", "run", "count", "one", "mark"}
    /\ numberOfPages \in 0 .. MaxRequest
    /\ i \in 0 .. Pages
    /\ j \in 0 .. BITS_8 - 1
    /\ start \in 0 .. Bit(Pages, BITS_8 - 1)
    /\ pagesCounter \in 0 .. MaxRequest
    /\ bitmapIndex \in Nat /\ bitIndex \in 0 .. BITS_8 - 1 /\ idx \in Nat

(* InitMemory sets the length of the bitmap and leaves its bits as it      *)
(* finds them; the boot code has built the page table.                     *)
Init ==
    /\ BitMap \in [0 .. Bytes - 1 -> SUBSET (0 .. BITS_8 - 1)]
    /\ present = [p \in PagesOfArena |-> FALSE]
    /\ status = "ok"
    /\ stale = {p \in PagesOfArena : bits[p]}
    /\ pc = "idle"
    /\ numberOfPages = 0
    /\ i = 0 /\ j = 0 /\ start = 0 /\ pagesCounter = 0
    /\ bitmapIndex = 0 /\ bitIndex = 0 /\ idx = 0

-----------------------------------------------------------------------------
(***************************************************************************)
(* Stores into the two tables.  One that is outside overwrites memory of   *)
(* somebody else.                                                          *)
(***************************************************************************)
StoresInside(byte, entry) ==
    status' = IF byte < Bytes /\ entry < Pages THEN status ELSE "corrupted"

Mark(byte, mask, entry) ==
    /\ BitMap' = [b \in DOMAIN BitMap |->
                    IF b = byte THEN BitMap[b] \cup {mask} ELSE BitMap[b]]
    /\ present' = [p \in DOMAIN present |-> p = entry \/ present[p]]
    /\ StoresInside(byte, entry)
    /\ UNCHANGED stale

Clear(byte, mask, entry) ==
    /\ BitMap' = [b \in DOMAIN BitMap |->
                    IF b = byte THEN BitMap[b] \ {mask} ELSE BitMap[b]]
    /\ present' = [p \in DOMAIN present |-> p # entry /\ present[p]]
    /\ StoresInside(byte, entry)
    /\ stale' = stale \ {entry}

-----------------------------------------------------------------------------
(***************************************************************************)
(* Calls.  The locals of a call that has returned are reset, they mean     *)
(* nothing to the next one.                                                *)
(***************************************************************************)
Return ==
    /\ pc' = "idle"
    /\ numberOfPages' = 0
    /\ i' = 0 /\ j' = 0 /\ start' = 0 /\ pagesCounter' = 0
    /\ bitmapIndex' = 0 /\ bitIndex' = 0 /\ idx' = 0

Request(n) ==
    /\ pc = "idle" /\ status = "ok"
    /\ n # 0                        \* PageAlloc(0) returns NULL at once
    /\ pc' = IF n = 1 THEN "first" ELSE "run"
    /\ numberOfPages' = n
    /\ UNCHANGED <<tables, searchVars, markVars>>

PageFree(page) ==
    /\ pc = "idle" /\ status = "ok"
    /\ Clear(page \div BITS_8, MaskOf(page), page)
    /\ UNCHANGED <<pc, numberOfPages, searchVars, markVars>>

(* The search has found a page, or the first one of several.               *)
FoundOne(pageNumber) ==
    /\ pc' = "one"
    /\ start' = pageNumber
    /\ i' = 0 /\ j' = 0
    /\ UNCHANGED <<numberOfPages, pagesCounter, markVars>>

FoundRun(pageNumber) ==
    /\ pc' = "mark"
    /\ start' = pageNumber
    /\ pagesCounter' = 0
    /\ bitmapIndex' = pageNumber \div BITS_8
    /\ bitIndex' = pageNumber % BITS_8
    /\ idx' = pageNumber
    /\ i' = 0 /\ j' = 0
    /\ UNCHANGED numberOfPages

-----------------------------------------------------------------------------
(***************************************************************************)
(* GetFirstFreePageNumber: the first byte and bit that is clear.           *)
(***************************************************************************)
LookForOne_BitsNotRestarted ==
    /\ pc = "first"
    /\ IF i = Bytes THEN Return
       ELSE IF ~IsSet(i, j) THEN FoundOne(Bit(i, j))
       ELSE /\ i' = IF j = BITS_8 - 1 THEN i + 1 ELSE i
            /\ j' = IF j = BITS_8 - 1 THEN j ELSE j + 1
            /\ UNCHANGED <<pc, numberOfPages, start, pagesCounter, markVars>>
    /\ UNCHANGED tables

LookForOne ==
    /\ pc = "first"
    /\ IF i = Bytes THEN Return
       ELSE IF ~IsSet(i, j) THEN FoundOne(Bit(i, j))
       ELSE /\ i' = IF j = BITS_8 - 1 THEN i + 1 ELSE i
            /\ j' = (j + 1) % BITS_8
            /\ UNCHANGED <<pc, numberOfPages, start, pagesCounter, markVars>>
    /\ UNCHANGED tables

(***************************************************************************)
(* GetFreePagesNumberStart: the two for loops begin a run at each bit, the *)
(* while loop counts its free pages and moves i and j past it.             *)
(***************************************************************************)
BeginRun ==
    /\ pc = "run"
    /\ pc' = "count"
    /\ start' = Bit(i, j)
    /\ pagesCounter' = 0
    /\ UNCHANGED <<tables, numberOfPages, i, j, markVars>>

(* What a read of the bitmap finds there.  Behind its end it finds the     *)
(* memory of somebody else, which may hold anything.                       *)
BitRead == IF i < Bytes THEN {IsSet(i, j)} ELSE BOOLEAN

(* The bound of i in the while loop: bit_cnt, where bytes are meant.        *)
ByteLimit == Pages

CountPage ==
    /\ pc = "count"
    /\ FALSE \in BitRead
    /\ pagesCounter < numberOfPages
    /\ IF j < BITS_8 - 1
       THEN /\ j' = j + 1 /\ UNCHANGED i
            /\ pagesCounter' = pagesCounter + 1
            /\ UNCHANGED <<pc, numberOfPages, start, markVars>>
       ELSE IF i < ByteLimit
       THEN /\ i' = i + 1 /\ j' = 0
            /\ pagesCounter' = pagesCounter + 1
            /\ UNCHANGED <<pc, numberOfPages, start, markVars>>
       ELSE Return
    /\ UNCHANGED tables

(* The while loop has stopped: at a taken page, or with enough pages.  The *)
(* for loop over the bits of a byte does not look at i, so a search that   *)
(* has left the bitmap only ends at the end of the byte it is in.          *)
(* NextRun is the step of these for loops.                                 *)
NextRun_RestOfByteSkipped ==
    IF i + 1 < Bytes
    THEN /\ pc' = "run" /\ i' = i + 1 /\ j' = 0
         /\ UNCHANGED <<numberOfPages, start, pagesCounter, markVars>>
    ELSE Return

NextRun_SameBitAgain ==
    /\ pc' = "run"
    /\ UNCHANGED <<numberOfPages, i, j, start, pagesCounter, markVars>>

NextRun ==
    IF j < BITS_8 - 1
    THEN /\ pc' = "run" /\ j' = j + 1
         /\ UNCHANGED <<numberOfPages, i, start, pagesCounter, markVars>>
    ELSE IF i + 1 < Bytes
    THEN /\ pc' = "run" /\ i' = i + 1 /\ j' = 0
         /\ UNCHANGED <<numberOfPages, start, pagesCounter, markVars>>
    ELSE Return

EndRun ==
    /\ pc = "count"
    /\ TRUE \in BitRead \/ pagesCounter = numberOfPages
    /\ IF pagesCounter = numberOfPages THEN FoundRun(start) ELSE NextRun
    /\ UNCHANGED tables

-----------------------------------------------------------------------------
(***************************************************************************)
(* PageAlloc marks the pages in both tables, one page per iteration.       *)
(***************************************************************************)
MarkOnePage ==
    /\ pc = "one"
    /\ Mark(start \div BITS_8, MaskOf(start), start)
    /\ Return

(* The next bit is the first one of the next byte after the last of a byte.*)
NextBit_ByteNotAdvanced ==
    /\ bitIndex' = IF bitIndex < BITS_8 - 1 THEN bitIndex + 1 ELSE 0
    /\ UNCHANGED bitmapIndex

NextBit ==
    IF bitIndex < BITS_8 - 1
    THEN bitIndex' = bitIndex + 1 /\ UNCHANGED bitmapIndex
    ELSE bitmapIndex' = bitmapIndex + 1 /\ bitIndex' = 0

MarkPage ==
    /\ pc = "mark"
    /\ IF pagesCounter = numberOfPages
       THEN Return /\ UNCHANGED tables
       ELSE /\ Mark(bitmapIndex, MaskOf(bitIndex), idx)
            /\ NextBit
            /\ idx' = idx + 1
            /\ pagesCounter' = pagesCounter + 1
            /\ UNCHANGED <<pc, numberOfPages, i, j, start>>

Next ==
    \/ \E n \in 0 .. MaxRequest : Request(n)
    \/ \E page \in 0 .. Pages : PageFree(page)
    \/ LookForOne \/ BeginRun \/ CountPage \/ EndRun
    \/ MarkOnePage \/ MarkPage

(* The loops run to their end: nothing else runs on the thread of the      *)
(* kernel until PageAlloc has returned.                                    *)
Fairness ==
    WF_vars(\/ LookForOne \/ BeginRun \/ CountPage \/ EndRun
            \/ MarkOnePage \/ MarkPage)

Spec == Init /\ [][Next]_vars /\ Fairness

-----------------------------------------------------------------------------
(***************************************************************************)
(* The search.                                                             *)
(***************************************************************************)
IsFreeRun(first, n) ==
    \A p \in first .. first + n - 1 : p \in PagesOfArena /\ ~bits[p]

(* First fit: while a run is being looked for, none of the right length    *)
(* starts before the place the search has reached, although the search     *)
(* skips every page that the run it gave up was made of.                   *)
NothingSkipped ==
    pc \in {"run", "count"} =>
        \A p \in PagesOfArena :
            p < (IF pc = "run" THEN Bit(i, j) ELSE start)
                => ~IsFreeRun(p, numberOfPages)

(* The pages counted so far are the pages from the start of the run to the *)
(* place the search has reached, and they are all free.                    *)
CountIsRunLength ==
    pc = "count" =>
        /\ start + pagesCounter = Bit(i, j)
        /\ \A p \in start .. start + pagesCounter - 1 :
               p \in PagesOfArena => ~bits[p]

(* PageAlloc never marks a page that somebody holds.                       *)
MarksFreePages ==
    /\ pc = "one" => start \in PagesOfArena /\ ~bits[start]
    /\ pc = "mark" =>
           \A p \in start + pagesCounter .. start + numberOfPages - 1 :
               p \in PagesOfArena => ~bits[p]

(* The bitmap and the page table agree, although each is stored to through *)
(* indices of its own: a page is mapped exactly when it is taken, whatever *)
(* was allocated and released before.  (A page that only the bits InitMemory*)
(* finds set make a taken one is not mapped.)                              *)
MappedIffTaken ==
    \A p \in PagesOfArena : present[p] <=> bits[p] /\ p \notin stale

(* Every request is answered: the loops end, also the one whose bound is   *)
(* the number of bits.                                                     *)
RequestReturns == (pc # "idle") ~> (pc = "idle")

-----------------------------------------------------------------------------
(***************************************************************************)
(* Refinement of PageFrames: the pages of a request are taken, as far as   *)
(* its caller can see, when the search has found them.                     *)
(***************************************************************************)
Marking == pc \in {"one", "mark"}
PagesFound == start .. start + numberOfPages - 1

Abstract == INSTANCE PageFrames WITH
    bits <- [p \in PagesOfArena |-> bits[p] \/ (Marking /\ p \in PagesFound)],
    status <- IF Marking /\ ~(PagesFound \subseteq PagesOfArena)
              THEN "corrupted" ELSE status

ImplementsPageFrames == Abstract!FramesSpec
=============================================================================
