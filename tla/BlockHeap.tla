----------------------------- MODULE BlockHeap ------------------------------
(***************************************************************************)
(* The block allocator of kernel/memory.c, on top of the page allocator of *)
(* PageFrames.  A block is an extent of bytes described by one element of  *)
(* a fixed pool (MemMap and AvailableBlocks, which point to each other for *)
(* good, are one element here); the elements in use are kept in two lists, *)
(* FreeBlocks and OccupiedBlocks, ordered by address.  The doubly linked   *)
(* lists are sequences of elements.                                        *)
(*                                                                         *)
(* MemBlockAlloc is one action.  MemBlockFree scans the occupied list and, *)
(* for each block it frees, runs the two loops of CompactFreeBlocks; it is *)
(* modelled one iteration per step, and until it is back at "idle" no      *)
(* other operation of the heap can start: all of them run on the single    *)
(* thread of the kernel.                                                   *)
(*                                                                         *)
(* A definition whose name has an underscore and a few words after that of *)
(* another definition is that definition with a plausible mistake: the     *)
(* properties below must reject it.                                        *)
(***************************************************************************)
EXTENDS PageFrames, SequencesExt

CONSTANTS
    MAX_BLOCKS,           \* elements in the pool (255)
    PAGE_SIZE,            \* bytes of a page (4096)
    MEMORY_MAP_ADDRESS,   \* address of page 0 of the arena (0x600000)
    MaxSize               \* bound: the largest block asked for

ASSUME HeapAssumption ==
    /\ MAX_BLOCKS \in Nat
    /\ PAGE_SIZE \in Nat \ {0, 1}
    /\ MEMORY_MAP_ADDRESS \in Nat \ {0}
    /\ MEMORY_MAP_ADDRESS % PAGE_SIZE = 0
    /\ MaxSize \in Nat

VARIABLES
    Address, Size, IsFree,       \* the fields of each element
    FreeBlocks, OccupiedBlocks,  \* the two lists
    pc,                          \* "idle", or the loop of MemBlockFree
    target,                      \* the argument of MemBlockFree
    scanAt,                      \* its CurrentMemMap, by position
    at,                          \* CurrentBlock of CompactFreeBlocks
    consolePages,                \* pages that are taken but not the heap's
    shortage                     \* history: a block was made of no page

blockVars == <<Address, Size, IsFree, FreeBlocks, OccupiedBlocks>>
loopVars == <<pc, target, scanAt, at>>
heapVars == <<frameVars, blockVars, loopVars, consolePages, shortage>>

Elems == 1 .. MAX_BLOCKS
NULL == 0
U_BOOL == "U_BOOL"               \* the third value: element not in use
Addresses == 0 .. MEMORY_MAP_ADDRESS + Pages * PAGE_SIZE

HeapTypeOK ==
    /\ FramesTypeOK
    /\ Address \in [Elems -> Nat]
    /\ Size \in [Elems -> Nat]
    /\ IsFree \in [Elems -> {"TRUE", "FALSE", U_BOOL}]
    /\ FreeBlocks \in Seq(Elems) /\ OccupiedBlocks \in Seq(Elems)
    /\ pc \in {"idle", "scan", "merge", "release"}
    /\ target \in Nat
    /\ scanAt \in 1 .. Len(OccupiedBlocks) + 1
    /\ at \in 1 .. Len(FreeBlocks) + 1
    /\ consolePages \subseteq Frames
    /\ shortage \in BOOLEAN

(* InitMemory.  A bit of the bitmap that is set by then is as good as a    *)
(* page that the console holds (mem -alloc -p).                            *)
HeapInit ==
    /\ FramesInit
    /\ Address = [e \in Elems |-> NULL]
    /\ Size = [e \in Elems |-> 0]
    /\ IsFree = [e \in Elems |-> U_BOOL]
    /\ FreeBlocks = <<>> /\ OccupiedBlocks = <<>>
    /\ pc = "idle" /\ target = NULL /\ scanAt = 1 /\ at = 1
    /\ consolePages = {p \in Frames : bits[p]}
    /\ shortage = FALSE

-----------------------------------------------------------------------------
(***************************************************************************)
(* Helpers.                                                                *)
(***************************************************************************)
IsAlligned(address) == address % PAGE_SIZE = 0

(* roundUp(size / PAGE_SIZE)                                               *)
PagesFor_Truncated(size) == size \div PAGE_SIZE

PagesFor(size) == (size + PAGE_SIZE - 1) \div PAGE_SIZE

PageOf(address) == (address - MEMORY_MAP_ADDRESS) \div PAGE_SIZE

EndOf(e) == Address[e] + Size[e]

Bytes(e) == Address[e] .. EndOf(e) - 1

AddressInsideBlock_EndIncluded(address, e) ==
    Address[e] <= address /\ address <= EndOf(e)

AddressInsideBlock(address, e) == Address[e] <= address /\ address < EndOf(e)

Available == {e \in Elems : IsFree[e] = U_BOOL}

GetFirstAvailable == Min(Available)

(* ListInsertOrdered: before the first element with a larger address, so   *)
(* that elements with the same address stay in the order of insertion.     *)
ListInsertOrdered_AtTheEnd(list, e, addressOf) == Append(list, e)

ListInsertOrdered(list, e, addressOf) ==
    LET larger == {k \in DOMAIN list : addressOf[e] < addressOf[list[k]]}
    IN InsertAt(list, IF larger = {} THEN Len(list) + 1 ELSE Min(larger), e)

ListRemove(list, k) == RemoveAt(list, k)

ListEmpty(list) == list = <<>>

-----------------------------------------------------------------------------
(***************************************************************************)
(* MemBlockAlloc(size).                                                    *)
(***************************************************************************)
Fitting(size) == {k \in DOMAIN FreeBlocks : Size[FreeBlocks[k]] >= size}

(* The first free block that is large enough gives up its first bytes.  It *)
(* stays in its list, also when nothing of it is left.                     *)
SplitBlock(size) ==
    LET e == FreeBlocks[Min(Fitting(size))]
        new == GetFirstAvailable
        addressOf == [Address EXCEPT ![new] = Address[e], ![e] = @ + size]
    IN /\ Fitting(size) # {} /\ Available # {}
       /\ Address' = addressOf
       /\ Size' = [Size EXCEPT ![new] = size, ![e] = @ - size]
       /\ IsFree' = [IsFree EXCEPT ![new] = "FALSE"]
       /\ OccupiedBlocks' = ListInsertOrdered(OccupiedBlocks, new, addressOf)
       /\ UNCHANGED <<frameVars, FreeBlocks, shortage>>

(* Otherwise the block is made of new pages, and what is left of the last  *)
(* one becomes a free block.  The answer of PageAlloc is not looked at: a  *)
(* request that finds no page makes the block, and the rest, out of the    *)
(* memory at NULL.                                                         *)
FreshAddress(first) ==
    IF first = NoPage THEN NULL ELSE MEMORY_MAP_ADDRESS + first * PAGE_SIZE

ExactBlock(size) ==
    LET new == GetFirstAvailable IN
    /\ Fitting(size) = {} /\ Available # {}
    /\ size % PAGE_SIZE = 0
    /\ \E first \in Answers(PagesFor(size)) :
          /\ TakePages(first, PagesFor(size))
          /\ Address' = [Address EXCEPT ![new] = FreshAddress(first)]
          /\ shortage' = (shortage \/ (first = NoPage /\ size > 0))
    /\ Size' = [Size EXCEPT ![new] = size]
    /\ IsFree' = [IsFree EXCEPT ![new] = "FALSE"]
    /\ OccupiedBlocks' = ListInsertOrdered(OccupiedBlocks, new, Address')
    /\ UNCHANGED FreeBlocks

BlockAndRest(size) ==
    LET new == GetFirstAvailable
        rest == Min(Available \ {new})
    IN
    /\ Fitting(size) = {} /\ Available # {} /\ Available # {new}
    /\ size % PAGE_SIZE # 0
    /\ \E first \in Answers(PagesFor(size)) :
          /\ TakePages(first, PagesFor(size))
          /\ Address' = [Address EXCEPT ![new] = FreshAddress(first),
                                        ![rest] = FreshAddress(first) + size]
          /\ shortage' = (shortage \/ first = NoPage)
    /\ Size' = [Size EXCEPT ![new] = size,
                            ![rest] = PagesFor(size) * PAGE_SIZE - size]
    /\ IsFree' = [IsFree EXCEPT ![new] = "FALSE", ![rest] = "TRUE"]
    /\ OccupiedBlocks' = ListInsertOrdered(OccupiedBlocks, new, Address')
    /\ FreeBlocks' = ListInsertOrdered(FreeBlocks, rest, Address')

(* GetFirstAvailable answers NULL when every element is in use, and the    *)
(* element at NULL is written to.                                          *)
PoolExhausted(size) ==
    /\ \/ Available = {}
       \/ /\ Fitting(size) = {} /\ size % PAGE_SIZE # 0
          /\ \A e, f \in Available : e = f
    /\ status' = "corrupted"
    /\ UNCHANGED <<bits, blockVars, shortage>>

MemBlockAlloc(size) ==
    /\ pc = "idle" /\ status = "ok"
    /\ SplitBlock(size) \/ ExactBlock(size) \/ BlockAndRest(size)
          \/ PoolExhausted(size)
    /\ UNCHANGED <<loopVars, consolePages>>

-----------------------------------------------------------------------------
(***************************************************************************)
(* MemBlockFree(address).                                                  *)
(***************************************************************************)
MemBlockFree(address) ==
    /\ pc = "idle" /\ status = "ok"
    /\ ~ListEmpty(OccupiedBlocks)     \* else only an error is printed
    /\ pc' = "scan" /\ target' = address /\ scanAt' = 1
    /\ UNCHANGED <<frameVars, blockVars, at, consolePages, shortage>>

(* The call of CompactFreeBlocks: from the head of the list of free blocks.*)
BeginCompaction == pc' = "merge" /\ at' = 1

(* The scan goes on after a block has been found: it frees every block     *)
(* that the address is inside of.                                          *)
FreeFoundBlock ==
    LET e == OccupiedBlocks[scanAt] IN
    /\ pc = "scan" /\ status = "ok"
    /\ scanAt \in DOMAIN OccupiedBlocks /\ AddressInsideBlock(target, e)
    /\ OccupiedBlocks' = ListRemove(OccupiedBlocks, scanAt)
    /\ IsFree' = [IsFree EXCEPT ![e] = "TRUE"]
    /\ FreeBlocks' = ListInsertOrdered(FreeBlocks, e, Address)
    /\ BeginCompaction
    /\ UNCHANGED <<frameVars, Address, Size, target, scanAt, consolePages,
                   shortage>>

ScanNextBlock ==
    /\ pc = "scan" /\ status = "ok"
    /\ scanAt \in DOMAIN OccupiedBlocks
    /\ ~AddressInsideBlock(target, OccupiedBlocks[scanAt])
    /\ scanAt' = scanAt + 1
    /\ UNCHANGED <<frameVars, blockVars, pc, target, at, consolePages,
                   shortage>>

MemBlockFreeReturns ==
    /\ pc = "scan" /\ status = "ok"
    /\ scanAt = Len(OccupiedBlocks) + 1
    /\ pc' = "idle" /\ target' = NULL /\ scanAt' = 1 /\ at' = 1
    /\ UNCHANGED <<frameVars, blockVars, consolePages, shortage>>

-----------------------------------------------------------------------------
(***************************************************************************)
(* CompactFreeBlocks, first loop: free blocks that touch each other inside *)
(* a page become one.                                                      *)
(***************************************************************************)
MergesWithNext_AcrossPages(k) ==
    /\ k + 1 \in DOMAIN FreeBlocks
    /\ EndOf(FreeBlocks[k]) = Address[FreeBlocks[k + 1]]

MergesWithNext_GapIgnored(k) ==
    /\ k + 1 \in DOMAIN FreeBlocks
    /\ ~IsAlligned(Address[FreeBlocks[k + 1]])

MergesWithNext(k) ==
    /\ k + 1 \in DOMAIN FreeBlocks
    /\ EndOf(FreeBlocks[k]) = Address[FreeBlocks[k + 1]]
    /\ ~IsAlligned(Address[FreeBlocks[k + 1]])

MergeBlocks_FlagLeft ==
    LET e == FreeBlocks[at]
        next == FreeBlocks[at + 1]
    IN
    /\ pc = "merge" /\ status = "ok"
    /\ MergesWithNext(at)
    /\ Address' = [Address EXCEPT ![next] = NULL]
    /\ Size' = [Size EXCEPT ![e] = @ + Size[next], ![next] = 0]
    /\ FreeBlocks' = ListRemove(FreeBlocks, at + 1)
    /\ UNCHANGED <<frameVars, IsFree, OccupiedBlocks, loopVars, consolePages,
                   shortage>>

MergeBlocks ==
    LET e == FreeBlocks[at]
        next == FreeBlocks[at + 1]
    IN
    /\ pc = "merge" /\ status = "ok"
    /\ MergesWithNext(at)
    /\ Address' = [Address EXCEPT ![next] = NULL]
    /\ Size' = [Size EXCEPT ![e] = @ + Size[next], ![next] = 0]
    /\ IsFree' = [IsFree EXCEPT ![next] = U_BOOL]
    /\ FreeBlocks' = ListRemove(FreeBlocks, at + 1)
    /\ UNCHANGED <<frameVars, OccupiedBlocks, loopVars, consolePages, shortage>>

MergeNextBlock ==
    /\ pc = "merge" /\ status = "ok"
    /\ at \in DOMAIN FreeBlocks /\ ~MergesWithNext(at)
    /\ at' = at + 1
    /\ UNCHANGED <<frameVars, blockVars, pc, target, scanAt, consolePages,
                   shortage>>

MergeEnds ==
    /\ pc = "merge" /\ status = "ok"
    /\ at = Len(FreeBlocks) + 1
    /\ pc' = "release" /\ at' = 1
    /\ UNCHANGED <<frameVars, blockVars, target, scanAt, consolePages, shortage>>

(***************************************************************************)
(* Second loop: the whole pages at the start of a free block are released. *)
(***************************************************************************)
CoversPage_SizeNotLookedAt(e) == IsAlligned(Address[e])

CoversPage(e) == IsAlligned(Address[e]) /\ Size[e] >= PAGE_SIZE

ReleaseOnePageBlock ==
    LET e == FreeBlocks[at] IN
    /\ pc = "release" /\ status = "ok"
    /\ at \in DOMAIN FreeBlocks /\ CoversPage(e) /\ Size[e] = PAGE_SIZE
    /\ ReleasePage(PageOf(Address[e]))
    /\ Address' = [Address EXCEPT ![e] = NULL]
    /\ Size' = [Size EXCEPT ![e] = 0]
    /\ IsFree' = [IsFree EXCEPT ![e] = U_BOOL]
    /\ FreeBlocks' = ListRemove(FreeBlocks, at)
    /\ UNCHANGED <<OccupiedBlocks, loopVars, consolePages, shortage>>

ReleaseFirstPage_PageKept ==
    LET e == FreeBlocks[at] IN
    /\ pc = "release" /\ status = "ok"
    /\ at \in DOMAIN FreeBlocks /\ CoversPage(e) /\ Size[e] > PAGE_SIZE
    /\ Address' = [Address EXCEPT ![e] = @ + PAGE_SIZE]
    /\ Size' = [Size EXCEPT ![e] = @ - PAGE_SIZE]
    /\ UNCHANGED <<frameVars, IsFree, FreeBlocks, OccupiedBlocks, loopVars,
                   consolePages, shortage>>

ReleaseFirstPage ==
    LET e == FreeBlocks[at] IN
    /\ pc = "release" /\ status = "ok"
    /\ at \in DOMAIN FreeBlocks /\ CoversPage(e) /\ Size[e] > PAGE_SIZE
    /\ ReleasePage(PageOf(Address[e]))
    /\ Address' = [Address EXCEPT ![e] = @ + PAGE_SIZE]
    /\ Size' = [Size EXCEPT ![e] = @ - PAGE_SIZE]
    /\ UNCHANGED <<IsFree, FreeBlocks, OccupiedBlocks, loopVars, consolePages,
                   shortage>>

ReleaseNextBlock ==
    /\ pc = "release" /\ status = "ok"
    /\ at \in DOMAIN FreeBlocks /\ ~CoversPage(FreeBlocks[at])
    /\ at' = at + 1
    /\ UNCHANGED <<frameVars, blockVars, pc, target, scanAt, consolePages,
                   shortage>>

ReleaseEnds ==
    /\ pc = "release" /\ status = "ok"
    /\ at = Len(FreeBlocks) + 1
    /\ pc' = "scan" /\ at' = 1
    /\ UNCHANGED <<frameVars, blockVars, target, scanAt, consolePages, shortage>>

-----------------------------------------------------------------------------
(***************************************************************************)
(* The console may take pages for itself and give back the ones it has.    *)
(***************************************************************************)
ConsolePageAlloc(n) ==
    /\ pc = "idle" /\ status = "ok"
    /\ \E first \in Answers(n) :
          /\ TakePages(first, n)
          /\ consolePages' = IF first = NoPage THEN consolePages
                             ELSE consolePages
                                    \cup (Frames \cap first .. first + n - 1)
    /\ UNCHANGED <<blockVars, loopVars, shortage>>

ConsolePageFree(page) ==
    /\ pc = "idle" /\ status = "ok"
    /\ page \in consolePages
    /\ ReleasePage(page)
    /\ consolePages' = consolePages \ {page}
    /\ UNCHANGED <<blockVars, loopVars, shortage>>

-----------------------------------------------------------------------------
FreeStep ==
    \/ FreeFoundBlock \/ ScanNextBlock \/ MemBlockFreeReturns
    \/ MergeBlocks \/ MergeNextBlock \/ MergeEnds
    \/ ReleaseOnePageBlock \/ ReleaseFirstPage \/ ReleaseNextBlock
    \/ ReleaseEnds

HeapNext ==
    \/ \E size \in 0 .. MaxSize : MemBlockAlloc(size)
    \/ \E address \in Addresses : MemBlockFree(address)
    \/ FreeStep
    \/ \E n \in 0 .. MaxRequest : ConsolePageAlloc(n)
    \/ \E page \in Frames : ConsolePageFree(page)

(* MemBlockFree runs to its end.                                           *)
HeapSpec == HeapInit /\ [][HeapNext]_heapVars /\ WF_heapVars(FreeStep)

-----------------------------------------------------------------------------
(***************************************************************************)
(* Properties.                                                             *)
(***************************************************************************)
Live == {e \in Elems : IsFree[e] # U_BOOL}
Occupied == {e \in Elems : IsFree[e] = "FALSE"}

HeapPages == {p \in Frames : bits[p]} \ consolePages
PageBytes(p) ==
    MEMORY_MAP_ADDRESS + p * PAGE_SIZE .. MEMORY_MAP_ADDRESS + (p + 1) * PAGE_SIZE - 1

(* The heap keeps its promises while every page it asked for was there and *)
(* nothing has been overwritten.                                           *)
Intact == status = "ok" /\ ~shortage

(* Every element of the pool is in exactly one place, the one its flag     *)
(* says: the list of free blocks, the list of occupied ones, or neither,   *)
(* and then it describes nothing.  (The flag, the fields and the links of  *)
(* an element are written at different places of memory.c.)                *)
ListsMatchFlags ==
    /\ \A e \in Elems :
          /\ IsFree[e] = "TRUE" <=> \E k \in DOMAIN FreeBlocks : FreeBlocks[k] = e
          /\ IsFree[e] = "FALSE" <=>
                \E k \in DOMAIN OccupiedBlocks : OccupiedBlocks[k] = e
          /\ IsFree[e] = U_BOOL => Address[e] = NULL /\ Size[e] = 0
    /\ \A k, l \in DOMAIN FreeBlocks : FreeBlocks[k] = FreeBlocks[l] => k = l
    /\ \A k, l \in DOMAIN OccupiedBlocks :
          OccupiedBlocks[k] = OccupiedBlocks[l] => k = l

(* In both lists nothing stands before a block that has a larger address,  *)
(* although a free block that gives up its first bytes or its first page   *)
(* is moved up without being inserted again.  The merging of neighbours,   *)
(* which only looks at the next element, rests on this.  (It does not hold *)
(* of the empty free blocks that exact fits leave behind.)                 *)
ListsOrdered ==
    Intact =>
        \A list \in {FreeBlocks, OccupiedBlocks} :
            \A k, l \in DOMAIN list :
                k < l /\ Size[list[l]] > 0 => Address[list[k]] <= Address[list[l]]

(* No byte belongs to two blocks: what MemBlockAlloc hands out is nobody   *)
(* else's, and no two free blocks offer the same byte.                     *)
BlocksDisjoint ==
    Intact =>
        \A e, f \in Live :
            e # f => \A x \in Bytes(e) : ~AddressInsideBlock(x, f)

(* Every block lies on pages that the heap has taken and not released: no  *)
(* page is released under a block.                                         *)
BlocksOnHeapPages ==
    Intact => \A e \in Live : \A x \in Bytes(e) : PageOf(x) \in HeapPages

(* No byte of a page of the heap is lost: it is in some block, so that it  *)
(* can be handed out again or its page be released.                        *)
NoByteLost ==
    Intact =>
        \A p \in HeapPages : \A x \in PageBytes(p) :
            \E e \in Live : AddressInsideBlock(x, e)

(* An exact fit leaves a free block of no bytes behind.  At the first byte *)
(* of a page it is not merged, and next to a free block that has come from *)
(* further below it is in the way: that does not meet its neighbour.       *)
KeptApart(address) ==
    \E k \in DOMAIN FreeBlocks :
        /\ Address[FreeBlocks[k]] = address /\ Size[FreeBlocks[k]] > 0
        /\ k + 1 \in DOMAIN FreeBlocks
        /\ Size[FreeBlocks[k + 1]] = 0
        /\ IsAlligned(Address[FreeBlocks[k + 1]])
        /\ Address[FreeBlocks[k + 1]] <= address

(* Between calls every page of the heap holds at least one byte that is    *)
(* occupied: freeing blocks, in any order, gives back a page whose last    *)
(* block has gone, unless an empty free block at the first byte of it, or  *)
(* of a page below it, keeps its free blocks apart.                        *)
NoIdlePage ==
    Intact /\ pc = "idle" =>
        \A p \in HeapPages :
            \/ \E e \in Occupied : Bytes(e) \cap PageBytes(p) # {}
            \/ KeptApart(MEMORY_MAP_ADDRESS + p * PAGE_SIZE)

(* The command test-memory prints the bitmap before it takes its blocks    *)
(* and again when "all the blocks will be freed": with no block left the   *)
(* heap has no page.                                                       *)
AllFreedAllReleased ==
    Intact /\ pc = "idle" /\ OccupiedBlocks = <<>> => HeapPages = {}

(* MemBlockFree returns, however the lists change under its scan.          *)
FreeReturns == (pc # "idle") ~> (pc = "idle" \/ status = "corrupted")

-----------------------------------------------------------------------------
(***************************************************************************)
(* Refinement of AbstractHeap.                                             *)
(***************************************************************************)
Abstract == INSTANCE AbstractHeap WITH
    blocks <- IF Intact
              THEN {<<Address[e], Size[e]>> :
                       e \in {f \in Occupied : Size[f] > 0}}
              ELSE {},
    freeing <- IF Intact /\ pc # "idle" THEN target ELSE -1,
    broken <- ~Intact,
    Arena <- MEMORY_MAP_ADDRESS .. MEMORY_MAP_ADDRESS + Pages * PAGE_SIZE - 1

(* While the heap is intact its caller sees AbstractHeap, whatever splits, *)
(* merges and releases happen below.                                       *)
ImplementsAbstractHeap == Abstract!Spec
=============================================================================
