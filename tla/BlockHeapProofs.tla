-------------------------- MODULE BlockHeapProofs ---------------------------
(***************************************************************************)
(* Proofs about BlockHeap, second part: what an intact heap promises, for  *)
(* every size of the arena, of a page, of the pool and of the requests,    *)
(* what it gives back, and that it implements AbstractHeap.                *)
(*                                                                         *)
(* The invariant speaks of intervals: two blocks are Apart when one ends   *)
(* before the other begins, and the bytes that are Held by blocks are      *)
(* exactly those of the pages that the heap has taken.  That one           *)
(* equivalence gives both BlocksOnHeapPages and NoByteLost, and it is what *)
(* shows that a page which PageAlloc answers is under no block.            *)
(***************************************************************************)
EXTENDS BlockHeapStructure

(* The strengthening of the promises of an intact heap.                    *)
Apart(e, f) ==
    \/ Size[e] = 0 \/ Size[f] = 0
    \/ EndOf(e) <= Address[f] \/ EndOf(f) <= Address[e]

AllApart == \A e, f \in Elems : e # f => Apart(e, f)

Held(x) == \E e \in Elems : AddressInsideBlock(x, e)

HeldAreHeapPages == \A x \in Int : Held(x) <=> PageOf(x) \in HeapPages

BothOrdered ==
    /\ Ordered(FreeBlocks, Address, Size)
    /\ Ordered(OccupiedBlocks, Address, Size)

ConsolePagesTaken == \A p \in consolePages : bits[p]

Promises == AllApart /\ HeldAreHeapPages /\ BothOrdered /\ ConsolePagesTaken

HeapInvariant == HeapStructure /\ (Intact => Promises)

(* Addresses and sizes are natural numbers.                                *)
LEMMA FieldRange ==
    ASSUME HeapStructure, NEW e \in Elems
    PROVE  Address[e] \in Nat /\ Size[e] \in Nat /\ EndOf(e) = Address[e] + Size[e]
BY StructureParts DEF FieldTypes, EndOf

(* What stands in the two lists.                                           *)
LEMMA ListedElements ==
    ASSUME HeapStructure
    PROVE  /\ DOMAIN FreeBlocks = 1 .. Len(FreeBlocks) /\ Len(FreeBlocks) \in Nat
           /\ \A k \in DOMAIN FreeBlocks :
                 FreeBlocks[k] \in Elems /\ IsFree[FreeBlocks[k]] = "TRUE"
           /\ \A k, l \in DOMAIN FreeBlocks : k # l => FreeBlocks[k] # FreeBlocks[l]
           /\ \A k \in DOMAIN OccupiedBlocks :
                 OccupiedBlocks[k] \in Elems /\ IsFree[OccupiedBlocks[k]] = "FALSE"
<1>1. FieldTypes /\ Matched
      BY StructureParts
<1>2. /\ DOMAIN FreeBlocks = 1 .. Len(FreeBlocks) /\ Len(FreeBlocks) \in Nat
      /\ \A k \in DOMAIN FreeBlocks : FreeBlocks[k] \in Elems
      /\ \A k \in DOMAIN OccupiedBlocks : OccupiedBlocks[k] \in Elems
      BY <1>1 DEF FieldTypes
<1>3. /\ \A k \in DOMAIN FreeBlocks : Listed(FreeBlocks, FreeBlocks[k])
      /\ \A k \in DOMAIN OccupiedBlocks : Listed(OccupiedBlocks, OccupiedBlocks[k])
      BY DEF Listed
<1> QED BY <1>1, <1>2, <1>3 DEF Matched, Distinct

(* Two blocks without a common byte are apart.                             *)
LEMMA ApartIfNoCommonByte ==
    ASSUME NEW a \in Nat, NEW s \in Nat, NEW b \in Nat, NEW t \in Nat,
           \A x \in Int : ~(a <= x /\ x < a + s /\ b <= x /\ x < b + t)
    PROVE  s = 0 \/ t = 0 \/ a + s <= b \/ b + t <= a
<1>1. CASE a <= b
  <2>1. ~(a <= b /\ b < a + s /\ b <= b /\ b < b + t)
        OBVIOUS
  <2> QED BY <1>1, <2>1
<1>2. CASE b < a
  <2>1. ~(a <= a /\ a < a + s /\ b <= a /\ a < b + t)
        OBVIOUS
  <2> QED BY <1>2, <2>1
<1> QED BY <1>1, <1>2

(* What the promises say in the words of BlockHeap.                        *)
LEMMA PromisesKept ==
    ASSUME HeapInvariant
    PROVE  ListsOrdered /\ BlocksDisjoint /\ BlocksOnHeapPages /\ NoByteLost
<1> SUFFICES ASSUME Intact
             PROVE  ListsOrdered /\ BlocksDisjoint /\ BlocksOnHeapPages /\ NoByteLost
    BY DEF ListsOrdered, BlocksDisjoint, BlocksOnHeapPages, NoByteLost
<1>1. HeapStructure /\ Promises
      BY DEF HeapInvariant
<1>2. ListsOrdered
      BY <1>1 DEF ListsOrdered, Promises, BothOrdered, Ordered
<1>3. \A e \in Elems : \A x \in Bytes(e) : x \in Int /\ AddressInsideBlock(x, e)
      BY <1>1, FieldRange DEF Bytes, AddressInsideBlock
<1>4. Live \subseteq Elems
      BY DEF Live
<1>5. BlocksDisjoint
  <2>1. ASSUME NEW e \in Live, NEW f \in Live, e # f, NEW x \in Bytes(e)
        PROVE  ~AddressInsideBlock(x, f)
    <3>1. e \in Elems /\ f \in Elems /\ Apart(e, f)
          BY <1>1, <1>4, <2>1 DEF Promises, AllApart
    <3>2. x \in Int /\ AddressInsideBlock(x, e)
          BY <1>3, <2>1, <3>1
    <3> QED BY <1>1, <3>1, <3>2, FieldRange DEF Apart, AddressInsideBlock
  <2> QED BY <2>1 DEF BlocksDisjoint
<1>6. BlocksOnHeapPages
  <2>1. ASSUME NEW e \in Live, NEW x \in Bytes(e) PROVE PageOf(x) \in HeapPages
    <3>1. e \in Elems /\ x \in Int /\ AddressInsideBlock(x, e)
          BY <1>3, <1>4
    <3> QED BY <1>1, <3>1 DEF Promises, HeldAreHeapPages, Held
  <2> QED BY <2>1 DEF BlocksOnHeapPages
<1>7. NoByteLost
  <2>1. ASSUME NEW p \in HeapPages, NEW x \in PageBytes(p)
        PROVE  \E e \in Live : AddressInsideBlock(x, e)
    <3>1. p \in Int
          BY DEF HeapPages, Frames
    <3>2. x \in Int
      <4>1. /\ PageStart(p) \in Int
            /\ x \in PageStart(p) .. PageStart(p) + PAGE_SIZE - 1
            BY <3>1, PageStarts
      <4> QED BY <4>1
    <3>3. PageOf(x) = p
          BY <3>1, <3>2, PageOfAddress
    <3>4. PICK e \in Elems : AddressInsideBlock(x, e)
          BY <1>1, <3>2, <3>3 DEF Promises, HeldAreHeapPages, Held
    <3>5. Size[e] # 0
          BY <1>1, <3>2, <3>4, FieldRange DEF AddressInsideBlock
    <3>6. IsFree[e] # U_BOOL
          BY <1>1, <3>5, StructureParts DEF Matched
    <3> QED BY <3>4, <3>6 DEF Live
  <2> QED BY <2>1 DEF NoByteLost
<1> QED BY <1>2, <1>5, <1>6, <1>7

(* A run of pages that a request is given, when the bitmap did not end     *)
(* under it, was free.                                                     *)
LEMMA AnswerIsFree ==
    ASSUME FramesTypeOK, NEW n \in Nat, NEW first \in Answers(n), first # NoPage,
           first .. first + n - 1 \subseteq Frames
    PROVE  /\ n > 0 /\ first \in Nat
           /\ \A p \in first .. first + n - 1 : p \in Frames /\ ~bits[p]
<1>0. /\ \A k \in Nat : FreeRuns(k) \in SUBSET Nat
      /\ TrailingRuns \in SUBSET Nat
      BY DEF FreeRuns, TrailingRuns, Frames
<1>1. first \in Nat
      BY AnswersRange
<1>2. CASE n = 0
      BY <1>2 DEF Answers
<1>3. CASE n = 1
  <2>1. FreeRuns(1) # {} /\ first = Min(FreeRuns(1))
        BY <1>3 DEF Answers, GetFirstFreePageNumber
  <2>2. first \in FreeRuns(1)
        BY <1>0, <2>1, MinProperty
  <2> QED BY <1>1, <1>3, <2>2 DEF FreeRuns, IsFreeRun
<1>4. CASE n > 1
  <2>1. first \in GetFreePagesNumberStart(n)
        BY <1>4 DEF Answers
  <2>2. CASE FreeRuns(n) # {}
    <3>1. first = Min(FreeRuns(n))
          BY <2>1, <2>2 DEF GetFreePagesNumberStart
    <3>2. first \in FreeRuns(n)
          BY <1>0, <2>2, <3>1, MinProperty
    <3> QED BY <1>1, <1>4, <3>2 DEF FreeRuns, IsFreeRun
  <2>3. CASE FreeRuns(n) = {}
    <3>1. TrailingRuns # {} /\ first \in {Min(TrailingRuns), Pages}
          BY <2>1, <2>3 DEF GetFreePagesNumberStart
    <3>2. CASE first = Pages
      <4>1. Pages \in first .. first + n - 1
            BY <1>1, <1>4, <3>2
      <4>2. Pages \notin Frames
            BY Constants DEF Frames
      <4> QED BY <4>1, <4>2
    <3>3. CASE first = Min(TrailingRuns)
      <4>1. first \in TrailingRuns
            BY <1>0, <3>1, <3>3, MinProperty
      <4>2. \A p \in first .. first + (Pages - first) - 1 : p \in Frames /\ ~bits[p]
            BY <4>1 DEF TrailingRuns, IsFreeRun
      <4>3. \A p \in first .. first + n - 1 : p \in first .. first + (Pages - first) - 1
            BY <1>1, Constants DEF Frames
      <4> QED BY <1>1, <1>4, <4>2, <4>3
    <3> QED BY <3>1, <3>2, <3>3
  <2> QED BY <2>2, <2>3
<1> QED BY <1>2, <1>3, <1>4

(* Steps that neither move a byte from or to a block nor a page from or to *)
(* the heap.                                                               *)
LEMMA SameBytes ==
    ASSUME HeldAreHeapPages, ConsolePagesTaken, UNCHANGED <<bits, consolePages>>,
           \A x \in Int : Held(x)' <=> Held(x)
    PROVE  HeldAreHeapPages' /\ ConsolePagesTaken'
<1>1. HeapPages' = HeapPages
      BY DEF HeapPages
<1>2. \A x \in Int : PageOf(x)' = PageOf(x)
      BY DEF PageOf
<1> QED BY <1>1, <1>2 DEF HeldAreHeapPages, ConsolePagesTaken

(* MemBlockAlloc, when a free block is split: the new block gets the first *)
(* bytes of the free block, which stands in front of everything that lies  *)
(* behind those bytes.                                                     *)
LEMMA SplitKeepsPromises ==
    ASSUME HeapStructure, Promises, NEW e, NEW new, NEW size \in Nat,
           Splits(e, new, size), UNCHANGED consolePages
    PROVE  Promises'
<1>1. FieldTypes /\ Matched
      BY StructureParts
<1>2. /\ e \in Elems /\ new \in Elems /\ e # new /\ size <= Size[e]
      /\ \A f \in Elems : Address[f] \in Nat /\ Size[f] \in Nat
      /\ Address'[new] = Address[e] /\ Size'[new] = size
      /\ Address'[e] = Address[e] + size /\ Size'[e] = Size[e] - size
      /\ \A f \in Elems \ {e, new} : Address'[f] = Address[f] /\ Size'[f] = Size[f]
      BY <1>1 DEF Splits, FieldsOf, OthersUnchanged, FieldTypes
<1>3. Size[new] = 0
      BY <1>1 DEF Splits, Matched
<1>4. AllApart'
  <2>1. ASSUME NEW f \in Elems \ {e, new}
        PROVE  Apart(e, f)' /\ Apart(f, e)' /\ Apart(new, f)' /\ Apart(f, new)'
    <3>1. Apart(e, f)
          BY <1>2 DEF Promises, AllApart
    <3> QED BY <1>2, <3>1 DEF Apart, EndOf
  <2>2. Apart(e, new)' /\ Apart(new, e)'
        BY <1>2 DEF Apart, EndOf
  <2>3. ASSUME NEW f \in Elems \ {e, new}, NEW g \in Elems \ {e, new}, f # g
        PROVE  Apart(f, g)'
    <3>1. Apart(f, g)
          BY <2>3 DEF Promises, AllApart
    <3> QED BY <1>2, <3>1 DEF Apart, EndOf
  <2> QED BY <2>1, <2>2, <2>3 DEF AllApart
<1>5. \A x \in Int : Held(x)' <=> Held(x)
  <2> SUFFICES ASSUME NEW x \in Int PROVE Held(x)' <=> Held(x)
      OBVIOUS
  <2>1. \A f \in Elems \ {e, new} :
           AddressInsideBlock(x, f)' <=> AddressInsideBlock(x, f)
        BY <1>2 DEF AddressInsideBlock, EndOf
  <2>2. ~AddressInsideBlock(x, new)
        BY <1>2, <1>3 DEF AddressInsideBlock, EndOf
  <2>3. AddressInsideBlock(x, e)
           <=> AddressInsideBlock(x, e)' \/ AddressInsideBlock(x, new)'
        BY <1>2 DEF AddressInsideBlock, EndOf
  <2> QED BY <1>2, <2>1, <2>2, <2>3 DEF Held
<1>6. HeldAreHeapPages' /\ ConsolePagesTaken'
      BY <1>5, SameBytes DEF Promises, Splits, frameVars
<1>7. Ordered(FreeBlocks, Address, Size)'
  <2>1. ASSUME NEW k \in 1 .. Len(FreeBlocks), NEW l \in 1 .. Len(FreeBlocks), k < l,
               Size'[FreeBlocks[l]] > 0
        PROVE  Address'[FreeBlocks[k]] <= Address'[FreeBlocks[l]]
    <3>1. FreeBlocks[k] \in Elems /\ FreeBlocks[l] \in Elems
          BY ListedElements
    <3>2. FreeBlocks[k] # FreeBlocks[l]
          BY <2>1, ListedElements
    <3>3. FreeBlocks[k] # new /\ FreeBlocks[l] # new
          BY ListedElements, Flags DEF Splits
    <3>4. Size[FreeBlocks[l]] > 0
          BY <1>2, <2>1, <3>1, <3>3
    <3>5. Address[FreeBlocks[k]] <= Address[FreeBlocks[l]]
          BY <2>1, <3>4, ListedElements DEF Promises, BothOrdered, Ordered
    <3>6. Apart(FreeBlocks[k], FreeBlocks[l])
          BY <3>1, <3>2 DEF Promises, AllApart
    <3>7. CASE FreeBlocks[k] = e
          BY <1>2, <3>1, <3>2, <3>3, <3>4, <3>5, <3>6, <3>7 DEF Apart, EndOf
    <3>8. CASE FreeBlocks[k] # e
          BY <1>2, <3>1, <3>3, <3>5, <3>8
    <3> QED BY <3>7, <3>8
  <2>2. FreeBlocks' = FreeBlocks /\ DOMAIN FreeBlocks = 1 .. Len(FreeBlocks)
        BY <1>1 DEF Splits, FieldTypes
  <2> QED BY <2>1, <2>2 DEF Ordered
<1>8. Ordered(OccupiedBlocks, Address, Size)'
  <2>1. ASSUME NEW k \in DOMAIN OccupiedBlocks
        PROVE  OccupiedBlocks[k] \in Elems \ {e, new}
        BY ListedElements, Flags DEF Splits
  <2>2. Ordered(OccupiedBlocks, Address', Size')
        BY <1>2, <2>1 DEF Promises, BothOrdered, Ordered
  <2>3. /\ OccupiedBlocks \in Seq(Elems) /\ Address' \in [Elems -> Nat]
        /\ OccupiedBlocks' = ListInsertOrdered(OccupiedBlocks, new, Address')
        BY <1>1 DEF FieldTypes, Splits
  <2> QED BY <1>2, <2>2, <2>3, InsertedInOrder
<1> QED BY <1>4, <1>6, <1>7, <1>8 DEF Promises, BothOrdered

(* The bytes of n pages that follow each other.                            *)
LEMMA RunOfPages ==
    ASSUME NEW first \in Int, NEW n \in Nat, NEW x \in Int
    PROVE  x \in PageStart(first) .. PageStart(first + n) - 1
              <=> PageOf(x) \in first .. first + n - 1
<1>1. ASSUME PageOf(x) \in first .. first + n - 1
      PROVE  x \in PageStart(first) .. PageStart(first + n) - 1
  <2>1. /\ PageOf(x) \in Int /\ PageOf(x) + 1 \in Int /\ first + n \in Int
        /\ first <= PageOf(x) /\ PageOf(x) + 1 <= first + n
        BY <1>1
  <2>2. x \in PageBytes(PageOf(x))
        BY <2>1, PageOfAddress
  <2>3. PageStart(first) \in Int /\ PageStart(first + n) \in Int
        BY <2>1, PageStarts
  <2>4. /\ PageStart(PageOf(x)) \in Int
        /\ PageStart(PageOf(x) + 1) = PageStart(PageOf(x)) + PAGE_SIZE
        /\ x \in PageStart(PageOf(x)) .. PageStart(PageOf(x)) + PAGE_SIZE - 1
        BY <2>1, <2>2, PageStarts
  <2>5. PageStart(first) <= PageStart(PageOf(x))
        BY <2>1, PageStartsOrdered
  <2>6. PageStart(PageOf(x) + 1) <= PageStart(first + n)
        BY <2>1, PageStartsOrdered
  <2> QED BY <2>3, <2>4, <2>5, <2>6, Constants
<1>2. ASSUME x \in PageStart(first) .. PageStart(first + n) - 1
      PROVE  PageOf(x) \in first .. first + n - 1
      BY <1>2, PageOfRun
<1> QED BY <1>1, <1>2

(* A block of new pages: none of their bytes was anybody's.                *)
LEMMA FreshPages ==
    ASSUME HeapStructure, Promises, NEW n \in Nat, NEW first \in Answers(n),
           first # NoPage, TakePages(first, n), status' = "ok",
           UNCHANGED consolePages
    PROVE  /\ n > 0 /\ first \in Nat
           /\ PageStart(first) \in Nat /\ PAGE_SIZE * n \in Nat /\ PAGE_SIZE * n > 0
           /\ \A x \in Int : PageOf(x) \in HeapPages' <=>
                 \/ PageOf(x) \in HeapPages
                 \/ PageStart(first) <= x /\ x < PageStart(first) + PAGE_SIZE * n
           /\ \A f \in Elems :
                 \/ Size[f] = 0 \/ EndOf(f) <= PageStart(first)
                 \/ PageStart(first) + PAGE_SIZE * n <= Address[f]
           /\ ConsolePagesTaken'
<1> DEFINE taken == first .. first + n - 1
<1>1. /\ bits' = [p \in Frames |-> p \in taken \/ bits[p]]
      /\ taken \subseteq Frames
      BY DEF TakePages
<1>2. /\ n > 0 /\ first \in Nat /\ \A p \in taken : p \in Frames /\ ~bits[p]
  <2>1. FramesTypeOK
        BY StructureParts DEF FramesTypeOK
  <2> QED BY <1>1, <2>1, AnswerIsFree
<1>3. consolePages \subseteq Frames /\ \A p \in consolePages : bits[p]
      BY StructureParts DEF LoopTypes, Promises, ConsolePagesTaken
<1>4. HeapPages' = HeapPages \cup taken
  <2> HIDE DEF taken
  <2> QED BY <1>1, <1>2, <1>3 DEF HeapPages
<1>5. HeapPages \cap taken = {}
      BY <1>2 DEF HeapPages
<1>6. ConsolePagesTaken'
      BY <1>1, <1>3 DEF ConsolePagesTaken
<1>7. /\ PageStart(first) \in Nat
      /\ PAGE_SIZE * n \in Nat /\ PAGE_SIZE * n > 0
      /\ PageStart(first + n) = PageStart(first) + PAGE_SIZE * n
  <2>1. PAGE_SIZE * first \in Nat /\ PAGE_SIZE * n \in Nat
        BY <1>2, Constants
  <2>2. PAGE_SIZE * (first + n) = PAGE_SIZE * first + PAGE_SIZE * n
        BY <1>2, Constants
  <2>3. PAGE_SIZE * 1 <= PAGE_SIZE * n
        BY <1>2, Constants, MultiplesOrdered
  <2> QED BY <2>1, <2>2, <2>3, Constants DEF PageStart
<1>8. \A x \in Int : x \in PageStart(first) .. PageStart(first + n) - 1
                       <=> PageOf(x) \in taken
  <2>1. first \in Int
        BY <1>2
  <2> QED BY <2>1, RunOfPages
<1>9. \A x \in Int : x \in PageStart(first) .. PageStart(first + n) - 1
         <=> PageStart(first) <= x /\ x < PageStart(first) + PAGE_SIZE * n
      BY <1>7
<1> HIDE DEF taken
<1>10. \A x \in Int : PageOf(x) \in HeapPages' <=>
         \/ PageOf(x) \in HeapPages
         \/ PageStart(first) <= x /\ x < PageStart(first) + PAGE_SIZE * n
      BY <1>4, <1>8, <1>9
<1>11. ASSUME NEW f \in Elems
       PROVE  \/ Size[f] = 0 \/ EndOf(f) <= PageStart(first)
              \/ PageStart(first) + PAGE_SIZE * n <= Address[f]
  <2>1. Address[f] \in Nat /\ Size[f] \in Nat /\ EndOf(f) = Address[f] + Size[f]
        BY FieldRange
  <2>2. \A x \in Int : ~(/\ Address[f] <= x /\ x < Address[f] + Size[f]
                         /\ PageStart(first) <= x
                         /\ x < PageStart(first) + PAGE_SIZE * n)
    <3>1. \A x \in Int : AddressInsideBlock(x, f) => PageOf(x) \in HeapPages
          BY DEF Promises, HeldAreHeapPages, Held
    <3> QED BY <1>5, <1>8, <1>9, <2>1, <3>1 DEF AddressInsideBlock
  <2> QED BY <1>7, <2>1, <2>2, ApartIfNoCommonByte
<1> QED BY <1>2, <1>6, <1>7, <1>10, <1>11

(* What both kinds of new blocks do to the fields.                         *)
LEMMA FreshBlock ==
    ASSUME HeapStructure, Promises, NEW new, NEW first, NEW size \in Nat,
           Makes(new, first, size), NEW es \in SUBSET Elems, new \in es,
           OthersUnchanged(es), \A f \in es : IsFree[f] = U_BOOL
    PROVE  Ordered(OccupiedBlocks, Address, Size)'
<1>1. ASSUME NEW k \in DOMAIN OccupiedBlocks
      PROVE  OccupiedBlocks[k] \in Elems \ es
      BY ListedElements, Flags
<1>2. \A f \in Elems \ es : Address'[f] = Address[f] /\ Size'[f] = Size[f]
      BY DEF OthersUnchanged, FieldsOf
<1>3. Ordered(OccupiedBlocks, Address', Size')
      BY <1>1, <1>2 DEF Promises, BothOrdered, Ordered
<1>4. /\ OccupiedBlocks \in Seq(Elems) /\ Address' \in [Elems -> Nat] /\ new \in Elems
      /\ OccupiedBlocks' = ListInsertOrdered(OccupiedBlocks, new, Address')
      BY StructureParts DEF FieldTypes, Makes
<1> QED BY <1>3, <1>4, InsertedInOrder

(* MemBlockAlloc, when the block fills its pages.  A request of no bytes   *)
(* makes a block although there is no page for it.                         *)
LEMMA ExactKeepsPromises ==
    ASSUME HeapStructure, Promises, NEW new, NEW first, NEW size \in Nat,
           MakesExactly(new, first, size), UNCHANGED consolePages,
           status' = "ok", ~shortage'
    PROVE  Promises'
<1>1. /\ new \in Elems /\ IsFree[new] = U_BOOL /\ Size[new] = 0
      /\ Address'[new] = FreshAddress(first) /\ Size'[new] = size
      /\ FreshAddress(first) \in Nat
      /\ \A f \in Elems : Address[f] \in Nat /\ Size[f] \in Nat
      /\ \A f \in Elems \ {new} : Address'[f] = Address[f] /\ Size'[f] = Size[f]
  <2>1. new \in Elems /\ IsFree[new] = U_BOOL /\ Size[new] = 0
        BY StructureParts DEF MakesExactly, Makes, Matched
  <2>2. first \in Answers(PagesFor(size)) /\ PagesFor(size) \in Nat
        BY PagesForSize DEF MakesExactly, Makes
  <2>3. FreshAddress(first) \in Nat
        BY <2>2, FreshAddressRange
  <2> QED BY <2>1, <2>3, FieldRange
             DEF MakesExactly, Makes, FieldsOf, OthersUnchanged
<1>2. Ordered(OccupiedBlocks, Address, Size)'
      BY <1>1, FreshBlock DEF MakesExactly
<1>3. Ordered(FreeBlocks, Address, Size)'
  <2>1. \A k \in DOMAIN FreeBlocks : FreeBlocks[k] \in Elems \ {new}
        BY <1>1, ListedElements, Flags
  <2> QED BY <1>1, <2>1 DEF MakesExactly, Promises, BothOrdered, Ordered
<1>4. /\ HeldAreHeapPages' /\ ConsolePagesTaken'
      /\ \A f \in Elems \ {new} :
           \/ size = 0 \/ Size[f] = 0 \/ EndOf(f) <= FreshAddress(first)
           \/ FreshAddress(first) + size <= Address[f]
  <2>0. \A x \in Int, f \in Elems \ {new} :
           AddressInsideBlock(x, f)' <=> AddressInsideBlock(x, f)
        BY <1>1 DEF AddressInsideBlock, EndOf
  <2>1. \A x \in Int : /\ ~AddressInsideBlock(x, new)
                       /\ AddressInsideBlock(x, new)' <=>
                             FreshAddress(first) <= x /\ x < FreshAddress(first) + size
        BY <1>1 DEF AddressInsideBlock, EndOf
  <2>2. CASE first = NoPage
    <3>1. size = 0 /\ bits' = bits
      <4>1. ~(first = NoPage /\ size > 0)
            BY DEF MakesExactly
      <4>2. bits' = bits
            BY <2>2 DEF MakesExactly, Makes, TakePages, frameVars
      <4> QED BY <2>2, <4>1, <4>2
    <3>2. \A x \in Int : ~AddressInsideBlock(x, new)'
          BY <1>1, <2>1, <3>1
    <3>3. \A x \in Int : Held(x)' <=> Held(x)
          BY <1>1, <2>0, <2>1, <3>2 DEF Held
    <3> QED BY <3>1, <3>3, SameBytes DEF Promises
  <2>3. CASE first # NoPage
    <3>1. /\ PagesFor(size) \in Nat /\ size = PAGE_SIZE * PagesFor(size)
          /\ FreshAddress(first) = PageStart(first)
          /\ first \in Answers(PagesFor(size)) /\ TakePages(first, PagesFor(size))
      <4>1. PagesFor(size) \in Nat /\ size = PAGE_SIZE * PagesFor(size)
            BY PagesForSize DEF MakesExactly
      <4>2. first \in Answers(PagesFor(size)) /\ TakePages(first, PagesFor(size))
            BY DEF MakesExactly, Makes
      <4> QED BY <2>3, <4>1, <4>2, FreshAddressRange
    <3>2. /\ \A x \in Int : PageOf(x) \in HeapPages' <=>
                \/ PageOf(x) \in HeapPages
                \/ FreshAddress(first) <= x /\ x < FreshAddress(first) + size
          /\ \A f \in Elems :
                \/ Size[f] = 0 \/ EndOf(f) <= FreshAddress(first)
                \/ FreshAddress(first) + size <= Address[f]
          /\ ConsolePagesTaken'
      <4>1. PICK n \in Nat : n = PagesFor(size)
            BY <3>1
      <4>2. first \in Answers(n) /\ TakePages(first, n)
            BY <3>1, <4>1
      <4>3. /\ \A x \in Int : PageOf(x) \in HeapPages' <=>
                  \/ PageOf(x) \in HeapPages
                  \/ PageStart(first) <= x /\ x < PageStart(first) + PAGE_SIZE * n
            /\ \A f \in Elems :
                  \/ Size[f] = 0 \/ EndOf(f) <= PageStart(first)
                  \/ PageStart(first) + PAGE_SIZE * n <= Address[f]
            /\ ConsolePagesTaken'
            BY <2>3, <4>2, FreshPages
      <4>4. size = PAGE_SIZE * n /\ FreshAddress(first) = PageStart(first)
            BY <3>1, <4>1
      <4> QED BY <4>3, <4>4
    <3>3. \A x \in Int : Held(x)' <=>
             \/ Held(x)
             \/ FreshAddress(first) <= x /\ x < FreshAddress(first) + size
          BY <1>1, <2>0, <2>1 DEF Held
    <3>4. \A x \in Int : PageOf(x)' = PageOf(x)
          BY DEF PageOf
    <3> QED BY <3>2, <3>3, <3>4 DEF Promises, HeldAreHeapPages
  <2> QED BY <2>2, <2>3
<1>5. AllApart'
  <2>1. ASSUME NEW f \in Elems \ {new} PROVE Apart(new, f)' /\ Apart(f, new)'
        BY <1>1, <1>4 DEF Apart, EndOf
  <2>2. ASSUME NEW f \in Elems \ {new}, NEW g \in Elems \ {new}, f # g
        PROVE  Apart(f, g)'
    <3>1. Apart(f, g)
          BY <2>2 DEF Promises, AllApart
    <3> QED BY <1>1, <3>1 DEF Apart, EndOf
  <2> QED BY <2>1, <2>2 DEF AllApart
<1> QED BY <1>2, <1>3, <1>4, <1>5 DEF Promises, BothOrdered

(* MemBlockAlloc, when part of the last page becomes a free block.         *)
LEMMA RestKeepsPromises ==
    ASSUME HeapStructure, Promises, NEW new, NEW rest, NEW first, NEW size \in Nat,
           MakesWithRest(new, rest, first, size), UNCHANGED consolePages,
           status' = "ok", ~shortage'
    PROVE  Promises'
<1> DEFINE a == FreshAddress(first)
           total == PAGE_SIZE * PagesFor(size)
<1>0. /\ PagesFor(size) \in Nat /\ total \in Nat /\ size <= total
      /\ first # NoPage /\ a = PageStart(first)
      /\ first \in Answers(PagesFor(size)) /\ TakePages(first, PagesFor(size))
  <2>1. PagesFor(size) \in Nat /\ total \in Nat /\ size <= total
        BY PagesForSize
  <2>2. first \in Answers(PagesFor(size)) /\ TakePages(first, PagesFor(size))
        BY DEF MakesWithRest, Makes
  <2>3. first # NoPage
        BY DEF MakesWithRest
  <2> QED BY <2>1, <2>2, <2>3, FreshAddressRange
<1>1. /\ new \in Elems /\ IsFree[new] = U_BOOL /\ Size[new] = 0
      /\ rest \in Elems /\ IsFree[rest] = U_BOOL /\ Size[rest] = 0 /\ rest # new
      /\ Address'[new] = a /\ Size'[new] = size
      /\ Address'[rest] = a + size /\ Size'[rest] = total - size
      /\ \A f \in Elems : Address[f] \in Nat /\ Size[f] \in Nat
      /\ \A f \in Elems \ {new, rest} : Address'[f] = Address[f] /\ Size'[f] = Size[f]
  <2>1. /\ new \in Elems /\ IsFree[new] = U_BOOL /\ Size[new] = 0
        /\ rest \in Elems /\ IsFree[rest] = U_BOOL /\ Size[rest] = 0 /\ rest # new
        BY StructureParts DEF MakesWithRest, Makes, Matched
  <2> QED BY <2>1, FieldRange
             DEF MakesWithRest, Makes, FieldsOf, OthersUnchanged
<1> HIDE DEF total
<1>2. /\ \A x \in Int : PageOf(x) \in HeapPages' <=>
            PageOf(x) \in HeapPages \/ (a <= x /\ x < a + total)
      /\ \A f \in Elems : Size[f] = 0 \/ EndOf(f) <= a \/ a + total <= Address[f]
      /\ ConsolePagesTaken' /\ a \in Nat
  <2>1. PICK n \in Nat : n = PagesFor(size)
        BY <1>0
  <2>2. first \in Answers(n) /\ TakePages(first, n) /\ first # NoPage
        BY <1>0, <2>1
  <2>3. /\ \A x \in Int : PageOf(x) \in HeapPages' <=>
              \/ PageOf(x) \in HeapPages
              \/ PageStart(first) <= x /\ x < PageStart(first) + PAGE_SIZE * n
        /\ \A f \in Elems :
              \/ Size[f] = 0 \/ EndOf(f) <= PageStart(first)
              \/ PageStart(first) + PAGE_SIZE * n <= Address[f]
        /\ ConsolePagesTaken' /\ PageStart(first) \in Nat
        BY <2>2, FreshPages
  <2>4. total = PAGE_SIZE * n /\ a = PageStart(first)
        BY <1>0, <2>1 DEF total
  <2> HIDE DEF a
  <2> QED BY <2>3, <2>4
<1> HIDE DEF a
<1>3. HeldAreHeapPages'
  <2>1. \A x \in Int, f \in Elems \ {new, rest} :
           AddressInsideBlock(x, f)' <=> AddressInsideBlock(x, f)
        BY <1>1 DEF AddressInsideBlock, EndOf
  <2>2. \A x \in Int :
           /\ ~AddressInsideBlock(x, new) /\ ~AddressInsideBlock(x, rest)
           /\ (AddressInsideBlock(x, new)' \/ AddressInsideBlock(x, rest)')
                 <=> (a <= x /\ x < a + total)
        BY <1>0, <1>1, <1>2 DEF AddressInsideBlock, EndOf
  <2>3. \A x \in Int : Held(x)' <=> Held(x) \/ (a <= x /\ x < a + total)
        BY <1>1, <2>1, <2>2 DEF Held
  <2>4. \A x \in Int : PageOf(x)' = PageOf(x)
        BY DEF PageOf
  <2> QED BY <1>2, <2>3, <2>4 DEF Promises, HeldAreHeapPages
<1>4. AllApart'
  <2>1. ASSUME NEW f \in Elems \ {new, rest}
        PROVE  Apart(new, f)' /\ Apart(f, new)' /\ Apart(rest, f)' /\ Apart(f, rest)'
        BY <1>0, <1>1, <1>2 DEF Apart, EndOf
  <2>2. ASSUME NEW f \in Elems \ {new, rest}, NEW g \in Elems \ {new, rest}, f # g
        PROVE  Apart(f, g)'
    <3>1. Apart(f, g)
          BY <2>2 DEF Promises, AllApart
    <3> QED BY <1>1, <3>1 DEF Apart, EndOf
  <2>3. Apart(new, rest)' /\ Apart(rest, new)'
        BY <1>0, <1>1, <1>2 DEF Apart, EndOf
  <2> QED BY <2>1, <2>2, <2>3 DEF AllApart
<1>5. Ordered(OccupiedBlocks, Address, Size)'
  <2>1. {new, rest} \in SUBSET Elems /\ \A f \in {new, rest} : IsFree[f] = U_BOOL
        BY <1>1
  <2> QED BY <2>1, FreshBlock DEF MakesWithRest
<1>6. Ordered(FreeBlocks, Address, Size)'
  <2>1. \A k \in DOMAIN FreeBlocks : FreeBlocks[k] \in Elems \ {new, rest}
        BY <1>1, ListedElements, Flags
  <2>2. Ordered(FreeBlocks, Address', Size')
        BY <1>1, <2>1 DEF Promises, BothOrdered, Ordered
  <2>3. /\ FreeBlocks \in Seq(Elems) /\ Address' \in [Elems -> Nat]
        /\ FreeBlocks' = ListInsertOrdered(FreeBlocks, rest, Address')
        BY StructureParts DEF FieldTypes, MakesWithRest, Makes
  <2> QED BY <1>1, <2>2, <2>3, InsertedInOrder
<1> QED BY <1>2, <1>3, <1>4, <1>5, <1>6 DEF Promises, BothOrdered

(* The fields stay, so do the promises about them.                         *)
LEMMA SameFields ==
    ASSUME Promises, UNCHANGED <<bits, consolePages, Address, Size>>
    PROVE  AllApart' /\ HeldAreHeapPages' /\ ConsolePagesTaken'
<1>1. AllApart'
      BY DEF Promises, AllApart, Apart, EndOf
<1>2. \A x \in Int : Held(x)' <=> Held(x)
      BY DEF Held, AddressInsideBlock, EndOf
<1> QED BY <1>1, <1>2, SameBytes DEF Promises

(* MemBlockFree, when the block that was found changes its list.           *)
LEMMA FreeFoundKeepsPromises ==
    ASSUME HeapStructure, Promises, FreeFoundBlock
    PROVE  Promises'
<1>1. FieldTypes
      BY StructureParts
<1>2. scanAt \in 1 .. Len(OccupiedBlocks) /\ OccupiedBlocks[scanAt] \in Elems
      BY <1>1 DEF FreeFoundBlock, FieldTypes
<1>3. PICK e \in Elems : e = OccupiedBlocks[scanAt]
      BY <1>2
<1>4. /\ OccupiedBlocks' = ListRemove(OccupiedBlocks, scanAt)
      /\ FreeBlocks' = ListInsertOrdered(FreeBlocks, e, Address)
      /\ Address' = Address /\ Size' = Size
      /\ bits' = bits /\ consolePages' = consolePages
      BY <1>3 DEF FreeFoundBlock, frameVars
<1>5. AllApart' /\ HeldAreHeapPages' /\ ConsolePagesTaken'
      BY <1>4, SameFields
<1>6. Ordered(OccupiedBlocks', Address, Size)
      BY <1>1, <1>2, <1>4, RemovedElements DEF FieldTypes, Promises, BothOrdered
<1>7. Ordered(FreeBlocks', Address, Size)
      BY <1>1, <1>4, InsertedInOrder DEF FieldTypes, Promises, BothOrdered
<1> QED BY <1>4, <1>5, <1>6, <1>7 DEF Promises, BothOrdered

(* CompactFreeBlocks, when two neighbours are merged.                      *)
LEMMA MergeKeepsPromises ==
    ASSUME HeapStructure, Promises, NEW e, NEW next, Merges(e, next),
           FreeBlocks' = ListRemove(FreeBlocks, at + 1)
    PROVE  Promises'
<1>1. /\ e \in Elems /\ next \in Elems /\ e # next
      /\ \A f \in Elems : Address[f] \in Nat /\ Size[f] \in Nat
      /\ Address[e] + Size[e] = Address[next]
      /\ Address'[e] = Address[e] /\ Size'[e] = Size[e] + Size[next]
      /\ Address'[next] = 0 /\ Size'[next] = 0
      /\ \A f \in Elems \ {e, next} : Address'[f] = Address[f] /\ Size'[f] = Size[f]
      BY FieldRange DEF Merges, FieldsOf, OthersUnchanged, NULL
<1>2. AllApart'
  <2>1. ASSUME NEW f \in Elems \ {e, next} PROVE Apart(e, f)' /\ Apart(f, e)'
    <3>1. Apart(e, f) /\ Apart(next, f)
          BY <1>1 DEF Promises, AllApart
    <3> QED BY <1>1, <3>1 DEF Apart, EndOf
  <2>2. ASSUME NEW f \in Elems PROVE Apart(f, next)' /\ Apart(next, f)'
        BY <1>1 DEF Apart
  <2>3. ASSUME NEW f \in Elems \ {e, next}, NEW g \in Elems \ {e, next}, f # g
        PROVE  Apart(f, g)'
    <3>1. Apart(f, g)
          BY <2>3 DEF Promises, AllApart
    <3> QED BY <1>1, <3>1 DEF Apart, EndOf
  <2> QED BY <2>1, <2>2, <2>3 DEF AllApart
<1>3. HeldAreHeapPages' /\ ConsolePagesTaken'
  <2>1. ASSUME NEW x \in Int PROVE Held(x)' <=> Held(x)
    <3>1. \A f \in Elems \ {e, next} :
             AddressInsideBlock(x, f)' <=> AddressInsideBlock(x, f)
          BY <1>1 DEF AddressInsideBlock, EndOf
    <3>2. /\ ~AddressInsideBlock(x, next)'
          /\ AddressInsideBlock(x, e)' <=>
                AddressInsideBlock(x, e) \/ AddressInsideBlock(x, next)
          BY <1>1 DEF AddressInsideBlock, EndOf
    <3> QED BY <1>1, <3>1, <3>2 DEF Held
  <2> QED BY <2>1, SameBytes DEF Promises, Merges, frameVars
(* An element in front of the merged block stands in front of next too, so *)
(* the order at next carries over to a block that was empty.               *)
<1>4. Ordered(FreeBlocks, Address, Size)'
  <2> DEFINE new == ListRemove(FreeBlocks, at + 1)
  <2>1. /\ at \in Nat /\ at > 0
        /\ at + 1 \in 1 .. Len(FreeBlocks) /\ FreeBlocks \in Seq(Elems)
        /\ e = FreeBlocks[at] /\ next = FreeBlocks[at + 1]
    <3>1. FreeBlocks \in Seq(Elems) /\ at \in 1 .. Len(FreeBlocks) + 1
          BY StructureParts DEF FieldTypes, LoopTypes
    <3>2. at \in Nat /\ at > 0
          BY <3>1
    <3> QED BY <3>1, <3>2 DEF Merges
  <2>2. /\ Len(new) = Len(FreeBlocks) - 1 /\ DOMAIN new = 1 .. Len(FreeBlocks) - 1
        /\ \A k \in 1 .. Len(FreeBlocks) - 1 :
              new[k] = IF k < at + 1 THEN FreeBlocks[k] ELSE FreeBlocks[k + 1]
    <3>1. /\ new \in Seq(Elems) /\ Len(new) = Len(FreeBlocks) - 1
          /\ \A k \in 1 .. Len(FreeBlocks) - 1 :
                new[k] = IF k < at + 1 THEN FreeBlocks[k] ELSE FreeBlocks[k + 1]
          BY <2>1, RemoveAtProperties DEF ListRemove
    <3> QED BY <3>1
  <2> HIDE DEF new
  <2> DEFINE old(k) == IF k < at + 1 THEN k ELSE k + 1
  <2>3. ASSUME NEW k \in DOMAIN new, NEW l \in DOMAIN new, k < l,
               Size'[new[l]] > 0
        PROVE  Address'[new[k]] <= Address'[new[l]]
    <3>1. /\ old(k) \in DOMAIN FreeBlocks /\ old(l) \in DOMAIN FreeBlocks
          /\ old(k) < old(l) /\ old(k) # at + 1 /\ old(l) # at + 1
          /\ new[k] = FreeBlocks[old(k)] /\ new[l] = FreeBlocks[old(l)]
          /\ old(k) \in Int /\ old(l) \in Int
          BY <2>1, <2>2, <2>3, ListedElements
    <3> HIDE DEF old
    <3>2. new[k] \in Elems \ {next} /\ new[l] \in Elems \ {next} /\ new[k] # new[l]
          BY <2>1, <3>1, ListedElements
    <3>3. \A i, j \in DOMAIN FreeBlocks : i < j /\ Size[FreeBlocks[j]] > 0
             => Address[FreeBlocks[i]] <= Address[FreeBlocks[j]]
          BY DEF Promises, BothOrdered, Ordered
    <3>4. Address'[new[k]] = Address[new[k]] /\ Address'[new[l]] = Address[new[l]]
          BY <1>1, <3>2
    <3>5. CASE Size[new[l]] > 0
          BY <3>1, <3>3, <3>4, <3>5
    <3>6. CASE new[l] = e /\ Size[e] = 0
      <4>1. Size[next] > 0 /\ Address[next] = Address[e]
            BY <1>1, <2>3, <3>6
      <4>2. old(l) = at
        <5>1. at \in DOMAIN FreeBlocks /\ FreeBlocks[at] = FreeBlocks[old(l)]
              BY <2>1, <3>1, <3>6, ListedElements
        <5> QED BY <3>1, <5>1, ListedElements
      <4>3. old(k) < at + 1 /\ at + 1 \in DOMAIN FreeBlocks
            BY <2>1, <3>1, <4>2
      <4>4. Address[FreeBlocks[old(k)]] <= Address[next]
            BY <2>1, <3>1, <3>3, <4>1, <4>3
      <4> QED BY <3>1, <3>4, <3>6, <4>1, <4>4
    <3>7. Size[new[l]] > 0 \/ (new[l] = e /\ Size[e] = 0)
          BY <1>1, <2>3, <3>2
    <3> QED BY <3>5, <3>6, <3>7
  <2> QED BY <2>3 DEF Ordered, new
<1>5. Ordered(OccupiedBlocks, Address, Size)'
  <2>1. \A k \in DOMAIN OccupiedBlocks : OccupiedBlocks[k] \in Elems \ {e, next}
        BY ListedElements, Flags DEF Merges
  <2> QED BY <1>1, <2>1 DEF Promises, BothOrdered, Ordered, Merges
<1> QED BY <1>2, <1>3, <1>4, <1>5 DEF Promises, BothOrdered

(* The page that a free block gives up held nothing but bytes of the block.*)
LEMMA CoveredPage ==
    ASSUME HeapStructure, Promises, NEW e, Covered(e)
    PROVE  /\ e \in Elems /\ status' = status
           /\ HeapPages' = HeapPages \ {PageOf(Address[e])}
           /\ \A x \in Int : PageOf(x) = PageOf(Address[e])
                 <=> Address[e] <= x /\ x < Address[e] + PAGE_SIZE
           /\ \A x \in Int, f \in Elems \ {e} :
                 AddressInsideBlock(x, f) => PageOf(x) # PageOf(Address[e])
           /\ ConsolePagesTaken'
<1>1. e \in Elems /\ IsAlligned(Address[e]) /\ Size[e] >= PAGE_SIZE
      BY DEF Covered
<1>2. Address[e] \in Nat /\ Size[e] \in Nat
      BY <1>1, FieldRange
<1>3. PICK page \in Int : page = PageOf(Address[e]) /\ Address[e] = PageStart(page)
      BY <1>1, <1>2, AlignedAddress
<1>4. \A x \in Int : PageOf(x) = page <=> Address[e] <= x /\ x < Address[e] + PAGE_SIZE
  <2>1. /\ PageBytes(page) = PageStart(page) .. PageStart(page) + PAGE_SIZE - 1
        /\ PageStart(page) \in Int
        BY PageStarts
  <2>2. \A x \in Int : x \in PageBytes(page) <=> PageOf(x) = page
        BY PageOfAddress
  <2> QED BY <1>3, <2>1, <2>2, Constants
<1>5. \A x \in Int : PageOf(x) = page => AddressInsideBlock(x, e)
      BY <1>1, <1>2, <1>4, Constants DEF AddressInsideBlock, EndOf
<1>6. page \in HeapPages
      BY <1>1, <1>2, <1>3, <1>5 DEF Promises, HeldAreHeapPages, Held
<1>7. page \in Frames /\ page \notin consolePages
      BY <1>6 DEF HeapPages
<1>8. /\ bits' = [bits EXCEPT ![page] = FALSE] /\ status' = status
      /\ consolePages' = consolePages /\ bits \in [Frames -> BOOLEAN]
  <2>1. ReleasePage(page) /\ consolePages' = consolePages
        BY <1>3 DEF Covered
  <2> QED BY <1>7, <2>1, StructureParts DEF ReleasePage, FramesTypeOK
<1>9. HeapPages' = HeapPages \ {page} /\ ConsolePagesTaken'
  <2>1. HeapPages' = HeapPages \ {page}
        BY <1>7, <1>8 DEF HeapPages
  <2>2. consolePages \subseteq Frames /\ \A p \in consolePages : bits[p]
        BY StructureParts DEF LoopTypes, Promises, ConsolePagesTaken
  <2> QED BY <1>7, <1>8, <2>1, <2>2 DEF ConsolePagesTaken
<1>10. ASSUME NEW x \in Int, NEW f \in Elems \ {e}, AddressInsideBlock(x, f)
       PROVE  PageOf(x) # page
  <2>1. Apart(e, f)
        BY <1>1, <1>10 DEF Promises, AllApart
  <2>2. ~AddressInsideBlock(x, e)
        BY <1>1, <1>10, <2>1, FieldRange DEF Apart, AddressInsideBlock, EndOf
  <2> QED BY <1>5, <2>2
<1> QED BY <1>1, <1>3, <1>4, <1>8, <1>9, <1>10

(* CompactFreeBlocks, when a free block gives up its first page: byte by   *)
(* byte the heap loses what its pages lose.                                *)
LEMMA ReleaseKeepsHeldBytes ==
    ASSUME HeapStructure, Promises, NEW e, Covered(e),
           Size'[e] = Size[e] - PAGE_SIZE,
           Size'[e] > 0 => Address'[e] = Address[e] + PAGE_SIZE,
           Address'[e] \in Nat
    PROVE  AllApart' /\ HeldAreHeapPages' /\ ConsolePagesTaken'
<1>1. /\ e \in Elems /\ Size[e] >= PAGE_SIZE /\ PAGE_SIZE \in Nat
      /\ \A f \in Elems : Address[f] \in Nat /\ Size[f] \in Nat
      /\ \A f \in Elems \ {e} : Address'[f] = Address[f] /\ Size'[f] = Size[f]
      BY FieldRange, Constants DEF Covered, OthersUnchanged, FieldsOf
<1>2. /\ HeapPages' = HeapPages \ {PageOf(Address[e])}
      /\ \A x \in Int : PageOf(x) = PageOf(Address[e])
            <=> Address[e] <= x /\ x < Address[e] + PAGE_SIZE
      /\ \A x \in Int, f \in Elems \ {e} :
            AddressInsideBlock(x, f) => PageOf(x) # PageOf(Address[e])
      /\ ConsolePagesTaken'
      BY CoveredPage
<1>3. AllApart'
  <2>1. ASSUME NEW f \in Elems \ {e} PROVE Apart(e, f)' /\ Apart(f, e)'
    <3>1. Apart(e, f)
          BY <1>1 DEF Promises, AllApart
    <3> QED BY <1>1, <3>1 DEF Apart, EndOf
  <2>2. ASSUME NEW f \in Elems \ {e}, NEW g \in Elems \ {e}, f # g PROVE Apart(f, g)'
    <3>1. Apart(f, g)
          BY <2>2 DEF Promises, AllApart
    <3> QED BY <1>1, <3>1 DEF Apart, EndOf
  <2> QED BY <2>1, <2>2 DEF AllApart
<1>4. ASSUME NEW x \in Int
      PROVE  Held(x)' <=> Held(x) /\ PageOf(x) # PageOf(Address[e])
  <2>1. \A f \in Elems \ {e} : AddressInsideBlock(x, f)' <=> AddressInsideBlock(x, f)
        BY <1>1 DEF AddressInsideBlock, EndOf
  <2>2. AddressInsideBlock(x, e)' <=>
           Address[e] + PAGE_SIZE <= x /\ x < Address[e] + Size[e]
        BY <1>1 DEF AddressInsideBlock, EndOf
  <2>3. AddressInsideBlock(x, e) <=> Address[e] <= x /\ x < Address[e] + Size[e]
        BY DEF AddressInsideBlock, EndOf
  <2>4. AddressInsideBlock(x, e)' <=>
           AddressInsideBlock(x, e) /\ PageOf(x) # PageOf(Address[e])
        BY <1>1, <1>2, <2>2, <2>3
  <2> QED BY <1>1, <1>2, <2>1, <2>4 DEF Held
<1>5. HeldAreHeapPages'
  <2>1. \A x \in Int : PageOf(x)' = PageOf(x)
        BY DEF PageOf
  <2> QED BY <1>2, <1>4, <2>1 DEF Promises, HeldAreHeapPages
<1> QED BY <1>2, <1>3, <1>5

(* The same for the lists, when the block had one page and goes.           *)
LEMMA ReleaseOneKeepsPromises ==
    ASSUME HeapStructure, Promises, NEW e, Covered(e), Size[e] = PAGE_SIZE,
           FieldsOf(e)' = <<NULL, 0, U_BOOL>>,
           FreeBlocks' = ListRemove(FreeBlocks, at)
    PROVE  Promises'
<1>1. /\ Address'[e] = 0 /\ Size'[e] = 0 /\ e \in Elems
      /\ \A f \in Elems \ {e} : Address'[f] = Address[f] /\ Size'[f] = Size[f]
      BY DEF FieldsOf, NULL, Covered, OthersUnchanged
<1>2. AllApart' /\ HeldAreHeapPages' /\ ConsolePagesTaken'
  <2>1. Size'[e] = Size[e] - PAGE_SIZE /\ ~(Size'[e] > 0) /\ Address'[e] \in Nat
        BY <1>1, Constants
  <2> QED BY <2>1, ReleaseKeepsHeldBytes
<1>3. Ordered(FreeBlocks, Address, Size)'
  <2>1. /\ at \in 1 .. Len(FreeBlocks) /\ FreeBlocks \in Seq(Elems)
        /\ Distinct(FreeBlocks) /\ e = FreeBlocks[at]
        BY StructureParts DEF Covered, FieldTypes, Matched
  <2>2. /\ FreeBlocks' \in Seq(Elems)
        /\ \A x : Listed(FreeBlocks', x) <=> Listed(FreeBlocks, x) /\ x # e
        BY <2>1, Removed
  <2>3. Ordered(FreeBlocks', Address, Size)
        BY <2>1, RemovedElements DEF Promises, BothOrdered
  <2>4. \A k \in DOMAIN FreeBlocks' : FreeBlocks'[k] \in Elems \ {e}
    <3>1. \A k \in DOMAIN FreeBlocks' : Listed(FreeBlocks', FreeBlocks'[k])
          BY DEF Listed
    <3> QED BY <2>2, <3>1
  <2> QED BY <1>1, <2>3, <2>4 DEF Ordered
<1>4. Ordered(OccupiedBlocks, Address, Size)'
  <2>1. \A k \in DOMAIN OccupiedBlocks : OccupiedBlocks[k] \in Elems \ {e}
        BY ListedElements, Flags DEF Covered
  <2> QED BY <1>1, <2>1 DEF Promises, BothOrdered, Ordered, Covered
<1> QED BY <1>2, <1>3, <1>4 DEF Promises, BothOrdered

(* And when what is left of the block moves up in its place.               *)
LEMMA ReleaseFirstKeepsPromises ==
    ASSUME HeapStructure, Promises, NEW e, Covered(e), Size[e] > PAGE_SIZE,
           FieldsOf(e)' = <<Address[e] + PAGE_SIZE, Size[e] - PAGE_SIZE, "TRUE">>,
           FreeBlocks' = FreeBlocks
    PROVE  Promises'
<1>1. /\ e \in Elems /\ PAGE_SIZE \in Nat
      /\ Address'[e] = Address[e] + PAGE_SIZE /\ Size'[e] = Size[e] - PAGE_SIZE
      /\ \A f \in Elems : Address[f] \in Nat /\ Size[f] \in Nat
      /\ \A f \in Elems \ {e} : Address'[f] = Address[f] /\ Size'[f] = Size[f]
      BY FieldRange, Constants DEF FieldsOf, Covered, OthersUnchanged
<1>2. AllApart' /\ HeldAreHeapPages' /\ ConsolePagesTaken'
  <2>1. Address'[e] \in Nat
        BY <1>1
  <2> QED BY <1>1, <2>1, ReleaseKeepsHeldBytes
<1>3. Ordered(FreeBlocks, Address, Size)'
  <2>1. ASSUME NEW k \in DOMAIN FreeBlocks, NEW l \in DOMAIN FreeBlocks, k < l,
               Size'[FreeBlocks[l]] > 0
        PROVE  Address'[FreeBlocks[k]] <= Address'[FreeBlocks[l]]
    <3>1. FreeBlocks[k] \in Elems /\ FreeBlocks[l] \in Elems
          BY ListedElements
    <3>2. FreeBlocks[k] # FreeBlocks[l]
          BY <2>1, ListedElements
    <3>3. Size[FreeBlocks[l]] > 0
          BY <1>1, <2>1, <3>1
    <3>4. Address[FreeBlocks[k]] <= Address[FreeBlocks[l]]
          BY <2>1, <3>3 DEF Promises, BothOrdered, Ordered
    <3>5. Apart(FreeBlocks[k], FreeBlocks[l])
          BY <3>1, <3>2 DEF Promises, AllApart
    <3>6. CASE FreeBlocks[k] = e
          BY <1>1, <3>1, <3>2, <3>3, <3>4, <3>5, <3>6 DEF Apart, EndOf
    <3>7. CASE FreeBlocks[k] # e
          BY <1>1, <3>1, <3>4, <3>7
    <3> QED BY <3>6, <3>7
  <2> QED BY <2>1 DEF Ordered
<1>4. Ordered(OccupiedBlocks, Address, Size)'
  <2>1. \A k \in DOMAIN OccupiedBlocks : OccupiedBlocks[k] \in Elems \ {e}
        BY ListedElements, Flags DEF Covered
  <2> QED BY <1>1, <2>1 DEF Promises, BothOrdered, Ordered, Covered
<1> QED BY <1>2, <1>3, <1>4 DEF Promises, BothOrdered

(* Steps that leave the blocks and the pages of the heap alone.            *)
LEMMA BlocksUntouchedKeepsPromises ==
    ASSUME HeapStructure, Promises, UNCHANGED blockVars,
           HeapPages' = HeapPages, ConsolePagesTaken'
    PROVE  Promises'
<1>1. UNCHANGED <<Address, Size, FreeBlocks, OccupiedBlocks>>
      BY DEF blockVars
<1>2. AllApart' /\ BothOrdered'
      BY <1>1 DEF Promises, AllApart, Apart, EndOf, BothOrdered, Ordered
<1>3. \A x \in Int : (Held(x)' <=> Held(x)) /\ PageOf(x)' = PageOf(x)
      BY <1>1 DEF Held, AddressInsideBlock, EndOf, PageOf
<1>4. HeldAreHeapPages'
      BY <1>3 DEF Promises, HeldAreHeapPages
<1> QED BY <1>2, <1>4 DEF Promises

(* The console takes pages, which were free and thus not of the heap.      *)
LEMMA ConsoleAllocKeepsPromises ==
    ASSUME HeapStructure, Promises, NEW n \in Nat, ConsolePageAlloc(n), status' = "ok"
    PROVE  Promises'
<1>1. PICK first \in Answers(n) :
         /\ TakePages(first, n)
         /\ consolePages' = IF first = NoPage THEN consolePages
                            ELSE consolePages \cup (Frames \cap first .. first + n - 1)
      BY DEF ConsolePageAlloc
<1>2. /\ consolePages \subseteq Frames /\ \A p \in consolePages : bits[p]
      BY StructureParts DEF LoopTypes, Promises, ConsolePagesTaken
<1>3. HeapPages' = HeapPages /\ ConsolePagesTaken'
  <2>1. CASE first = NoPage
        BY <1>1, <1>2, <2>1 DEF TakePages, frameVars, HeapPages, ConsolePagesTaken
  <2>2. CASE first # NoPage
    <3> DEFINE taken == first .. first + n - 1
    <3>1. /\ bits' = [p \in Frames |-> p \in taken \/ bits[p]]
          /\ taken \subseteq Frames
          /\ consolePages' = consolePages \cup (Frames \cap taken)
          BY <1>1, <2>2 DEF TakePages
    <3>2. \A p \in taken : p \in Frames /\ ~bits[p]
      <4>1. FramesTypeOK
            BY StructureParts DEF FramesTypeOK
      <4> QED BY <2>2, <3>1, <4>1, AnswerIsFree
    <3> HIDE DEF taken
    <3> QED BY <1>2, <3>1, <3>2 DEF HeapPages, ConsolePagesTaken
  <2> QED BY <2>1, <2>2
<1> QED BY <1>3, BlocksUntouchedKeepsPromises DEF ConsolePageAlloc

(* The console gives back a page that it has, and that is not of the heap. *)
LEMMA ConsoleFreeKeepsPromises ==
    ASSUME HeapStructure, Promises, NEW page, ConsolePageFree(page)
    PROVE  Promises'
<1>1. /\ consolePages \subseteq Frames /\ \A p \in consolePages : bits[p]
      /\ page \in consolePages /\ consolePages' = consolePages \ {page}
      BY StructureParts DEF LoopTypes, Promises, ConsolePagesTaken, ConsolePageFree
<1>2. bits' = [bits EXCEPT ![page] = FALSE] /\ bits \in [Frames -> BOOLEAN]
  <2>1. bits \in [Frames -> BOOLEAN]
        BY StructureParts DEF FramesTypeOK
  <2> QED BY <1>1, <2>1 DEF ConsolePageFree, ReleasePage
<1>3. HeapPages' = HeapPages /\ ConsolePagesTaken'
      BY <1>1, <1>2 DEF HeapPages, ConsolePagesTaken
<1> QED BY <1>3, BlocksUntouchedKeepsPromises DEF ConsolePageFree

(* MemBlockAlloc, in all its cases.                                        *)
LEMMA AllocKeepsPromises ==
    ASSUME HeapStructure, Promises, NEW size \in 0 .. MaxSize, MemBlockAlloc(size),
           Intact'
    PROVE  Promises'
<1>1. size \in Nat /\ UNCHANGED consolePages /\ status' = "ok" /\ ~shortage'
      BY DEF MemBlockAlloc, Intact
<1>2. CASE SplitBlock(size)
      BY <1>1, <1>2, SplitFacts, SplitKeepsPromises
<1>3. CASE ExactBlock(size)
      BY <1>1, <1>3, ExactFacts, ExactKeepsPromises
<1>4. CASE BlockAndRest(size)
      BY <1>1, <1>4, RestFacts, RestKeepsPromises
<1>5. CASE PoolExhausted(size)
      BY <1>1, <1>5 DEF PoolExhausted
<1> QED BY <1>2, <1>3, <1>4, <1>5 DEF MemBlockAlloc

(* No step repairs a heap.                                                 *)
LEMMA IntactBefore ==
    ASSUME HeapStructure, [HeapNext]_heapVars, Intact'
    PROVE  Intact
<1>1. CASE UNCHANGED heapVars
      BY <1>1 DEF heapVars, frameVars, Intact
<1>2. CASE HeapNext
  <2>1. status = "ok"
        BY <1>2 DEF HeapNext, FreeStep, MemBlockAlloc, MemBlockFree, FreeFoundBlock,
           ScanNextBlock, MemBlockFreeReturns, MergeBlocks, MergeNextBlock, MergeEnds,
           ReleaseOnePageBlock, ReleaseFirstPage, ReleaseNextBlock, ReleaseEnds,
           ConsolePageAlloc, ConsolePageFree
  <2>2. shortage => shortage'
    <3>1. ASSUME NEW size \in 0 .. MaxSize, MemBlockAlloc(size)
          PROVE  shortage => shortage'
          BY <3>1 DEF MemBlockAlloc, SplitBlock, ExactBlock, BlockAndRest, PoolExhausted
    <3> QED BY <1>2, <3>1
            DEF HeapNext, FreeStep, MemBlockFree, FreeFoundBlock,
            ScanNextBlock, MemBlockFreeReturns, MergeBlocks, MergeNextBlock, MergeEnds,
            ReleaseOnePageBlock, ReleaseFirstPage, ReleaseNextBlock, ReleaseEnds,
            ConsolePageAlloc, ConsolePageFree
  <2> QED BY <2>1, <2>2 DEF Intact
<1> QED BY <1>1, <1>2

(* Every step after which the heap is intact.                              *)
LEMMA StepKeepsPromises ==
    ASSUME HeapStructure, Promises, [HeapNext]_heapVars, Intact'
    PROVE  Promises'
<1>0. status' = "ok"
      BY DEF Intact
<1>1. ASSUME NEW size \in 0 .. MaxSize, MemBlockAlloc(size) PROVE Promises'
      BY <1>1, AllocKeepsPromises
<1>2. ASSUME NEW n \in 0 .. MaxRequest, ConsolePageAlloc(n) PROVE Promises'
      BY <1>0, <1>2, ConsoleAllocKeepsPromises
<1>3. ASSUME NEW page \in Frames, ConsolePageFree(page) PROVE Promises'
      BY <1>3, ConsoleFreeKeepsPromises
<1>4. ASSUME UNCHANGED <<frameVars, blockVars, consolePages, shortage>> PROVE Promises'
  <2>1. HeapPages' = HeapPages /\ ConsolePagesTaken'
        BY <1>4 DEF HeapPages, ConsolePagesTaken, Promises, frameVars
  <2> QED BY <1>4, <2>1, BlocksUntouchedKeepsPromises
<1>5. CASE \/ \E address \in Addresses : MemBlockFree(address)
           \/ ScanNextBlock \/ MemBlockFreeReturns \/ MergeNextBlock \/ MergeEnds
           \/ ReleaseNextBlock \/ ReleaseEnds
      BY <1>4, <1>5, MovesOfMemBlockFree
<1>6. CASE FreeFoundBlock
      BY <1>6, FreeFoundKeepsPromises
<1>7. CASE MergeBlocks
      BY <1>7, MergeFacts, MergeKeepsPromises DEF Drops
<1>8. CASE ReleaseOnePageBlock
      BY <1>8, ReleaseOneFacts, ReleaseOneKeepsPromises
<1>9. CASE ReleaseFirstPage
      BY <1>9, ReleaseFirstFacts, ReleaseFirstKeepsPromises
<1>10. CASE UNCHANGED heapVars
      BY <1>4, <1>10 DEF heapVars
<1> QED BY <1>1, <1>2, <1>3, <1>5, <1>6, <1>7, <1>8, <1>9, <1>10 DEF HeapNext, FreeStep

(* The state that InitMemory leaves.                                       *)
LEMMA InitKeepsPromises == HeapInit => Promises
<1> SUFFICES ASSUME HeapInit PROVE Promises
    OBVIOUS
<1>1. \A e \in Elems : Size[e] = 0 /\ Address[e] = 0
      BY DEF HeapInit, NULL
<1>2. AllApart
      BY <1>1 DEF AllApart, Apart
<1>3. \A x \in Int : ~Held(x)
      BY <1>1 DEF Held, AddressInsideBlock, EndOf
<1>4. HeapPages = {} /\ \A p \in consolePages : bits[p]
      BY DEF HeapInit, HeapPages
<1>5. BothOrdered
      BY DEF BothOrdered, Ordered, HeapInit
<1> QED BY <1>2, <1>3, <1>4, <1>5 DEF Promises, HeldAreHeapPages, ConsolePagesTaken

(* The inductive invariant of the heap.  Each promise needs the others:    *)
(* that merging keeps the order of the list rests on the order itself,     *)
(* that a released page was nobody else's on the blocks being apart, and   *)
(* that a new page is nobody's on every byte of a block lying on a page    *)
(* that is taken.                                                          *)
THEOREM HeapInvariantHolds == HeapSpec => []HeapInvariant
<1>1. HeapInit => HeapInvariant
      BY InitIsStructured, InitKeepsPromises DEF HeapInvariant
<1>2. HeapInvariant /\ [HeapNext]_heapVars => HeapInvariant'
  <2> SUFFICES ASSUME HeapInvariant, [HeapNext]_heapVars PROVE HeapInvariant'
      OBVIOUS
  <2>1. HeapStructure'
        BY StepKeepsStructure DEF HeapInvariant
  <2>2. ASSUME Intact' PROVE Promises'
        BY <2>2, IntactBefore, StepKeepsPromises DEF HeapInvariant
  <2> QED BY <2>1, <2>2 DEF HeapInvariant
<1> QED BY <1>1, <1>2, PTL DEF HeapSpec

(* In both lists nothing stands before a block with a larger address,      *)
(* although free blocks are moved up in their places.                      *)
THEOREM HeapListsOrdered == HeapSpec => []ListsOrdered
BY HeapInvariantHolds, PromisesKept, PTL

(* No byte belongs to two blocks.                                          *)
THEOREM HeapBlocksDisjoint == HeapSpec => []BlocksDisjoint
BY HeapInvariantHolds, PromisesKept, PTL

(* No page is released under a block.                                      *)
THEOREM HeapBlocksOnHeapPages == HeapSpec => []BlocksOnHeapPages
BY HeapInvariantHolds, PromisesKept, PTL

(* No byte of a page that the heap has taken is lost to it.                *)
THEOREM HeapLosesNoByte == HeapSpec => []NoByteLost
BY HeapInvariantHolds, PromisesKept, PTL

-----------------------------------------------------------------------------
(***************************************************************************)
(* NoIdlePage.  It speaks of the heap between calls, and what it says is   *)
(* the work of the two loops of CompactFreeBlocks, so the invariant says   *)
(* how far they have come (Merged, Released), and what makes their work    *)
(* enough: a block that begins inside a page ends there, and an empty      *)
(* block inside a page stands where it cannot keep two others apart.       *)
(***************************************************************************)
(* What a page divides is aligned.                                         *)
LEMMA MultipleOfPageSize ==
    ASSUME NEW q \in Int
    PROVE  PAGE_SIZE * q \in Int /\ (PAGE_SIZE * q) % PAGE_SIZE = 0
<1>1. PAGE_SIZE \in Nat \ {0}
      BY Constants
<1>2. PICK x \in Int : x = PAGE_SIZE * q
      BY <1>1
<1>3. PAGE_SIZE * q <= x /\ x < PAGE_SIZE * q + PAGE_SIZE
      BY <1>1, <1>2
<1>4. x \div PAGE_SIZE = q
      BY <1>1, <1>3, Quotient
<1>5. /\ x = PAGE_SIZE * (x \div PAGE_SIZE) + (x % PAGE_SIZE)
      /\ x % PAGE_SIZE \in 0 .. PAGE_SIZE - 1
      BY <1>1, Division
<1>6. PICK t \in Int : t = x % PAGE_SIZE
      BY <1>5
<1>7. x = x + t
      BY <1>2, <1>4, <1>5, <1>6
<1> QED BY <1>2, <1>6, <1>7

(* So is NULL, the address of an element that is not in use.               *)
LEMMA NullAligned == IsAlligned(0)
<1>1. PICK d \in Nat \ {0} : d = PAGE_SIZE
      BY Constants
<1>2. 0 % d = 0
      OBVIOUS
<1> QED BY <1>1, <1>2 DEF IsAlligned

(* So is the first byte of every page.                                     *)
LEMMA PageStartAligned ==
    ASSUME NEW p \in Int
    PROVE  PageStart(p) \in Int /\ IsAlligned(PageStart(p))
<1> DEFINE r == MEMORY_MAP_ADDRESS \div PAGE_SIZE
<1>1. /\ PAGE_SIZE \in Nat \ {0} /\ MEMORY_MAP_ADDRESS \in Nat
      /\ MEMORY_MAP_ADDRESS % PAGE_SIZE = 0
      BY Constants, HeapAssumption
<1>2. r \in Int /\ MEMORY_MAP_ADDRESS = PAGE_SIZE * r + (MEMORY_MAP_ADDRESS % PAGE_SIZE)
      BY <1>1, Division
<1> HIDE DEF r
<1>3. PICK q \in Int : q = r + p
      BY <1>2
<1>4. PAGE_SIZE * q = PAGE_SIZE * r + PAGE_SIZE * p
      BY <1>1, <1>2, <1>3
<1>5. PAGE_SIZE * r \in Int /\ PAGE_SIZE * p \in Int
      BY <1>1, <1>2
<1>6. PageStart(p) = PAGE_SIZE * q
      BY <1>1, <1>2, <1>4, <1>5 DEF PageStart
<1> QED BY <1>6, MultipleOfPageSize DEF IsAlligned

(* From the first byte of a page to that of a later one it is a page at    *)
(* least.                                                                  *)
LEMMA PageStartsApart ==
    ASSUME NEW p \in Int, NEW q \in Int, PageStart(p) < PageStart(q)
    PROVE  PageStart(p) + PAGE_SIZE <= PageStart(q)
<1>1. p < q
  <2>1. CASE q <= p
    <3>1. PageStart(q) <= PageStart(p)
          BY <2>1, PageStartsOrdered
    <3> QED BY <3>1, PageStarts
  <2> QED BY <2>1
<1>2. PICK n \in Int : n = p + 1
      OBVIOUS
<1>3. PageStart(n) <= PageStart(q)
      BY <1>1, <1>2, PageStartsOrdered
<1> QED BY <1>2, <1>3, PageStarts

(* An address that is not aligned is behind the first byte of its page,    *)
(* and on the page of the byte before it.                                  *)
LEMMA BehindPageStart ==
    ASSUME NEW x \in Nat, ~IsAlligned(x)
    PROVE  /\ PageOf(x) \in Int /\ PageOf(x - 1) = PageOf(x)
           /\ PageStart(PageOf(x)) < x /\ x < PageStart(PageOf(x)) + PAGE_SIZE
<1>1. PICK p \in Int : p = PageOf(x)
      BY PageOfAddress
<1>2. x \in PageBytes(p)
      BY <1>1, PageOfAddress
<1>3. PICK b \in Int : b = PageStart(p)
      BY PageStarts
<1>4. PageBytes(p) = b .. b + PAGE_SIZE - 1
      BY <1>3, PageStarts
<1>5. b <= x /\ x < b + PAGE_SIZE /\ x # b
  <2>1. x # b
        BY <1>3, PageStartAligned
  <2> QED BY <1>2, <1>4, <2>1, Constants
<1>6. x - 1 \in PageBytes(p)
      BY <1>4, <1>5, Constants
<1>7. PageOf(x - 1) = p
      BY <1>6, PageOfAddress
<1> QED BY <1>1, <1>3, <1>5, <1>7

(* A block that begins inside a page ends there.                           *)
InsideOnePage ==
    \A e \in Elems :
        \/ IsAlligned(Address[e])
        \/ \A p \in Int : PageStart(p) <= Address[e] \/ EndOf(e) <= PageStart(p)

(* An empty block inside a page stands where another block begins, and in  *)
(* the list behind every block that ends there or before.                  *)
EmptyInPlace(list, address, size) ==
    \A m \in DOMAIN list :
        size[list[m]] = 0 /\ ~IsAlligned(address[list[m]]) =>
            /\ \E w \in Elems : address[w] = address[list[m]] /\ size[w] > 0
            /\ \A k \in DOMAIN list :
                  k < m => address[list[k]] + size[list[k]] <= address[list[m]]

(* What the loops of CompactFreeBlocks leave behind them, and what an      *)
(* allocation does not bring back.                                         *)
Merged ==
    \A k \in DOMAIN FreeBlocks :
        pc # "merge" \/ k < at => ~MergesWithNext(k)

Released ==
    \A k \in DOMAIN FreeBlocks :
        pc \in {"idle", "scan"} \/ (pc = "release" /\ k < at) =>
            ~CoversPage(FreeBlocks[k])

Compacted ==
    InsideOnePage /\ EmptyInPlace(FreeBlocks, Address, Size) /\ Merged /\ Released

(* Of two free blocks the first in the list ends before the second begins, *)
(* if that one is not empty.                                               *)
LEMMA EndsBefore ==
    ASSUME HeapStructure, Promises,
           NEW k \in DOMAIN FreeBlocks, NEW l \in DOMAIN FreeBlocks,
           k < l, Size[FreeBlocks[l]] > 0
    PROVE  EndOf(FreeBlocks[k]) <= Address[FreeBlocks[l]]
<1>1. PICK e, f : e = FreeBlocks[k] /\ f = FreeBlocks[l]
      OBVIOUS
<1>2. e \in Elems /\ f \in Elems /\ e # f
      BY <1>1, ListedElements
<1>3. Address[e] <= Address[f]
      BY <1>1 DEF Promises, BothOrdered, Ordered
<1>4. Apart(e, f)
      BY <1>2 DEF Promises, AllApart
<1>5. /\ Address[e] \in Nat /\ Size[e] \in Nat /\ Address[f] \in Nat /\ Size[f] \in Nat
      /\ EndOf(e) = Address[e] + Size[e] /\ EndOf(f) = Address[f] + Size[f]
      BY <1>2, FieldRange
<1>6. Size[f] > 0
      BY <1>1
<1> QED BY <1>1, <1>3, <1>4, <1>5, <1>6 DEF Apart

(* ListInsertOrdered keeps the empty blocks in their places when it adds a *)
(* block that is not empty and has no byte of another.                     *)
LEMMA InsertedInPlace ==
    ASSUME NEW list \in Seq(Elems), NEW e \in Elems,
           NEW address \in [Elems -> Nat], NEW size \in [Elems -> Nat],
           EmptyInPlace(list, address, size), size[e] > 0,
           \A w \in Elems \ {e} :
              \/ size[w] = 0 \/ address[e] + size[e] <= address[w]
              \/ address[w] + size[w] <= address[e],
           ~Listed(list, e)
    PROVE  EmptyInPlace(ListInsertOrdered(list, e, address), address, size)
<1>1. PICK new : new = ListInsertOrdered(list, e, address)
      OBVIOUS
<1>2. PICK n \in Nat : n = Len(list)
      OBVIOUS
<1>3. /\ new \in Seq(Elems) /\ Len(new) = n + 1
      /\ \E i \in 1 .. n + 1 :
           /\ \A k \in 1 .. n + 1 :
                 new[k] = IF k < i THEN list[k]
                          ELSE IF k = i THEN e ELSE list[k - 1]
           /\ \A k \in 1 .. i - 1 : address[list[k]] <= address[e]
           /\ i <= n => address[e] < address[list[i]]
  <2>1. LET result == ListInsertOrdered(list, e, address) IN
           /\ result \in Seq(Elems) /\ Len(result) = Len(list) + 1
           /\ \E i \in 1 .. Len(list) + 1 :
                /\ \A k \in 1 .. Len(list) + 1 :
                      result[k] = IF k < i THEN list[k]
                               ELSE IF k = i THEN e ELSE list[k - 1]
                /\ \A k \in 1 .. i - 1 : address[list[k]] <= address[e]
                /\ i <= Len(list) => address[e] < address[list[i]]
        BY InsertedOrdered
  <2> QED BY <1>1, <1>2, <2>1, Zenon
<1>4. PICK i \in 1 .. n + 1 :
           /\ \A k \in 1 .. n + 1 :
                 new[k] = IF k < i THEN list[k]
                          ELSE IF k = i THEN e ELSE list[k - 1]
           /\ i <= n => address[e] < address[list[i]]
      BY <1>3
<1>5. DOMAIN new = 1 .. n + 1 /\ DOMAIN list = 1 .. n
      BY <1>2, <1>3
<1>6. \A k \in 1 .. n : list[k] \in Elems
      BY <1>2
<1>7. \A f \in Elems : address[f] \in Nat /\ size[f] \in Nat
      OBVIOUS
<1> SUFFICES ASSUME NEW m \in 1 .. n + 1, size[new[m]] = 0, ~IsAlligned(address[new[m]])
             PROVE  /\ \E w \in Elems : address[w] = address[new[m]] /\ size[w] > 0
                    /\ \A k \in 1 .. n + 1 :
                          k < m => address[new[k]] + size[new[k]] <= address[new[m]]
    BY <1>1, <1>5 DEF EmptyInPlace
<1>8. PICK j \in 1 .. n : /\ new[m] = list[j] /\ m # i
                         /\ j = IF m < i THEN m ELSE m - 1
  <2>1. CASE m < i
        BY <1>4, <2>1
  <2>2. CASE m = i
        BY <1>4, <2>2
  <2>3. CASE m > i
    <3>1. m - 1 \in 1 .. n /\ new[m] = list[m - 1] /\ m # i
          BY <1>4, <2>3
    <3> QED BY <2>3, <3>1
  <2> QED BY <2>1, <2>2, <2>3
<1>9. PICK c \in Nat : c = address[list[j]]
      BY <1>6, <1>7
<1>10. /\ \E w \in Elems : address[w] = c /\ size[w] > 0
       /\ \A k \in 1 .. n : k < j => address[list[k]] + size[list[k]] <= c
       BY <1>5, <1>8, <1>9 DEF EmptyInPlace
<1>11. PICK w \in Elems : address[w] = c /\ size[w] > 0
       BY <1>10
<1>12. i < m => address[e] + size[e] <= c
  <2> SUFFICES ASSUME i < m PROVE address[e] + size[e] <= c
      OBVIOUS
  <2>1. j = m - 1 /\ i <= j /\ i \in 1 .. n
        BY <1>8
  <2>2. address[e] < address[list[i]]
        BY <1>4, <2>1
  <2>3. address[e] < c
    <3>1. CASE i = j
          BY <1>9, <2>2, <3>1
    <3>2. CASE i < j
      <4>1. address[list[i]] + size[list[i]] <= c
            BY <1>10, <2>1, <3>2
      <4>2. list[i] \in Elems
            BY <1>6, <2>1
      <4> QED BY <1>7, <2>2, <4>1, <4>2
    <3> QED BY <2>1, <3>1, <3>2
  <2>4. w # e
        BY <1>7, <1>11, <2>3
  <2>5. \/ size[w] = 0 \/ address[e] + size[e] <= address[w]
        \/ address[w] + size[w] <= address[e]
        BY <2>4
  <2> QED BY <1>7, <1>11, <2>3, <2>5
<1>13. ASSUME NEW k \in 1 .. n + 1, k < m
       PROVE  address[new[k]] + size[new[k]] <= c
  <2>1. CASE k < i
    <3>1. new[k] = list[k] /\ k \in 1 .. n /\ k < j
          BY <1>4, <1>8, <1>13, <2>1
    <3> QED BY <1>10, <3>1
  <2>2. CASE k = i
    <3>1. new[i] = e
          BY <1>4
    <3>2. new[k] = e /\ i < m
          BY <1>13, <2>2, <3>1
    <3> QED BY <1>12, <3>2
  <2>3. CASE k > i
    <3>1. new[k] = list[k - 1]
          BY <1>4, <1>13, <2>3, ~(k < i), k # i
    <3>2. k - 1 \in 1 .. n /\ k - 1 < j
          BY <1>8, <1>13, <2>3
    <3> QED BY <1>10, <3>1, <3>2
  <2> QED BY <2>1, <2>2, <2>3
<1> QED BY <1>8, <1>9, <1>10, <1>13

(* MemBlockAlloc, when a free block is split: it was smaller than a page,  *)
(* or begins inside one.  What is left of it begins behind every block that*)
(* stands before it, and if nothing is left another block begins there.    *)
LEMMA SplitKeepsCompacted ==
    ASSUME HeapStructure, Promises, Compacted, NEW e, NEW new, NEW size \in Nat,
           Splits(e, new, size), pc = "idle", UNCHANGED loopVars
    PROVE  Compacted'
<1>1. FieldTypes /\ Matched
      BY StructureParts
<1>2. /\ e \in Elems /\ new \in Elems /\ e # new /\ size <= Size[e]
      /\ \A f \in Elems : Address[f] \in Nat /\ Size[f] \in Nat
      /\ Address'[new] = Address[e] /\ Size'[new] = size
      /\ Address'[e] = Address[e] + size /\ Size'[e] = Size[e] - size
      /\ \A f \in Elems \ {e, new} : Address'[f] = Address[f] /\ Size'[f] = Size[f]
      /\ FreeBlocks' = FreeBlocks /\ pc' = "idle"
      BY <1>1 DEF Splits, FieldsOf, OthersUnchanged, FieldTypes, loopVars
<1>3. Size[new] = 0
      BY <1>1 DEF Splits, Matched
<1>4. /\ \A k \in DOMAIN FreeBlocks : FreeBlocks[k] \in Elems /\ FreeBlocks[k] # new
      /\ DOMAIN FreeBlocks = 1 .. Len(FreeBlocks) /\ Len(FreeBlocks) \in Nat
      BY ListedElements, Flags DEF Splits
<1>5. PICK q \in DOMAIN FreeBlocks : FreeBlocks[q] = e
      BY <1>1 DEF Splits, Matched, Listed
<1>6. \A k \in DOMAIN FreeBlocks : k # q => FreeBlocks[k] # e
      BY <1>5, ListedElements
<1>7. PICK a \in Nat, t \in Nat : a = Address[e] /\ t = Size[e]
      BY <1>2
<1>8. IsAlligned(a) => t < PAGE_SIZE
      BY <1>2, <1>5, <1>7, Constants DEF Compacted, Released, CoversPage
<1>9. \/ IsAlligned(a)
      \/ \A p \in Int : PageStart(p) <= a \/ a + t <= PageStart(p)
      BY <1>2, <1>7 DEF Compacted, InsideOnePage, EndOf
<1>10. InsideOnePage'
  <2>1. \/ IsAlligned(Address'[new])
        \/ \A p \in Int : \/ PageStart(p) <= Address'[new]
                          \/ Address'[new] + Size'[new] <= PageStart(p)
    <3> SUFFICES ASSUME ~IsAlligned(a), NEW p \in Int
                 PROVE  PageStart(p) <= a \/ a + size <= PageStart(p)
        BY <1>2, <1>7
    <3>1. PICK b \in Int : b = PageStart(p)
          BY PageStarts
    <3>2. b <= a \/ a + t <= b
          BY <1>9, <3>1
    <3> QED BY <1>2, <1>7, <3>1, <3>2
  <2>2. \A p \in Int : \/ PageStart(p) <= Address'[e]
                       \/ Address'[e] + Size'[e] <= PageStart(p)
        \/ IsAlligned(Address'[e])
    <3> SUFFICES ASSUME NEW p \in Int, ~(PageStart(p) <= a + size),
                        ~(a + t <= PageStart(p))
                 PROVE  FALSE
        BY <1>2, <1>7
    <3>1. PICK b \in Int : b = PageStart(p)
          BY PageStarts
    <3>2. CASE IsAlligned(a)
      <4>1. PICK o \in Int : a = PageStart(o)
            BY <3>2, AlignedAddress
      <4>2. PageStart(o) < PageStart(p)
            BY <3>1, <4>1
      <4>3. a + PAGE_SIZE <= b
            BY <3>1, <4>1, <4>2, PageStartsApart
      <4> QED BY <1>8, <3>1, <3>2, <4>3, Constants
    <3>3. CASE ~IsAlligned(a)
          BY <1>9, <3>1, <3>3
    <3> QED BY <3>2, <3>3
  <2>3. \A f \in Elems \ {e, new} :
           \/ IsAlligned(Address'[f])
           \/ \A p \in Int : \/ PageStart(p) <= Address'[f]
                             \/ Address'[f] + Size'[f] <= PageStart(p)
        BY <1>2 DEF Compacted, InsideOnePage, EndOf
  <2> QED BY <2>1, <2>2, <2>3 DEF InsideOnePage, EndOf
<1>11. \A k \in DOMAIN FreeBlocks : k < q /\ t > 0 => EndOf(FreeBlocks[k]) <= a
       BY <1>5, <1>7, EndsBefore
<1>12. \A k \in DOMAIN FreeBlocks :
          /\ EndOf(FreeBlocks[k]) \in Nat
          /\ Address'[FreeBlocks[k]] + Size'[FreeBlocks[k]] = EndOf(FreeBlocks[k])
          /\ k # q => /\ Address'[FreeBlocks[k]] = Address[FreeBlocks[k]]
                      /\ Size'[FreeBlocks[k]] = Size[FreeBlocks[k]]
       BY <1>2, <1>4, <1>6 DEF EndOf
<1>13. Merged'
  <2> SUFFICES ASSUME NEW k \in DOMAIN FreeBlocks, k + 1 \in DOMAIN FreeBlocks,
                      EndOf(FreeBlocks[k]) = Address'[FreeBlocks[k + 1]],
                      ~IsAlligned(Address'[FreeBlocks[k + 1]])
               PROVE  FALSE
      BY <1>2, <1>12 DEF Merged, MergesWithNext, EndOf
  <2>1. ~MergesWithNext(k)
        BY DEF Compacted, Merged
  <2>2. CASE k + 1 # q
        BY <1>12, <2>1, <2>2 DEF MergesWithNext
  <2>3. CASE k + 1 = q
    <3>1. EndOf(FreeBlocks[k]) = a + size
          BY <1>2, <1>5, <1>7, <2>3
    <3>2. k < q
          BY <1>4, <2>3
    <3>3. t > 0 => a + size <= a
          BY <1>11, <3>1, <3>2
    <3>4. size = 0
          BY <1>2, <1>7, <3>3
    <3>5. Address'[e] = Address[e]
          BY <1>2, <3>4
    <3> QED BY <1>5, <2>1, <2>3, <3>5 DEF MergesWithNext
  <2> QED BY <2>2, <2>3
<1>14. Released'
  <2> SUFFICES ASSUME NEW k \in DOMAIN FreeBlocks,
                      IsAlligned(Address'[FreeBlocks[k]]),
                      Size'[FreeBlocks[k]] >= PAGE_SIZE
               PROVE  FALSE
      BY <1>2 DEF Released, CoversPage
  <2>1. ~CoversPage(FreeBlocks[k])
        BY DEF Compacted, Released
  <2>2. CASE k # q
        BY <1>12, <2>1, <2>2 DEF CoversPage
  <2>3. CASE k = q
    <3>1. IsAlligned(a + size) /\ t - size >= PAGE_SIZE
          BY <1>2, <1>5, <1>7, <2>3
    <3>2. ~IsAlligned(a)
          BY <1>8, <3>1, Constants
    <3>3. size # 0
          BY <3>1, <3>2
    <3>4. PICK p \in Int : a + size = PageStart(p)
          BY <3>1, AlignedAddress
    <3>5. a + size <= a \/ a + t <= a + size
          BY <1>9, <3>2, <3>4
    <3> QED BY <3>1, <3>3, <3>5, Constants
  <2> QED BY <2>2, <2>3
<1>15. ASSUME NEW m \in DOMAIN FreeBlocks, Size'[FreeBlocks[m]] = 0,
              ~IsAlligned(Address'[FreeBlocks[m]])
       PROVE  /\ \E w \in Elems :
                    Address'[w] = Address'[FreeBlocks[m]] /\ Size'[w] > 0
              /\ \A k \in DOMAIN FreeBlocks :
                    k < m => EndOf(FreeBlocks[k]) <= Address'[FreeBlocks[m]]
  <2>1. CASE m # q \/ size = 0
    <3>1. /\ Address'[FreeBlocks[m]] = Address[FreeBlocks[m]]
          /\ Size'[FreeBlocks[m]] = Size[FreeBlocks[m]]
          BY <1>2, <1>5, <1>12, <2>1
    <3>2. /\ \E w \in Elems : Address[w] = Address[FreeBlocks[m]] /\ Size[w] > 0
          /\ \A k \in DOMAIN FreeBlocks :
                k < m => EndOf(FreeBlocks[k]) <= Address[FreeBlocks[m]]
          BY <1>15, <3>1 DEF Compacted, EmptyInPlace, EndOf
    <3>3. PICK w \in Elems : Address[w] = Address[FreeBlocks[m]] /\ Size[w] > 0
          BY <3>2
    <3>4. w # new
          BY <1>3, <3>3
    <3>5. w # e => Address'[w] = Address[w] /\ Size'[w] > 0
          BY <1>2, <3>3, <3>4
    <3>6. CASE w = e
          BY <1>2, <3>1, <3>2, <3>3, <3>6
    <3> QED BY <3>1, <3>2, <3>3, <3>5, <3>6
  <2>2. CASE m = q /\ size # 0
    <3>1. /\ Address'[FreeBlocks[m]] = a + size /\ size = t /\ size > 0
          /\ ~IsAlligned(a + size)
          BY <1>2, <1>5, <1>7, <1>15, <2>2
    <3>2. PICK b \in Nat : b = a + size
          BY <1>7
    <3>3. PageOf(b - 1) = PageOf(b)
          BY <3>1, <3>2, BehindPageStart
    <3>4. AddressInsideBlock(b - 1, e)
          BY <1>2, <1>7, <3>1, <3>2 DEF AddressInsideBlock, EndOf
    <3>5. Held(b)
      <4>1. b - 1 \in Int /\ b \in Int
            BY <3>2
      <4>2. Held(b - 1)
            BY <1>2, <3>4 DEF Held
      <4> QED BY <3>3, <4>1, <4>2 DEF Promises, HeldAreHeapPages
    <3>6. PICK w \in Elems : AddressInsideBlock(b, w)
          BY <3>5 DEF Held
    <3>7. w # e /\ w # new
          BY <1>2, <1>3, <1>7, <3>1, <3>2, <3>6 DEF AddressInsideBlock, EndOf
    <3>8. Apart(e, w)
          BY <1>2, <3>7 DEF Promises, AllApart
    <3>9. Address[w] = b /\ Size[w] > 0
          BY <1>2, <1>7, <3>1, <3>2, <3>6, <3>8 DEF Apart, AddressInsideBlock, EndOf
    <3>10. Address'[w] = b /\ Size'[w] > 0
           BY <1>2, <3>7, <3>9
    <3>11. ASSUME NEW k \in DOMAIN FreeBlocks, k < m
           PROVE  EndOf(FreeBlocks[k]) <= b
      <4>1. EndOf(FreeBlocks[k]) \in Nat /\ EndOf(FreeBlocks[k]) <= a
            BY <1>11, <1>12, <2>2, <3>1, <3>11
      <4> QED BY <1>7, <3>1, <3>2, <4>1
    <3> QED BY <3>1, <3>2, <3>10, <3>11
  <2> QED BY <2>1, <2>2
<1>16. EmptyInPlace(FreeBlocks, Address, Size)'
  <2>1. EmptyInPlace(FreeBlocks, Address', Size')
        BY <1>12, <1>15 DEF EmptyInPlace
  <2> QED BY <1>2, <2>1
<1> QED BY <1>10, <1>13, <1>14, <1>16 DEF Compacted

(* MemBlockAlloc, when the block fills its pages: it begins at the first   *)
(* byte of a page, and the list of free blocks stays.                      *)
LEMMA ExactKeepsCompacted ==
    ASSUME HeapStructure, Compacted, NEW new, NEW first, NEW size \in Nat,
           MakesExactly(new, first, size), pc = "idle", UNCHANGED loopVars
    PROVE  Compacted'
<1>1. FieldTypes /\ Matched
      BY StructureParts
<1>2. /\ new \in Elems /\ IsFree[new] = U_BOOL
      /\ Address'[new] = FreshAddress(first)
      /\ \A f \in Elems \ {new} : Address'[f] = Address[f] /\ Size'[f] = Size[f]
      /\ FreeBlocks' = FreeBlocks /\ pc' = "idle"
      BY <1>1 DEF MakesExactly, Makes, FieldsOf, OthersUnchanged, FieldTypes, loopVars
<1>3. Size[new] = 0
      BY <1>1, <1>2 DEF Matched
<1>4. \A k \in DOMAIN FreeBlocks : FreeBlocks[k] \in Elems /\ FreeBlocks[k] # new
      BY <1>2, ListedElements, Flags
<1>5. IsAlligned(FreshAddress(first))
  <2>1. PagesFor(size) \in Nat
        BY PagesForSize
  <2>3. CASE first = NoPage
        BY <2>3, NullAligned DEF FreshAddress, NULL
  <2>4. CASE first # NoPage
    <3>1. first \in Int /\ FreshAddress(first) = PageStart(first)
          BY <2>1, <2>4, FreshAddressRange DEF MakesExactly, Makes
    <3> QED BY <3>1, PageStartAligned
  <2> QED BY <2>3, <2>4
<1>6. InsideOnePage'
      BY <1>2, <1>5 DEF Compacted, InsideOnePage, EndOf
<1>7. \A k \in DOMAIN FreeBlocks :
         /\ Address'[FreeBlocks[k]] = Address[FreeBlocks[k]]
         /\ Size'[FreeBlocks[k]] = Size[FreeBlocks[k]]
      BY <1>2, <1>4
<1>8. Merged' /\ Released'
  <2>1. \A k \in DOMAIN FreeBlocks : ~MergesWithNext(k) /\ ~CoversPage(FreeBlocks[k])
        BY DEF Compacted, Merged, Released
  <2> QED BY <1>2, <1>7, <2>1 DEF Merged, Released, MergesWithNext, CoversPage, EndOf
<1>9. EmptyInPlace(FreeBlocks, Address, Size)'
  <2>1. ASSUME NEW m \in DOMAIN FreeBlocks, Size[FreeBlocks[m]] = 0,
               ~IsAlligned(Address[FreeBlocks[m]])
        PROVE  /\ \E w \in Elems : Address'[w] = Address[FreeBlocks[m]] /\ Size'[w] > 0
               /\ \A k \in DOMAIN FreeBlocks : k < m =>
                     Address[FreeBlocks[k]] + Size[FreeBlocks[k]] <= Address[FreeBlocks[m]]
    <3>1. /\ \E w \in Elems : Address[w] = Address[FreeBlocks[m]] /\ Size[w] > 0
          /\ \A k \in DOMAIN FreeBlocks : k < m =>
                Address[FreeBlocks[k]] + Size[FreeBlocks[k]] <= Address[FreeBlocks[m]]
          BY <2>1 DEF Compacted, EmptyInPlace
    <3>2. PICK w \in Elems : Address[w] = Address[FreeBlocks[m]] /\ Size[w] > 0
          BY <3>1
    <3>3. w # new
          BY <1>3, <3>2
    <3> QED BY <1>2, <3>1, <3>2, <3>3
  <2>2. EmptyInPlace(FreeBlocks, Address', Size')
        BY <1>7, <2>1 DEF EmptyInPlace
  <2> QED BY <1>2, <2>2
<1> QED BY <1>6, <1>8, <1>9 DEF Compacted

(* MemBlockAlloc, when part of the last page becomes a free block: the rest*)
(* is less than a page and ends with it, and no block ends where it begins.*)
LEMMA RestKeepsCompacted ==
    ASSUME HeapStructure, Promises, Promises', Compacted,
           NEW new, NEW rest, NEW first, NEW size \in Nat,
           MakesWithRest(new, rest, first, size), pc = "idle",
           UNCHANGED <<loopVars, consolePages>>, status' = "ok", ~shortage'
    PROVE  Compacted'
<1>1. FieldTypes /\ Matched
      BY StructureParts
<1>2. PICK n \in Nat : n = PagesFor(size)
      BY PagesForSize
<1>3. PICK total \in Nat : total = PAGE_SIZE * n
      BY <1>2, PagesForSize
<1>4. size < total /\ total - size < PAGE_SIZE /\ size > 0
  <2>1. size <= total /\ total < size + PAGE_SIZE
        BY <1>2, <1>3, PagesForSize
  <2>2. size # total
    <3>1. n \in Int
          OBVIOUS
    <3>2. total % PAGE_SIZE = 0
          BY <1>3, <3>1, MultipleOfPageSize
    <3>3. size % PAGE_SIZE # 0
          BY DEF MakesWithRest
    <3> QED BY <3>2, <3>3, Zenon
  <2>3. size # 0
    <3>1. PICK d \in Nat \ {0} : d = PAGE_SIZE
          BY Constants
    <3>2. 0 % d = 0
          OBVIOUS
    <3>3. size % d # 0
          BY <3>1 DEF MakesWithRest
    <3> QED BY <3>2, <3>3, Zenon
  <2> QED BY <2>1, <2>2, <2>3, Constants
<1>5. first # NoPage /\ first \in Answers(n) /\ TakePages(first, n)
      BY <1>2 DEF MakesWithRest, Makes
<1>6. first \in Nat /\ FreshAddress(first) = PageStart(first)
      BY <1>5, FreshAddressRange
<1>7. PICK a \in Nat : a = PageStart(first)
      BY <1>5, FreshPages
<1>8. \A f \in Elems : Size[f] = 0 \/ EndOf(f) <= a \/ a + total <= Address[f]
      BY <1>3, <1>5, <1>7, FreshPages
<1>9. PICK last \in Int : last = first + n
      BY <1>6
<1>10. PageStart(last) = a + total /\ IsAlligned(a) /\ IsAlligned(a + total)
  <2>1. PAGE_SIZE * last = PAGE_SIZE * first + PAGE_SIZE * n
        BY <1>6, <1>9, Constants
  <2>2. PAGE_SIZE * first \in Int
        BY <1>6, Constants
  <2>3. PageStart(last) = a + total
        BY <1>3, <1>7, <2>1, <2>2, Constants DEF PageStart
  <2>4. first \in Int
        BY <1>6
  <2> QED BY <1>7, <2>3, <2>4, PageStartAligned
<1>11. /\ new \in Elems /\ IsFree[new] = U_BOOL /\ Size[new] = 0
       /\ rest \in Elems /\ IsFree[rest] = U_BOOL /\ Size[rest] = 0 /\ rest # new
       BY <1>1 DEF MakesWithRest, Makes, Matched
<1>12. /\ Address'[new] = a /\ Size'[new] = size
       /\ Address'[rest] = a + size /\ Size'[rest] = total - size
       /\ \A f \in Elems : Address[f] \in Nat /\ Size[f] \in Nat
       /\ \A f \in Elems \ {new, rest} : Address'[f] = Address[f] /\ Size'[f] = Size[f]
       /\ Address' \in [Elems -> Nat] /\ Size' \in [Elems -> Nat]
       /\ FreeBlocks' = ListInsertOrdered(FreeBlocks, rest, Address') /\ pc' = "idle"
       BY <1>1, <1>2, <1>3, <1>6, <1>7
          DEF MakesWithRest, Makes, FieldsOf, OthersUnchanged, FieldTypes, loopVars
<1>13. \A k \in DOMAIN FreeBlocks :
          FreeBlocks[k] \in Elems /\ FreeBlocks[k] # new /\ FreeBlocks[k] # rest
       BY <1>11, ListedElements, Flags
<1>14. \A k \in DOMAIN FreeBlocks :
          /\ Address'[FreeBlocks[k]] = Address[FreeBlocks[k]]
          /\ Size'[FreeBlocks[k]] = Size[FreeBlocks[k]]
       BY <1>12, <1>13
<1>15. InsideOnePage'
  <2>1. ASSUME NEW p \in Int
        PROVE  PageStart(p) <= a + size \/ a + total <= PageStart(p)
    <3>1. PICK b \in Int : b = PageStart(p)
          BY PageStarts
    <3>2. b < a + total => b + PAGE_SIZE <= a + total
          BY <1>9, <1>10, <3>1, PageStartsApart
    <3> QED BY <1>4, <3>1, <3>2, Constants
  <2>2. a + size + (total - size) = a + total
        OBVIOUS
  <2> QED BY <1>10, <1>12, <2>1, <2>2 DEF Compacted, InsideOnePage, EndOf
<1>16. EmptyInPlace(FreeBlocks', Address', Size')
  <2>1. ASSUME NEW m \in DOMAIN FreeBlocks, Size[FreeBlocks[m]] = 0,
               ~IsAlligned(Address[FreeBlocks[m]])
        PROVE  /\ \E w \in Elems : Address'[w] = Address[FreeBlocks[m]] /\ Size'[w] > 0
               /\ \A k \in DOMAIN FreeBlocks : k < m =>
                     Address[FreeBlocks[k]] + Size[FreeBlocks[k]] <= Address[FreeBlocks[m]]
    <3>1. /\ \E w \in Elems : Address[w] = Address[FreeBlocks[m]] /\ Size[w] > 0
          /\ \A k \in DOMAIN FreeBlocks : k < m =>
                Address[FreeBlocks[k]] + Size[FreeBlocks[k]] <= Address[FreeBlocks[m]]
          BY <2>1 DEF Compacted, EmptyInPlace
    <3>2. PICK w \in Elems : Address[w] = Address[FreeBlocks[m]] /\ Size[w] > 0
          BY <3>1
    <3>3. w # new /\ w # rest
          BY <1>11, <3>2
    <3> QED BY <1>12, <3>1, <3>2, <3>3
  <2>2. EmptyInPlace(FreeBlocks, Address', Size')
        BY <1>14, <2>1 DEF EmptyInPlace
  <2>3. ~Listed(FreeBlocks, rest)
        BY <1>13 DEF Listed
  <2>4. Size'[rest] > 0
        BY <1>4, <1>12
  <2>5. ASSUME NEW w \in Elems \ {rest}
        PROVE  \/ Size'[w] = 0 \/ Address'[rest] + Size'[rest] <= Address'[w]
               \/ Address'[w] + Size'[w] <= Address'[rest]
    <3>1. Apart(rest, w)'
          BY <1>11 DEF Promises, AllApart
    <3> QED BY <2>4, <3>1 DEF Apart, EndOf
  <2>6. FreeBlocks \in Seq(Elems)
        BY <1>1 DEF FieldTypes
  <2>7. PICK address, sizes : address = Address' /\ sizes = Size'
        OBVIOUS
  <2>8. /\ address \in [Elems -> Nat] /\ sizes \in [Elems -> Nat]
        /\ EmptyInPlace(FreeBlocks, address, sizes) /\ sizes[rest] > 0
        /\ \A w \in Elems \ {rest} :
              \/ sizes[w] = 0 \/ address[rest] + sizes[rest] <= address[w]
              \/ address[w] + sizes[w] <= address[rest]
        BY <1>12, <2>2, <2>4, <2>5, <2>7, Zenon
  <2>9. rest \in Elems
        BY <1>11
  <2>10. EmptyInPlace(ListInsertOrdered(FreeBlocks, rest, address), address, sizes)
         BY <2>3, <2>6, <2>8, <2>9, InsertedInPlace
  <2> QED BY <1>12, <2>7, <2>10, Zenon
<1>17. PICK old \in Nat : old = Len(FreeBlocks)
       BY ListedElements
<1>18. PICK i \in 1 .. old + 1 :
          \A k \in 1 .. old + 1 :
             FreeBlocks'[k] = IF k < i THEN FreeBlocks[k]
                              ELSE IF k = i THEN rest ELSE FreeBlocks[k - 1]
  <2>1. PICK address : address = Address'
        OBVIOUS
  <2>2. address \in [Elems -> Nat] /\ FreeBlocks \in Seq(Elems) /\ rest \in Elems
        BY <1>1, <1>11, <1>12, <2>1 DEF FieldTypes
  <2>3. LET list == ListInsertOrdered(FreeBlocks, rest, address) IN
        \E i \in 1 .. Len(FreeBlocks) + 1 :
           \A k \in 1 .. Len(FreeBlocks) + 1 :
              list[k] = IF k < i THEN FreeBlocks[k]
                        ELSE IF k = i THEN rest ELSE FreeBlocks[k - 1]
        BY <2>2, InsertedOrdered
  <2> QED BY <1>12, <1>17, <2>1, <2>3, Zenon
<1>19. DOMAIN FreeBlocks' = 1 .. old + 1 /\ DOMAIN FreeBlocks = 1 .. old
  <2>1. PICK address : address = Address'
        OBVIOUS
  <2>2. address \in [Elems -> Nat] /\ FreeBlocks \in Seq(Elems) /\ rest \in Elems
        BY <1>1, <1>11, <1>12, <2>1 DEF FieldTypes
  <2>3. FreeBlocks' \in Seq(Elems) /\ Len(FreeBlocks') = old + 1
        BY <1>12, <1>17, <2>1, <2>2, InsertedOrdered
  <2> QED BY <1>17, <2>3, ListedElements
<1>20. Released'
  <2> SUFFICES ASSUME NEW k \in 1 .. old + 1
               PROVE  ~(/\ IsAlligned(Address'[FreeBlocks'[k]])
                        /\ Size'[FreeBlocks'[k]] >= PAGE_SIZE)
      BY <1>12, <1>19 DEF Released, CoversPage
  <2>1. \A j \in 1 .. old : ~CoversPage(FreeBlocks[j])
        BY <1>19 DEF Compacted, Released
  <2>2. CASE k = i
    <3>1. FreeBlocks'[k] = rest
          BY <1>18, <2>2
    <3> QED BY <1>4, <1>12, <3>1, Constants
  <2>3. CASE k # i
    <3>1. PICK j \in 1 .. old : FreeBlocks'[k] = FreeBlocks[j]
      <4>1. CASE k < i
            BY <1>18, <4>1
      <4>2. CASE k > i
        <5>1. FreeBlocks'[k] = FreeBlocks[k - 1] /\ k - 1 \in 1 .. old
              BY <1>18, <4>2
        <5> QED BY <5>1
      <4> QED BY <2>3, <4>1, <4>2
    <3> QED BY <1>14, <1>19, <2>1, <3>1 DEF CoversPage
  <2> QED BY <2>2, <2>3
<1>21. Merged'
  <2> SUFFICES ASSUME NEW k \in 1 .. old + 1, k + 1 \in 1 .. old + 1,
                      Address'[FreeBlocks'[k]] + Size'[FreeBlocks'[k]]
                        = Address'[FreeBlocks'[k + 1]],
                      ~IsAlligned(Address'[FreeBlocks'[k + 1]])
               PROVE  FALSE
      BY <1>12, <1>19 DEF Merged, MergesWithNext, EndOf
  <2>1. \A j \in 1 .. old : ~MergesWithNext(j)
        BY <1>19 DEF Compacted, Merged
  <2>2. CASE k + 1 < i
    <3>1. /\ FreeBlocks'[k] = FreeBlocks[k] /\ FreeBlocks'[k + 1] = FreeBlocks[k + 1]
          /\ k \in 1 .. old /\ k + 1 \in 1 .. old
          BY <1>18, <2>2
    <3> QED BY <1>14, <1>19, <2>1, <3>1 DEF MergesWithNext, EndOf
  <2>3. CASE k > i
    <3>1. /\ FreeBlocks'[k] = FreeBlocks[k - 1] /\ FreeBlocks'[k + 1] = FreeBlocks[k]
          /\ k - 1 \in 1 .. old /\ k \in 1 .. old
          BY <1>18, <2>3
    <3>2. PICK j \in 1 .. old : j = k - 1 /\ j + 1 = k
          BY <3>1
    <3> QED BY <1>14, <1>19, <2>1, <3>1, <3>2 DEF MergesWithNext, EndOf
  <2>4. CASE k = i
    <3>1. FreeBlocks'[k] = rest
          BY <1>18, <2>4
    <3>2. Address'[FreeBlocks'[k + 1]] = a + total
          BY <1>12, <3>1
    <3> QED BY <1>10, <3>2
  <2>5. CASE k + 1 = i
    <3>1. FreeBlocks'[k] = FreeBlocks[k] /\ FreeBlocks'[k + 1] = rest /\ k \in 1 .. old
          BY <1>18, <2>5
    <3>2. PICK f \in Elems : f = FreeBlocks[k]
          BY <1>13, <1>19, <3>1
    <3>3. EndOf(f) = a + size /\ ~IsAlligned(a + size)
          BY <1>12, <1>14, <1>19, <3>1, <3>2 DEF EndOf
    <3>4. Size[f] = 0 /\ Address[f] = a + size
          BY <1>4, <1>8, <1>12, <3>3 DEF EndOf
    <3>5. \E w \in Elems : Address[w] = a + size /\ Size[w] > 0
          BY <1>19, <3>1, <3>2, <3>3, <3>4 DEF Compacted, EmptyInPlace
    <3>6. PICK w \in Elems : Address[w] = a + size /\ Size[w] > 0
          BY <3>5
    <3>7. EndOf(w) <= a \/ a + total <= Address[w]
          BY <1>8, <3>6
    <3> QED BY <1>4, <1>12, <3>6, <3>7 DEF EndOf
  <2> QED BY <2>2, <2>3, <2>4, <2>5
<1>22. EmptyInPlace(FreeBlocks, Address, Size)'
       BY <1>16
<1> QED BY <1>15, <1>20, <1>21, <1>22 DEF Compacted

(* MemBlockFree, when the block that was found changes its list: it is not *)
(* empty, since the address is inside of it.                               *)
LEMMA FreeFoundKeepsCompacted ==
    ASSUME HeapStructure, Promises, Compacted, FreeFoundBlock
    PROVE  Compacted'
<1>1. FieldTypes /\ Matched /\ LoopTypes
      BY StructureParts
<1>2. PICK e : e = OccupiedBlocks[scanAt]
      OBVIOUS
<1>3. /\ e \in Elems /\ IsFree[e] = "FALSE" /\ AddressInsideBlock(target, e)
      BY <1>2, ListedElements DEF FreeFoundBlock
<1>4. /\ FreeBlocks' = ListInsertOrdered(FreeBlocks, e, Address)
      /\ Address' = Address /\ Size' = Size /\ pc' = "merge" /\ at' = 1
      BY <1>2 DEF FreeFoundBlock, BeginCompaction
<1>5. /\ Address \in [Elems -> Nat] /\ Size \in [Elems -> Nat]
      /\ FreeBlocks \in Seq(Elems) /\ target \in Nat
      BY <1>1 DEF FieldTypes, LoopTypes
<1>6. Size[e] > 0
  <2>1. Address[e] \in Nat /\ Size[e] \in Nat
        BY <1>3, <1>5
  <2> QED BY <1>3, <1>5, <2>1 DEF AddressInsideBlock, EndOf
<1>7. ~Listed(FreeBlocks, e)
      BY <1>1, <1>3, Flags DEF Matched
<1>8. InsideOnePage'
      BY <1>4 DEF Compacted, InsideOnePage, EndOf
<1>9. EmptyInPlace(FreeBlocks, Address, Size)'
  <2>1. ASSUME NEW w \in Elems \ {e}
        PROVE  \/ Size[w] = 0 \/ Address[e] + Size[e] <= Address[w]
               \/ Address[w] + Size[w] <= Address[e]
    <3>1. Apart(e, w)
          BY <1>3 DEF Promises, AllApart
    <3> QED BY <1>6, <3>1 DEF Apart, EndOf
  <2>2. EmptyInPlace(ListInsertOrdered(FreeBlocks, e, Address), Address, Size)
        BY <1>3, <1>5, <1>6, <1>7, <2>1, InsertedInPlace DEF Compacted
  <2> QED BY <1>4, <2>2
<1>10. Merged' /\ Released'
  <2>1. FreeBlocks' \in Seq(Elems)
        BY <1>3, <1>4, <1>5, InsertedOrdered
  <2>2. \A k \in DOMAIN FreeBlocks' : ~(k < 1)
    <3>1. PICK list \in Seq(Elems) : list = FreeBlocks'
          BY <2>1
    <3>2. DOMAIN list = 1 .. Len(list) /\ Len(list) \in Nat
          OBVIOUS
    <3> QED BY <3>1, <3>2
  <2> QED BY <1>4, <2>2 DEF Merged, Released
<1> QED BY <1>8, <1>9, <1>10 DEF Compacted

(* CompactFreeBlocks, when two neighbours are merged: the empty blocks that*)
(* stood where the second one begins would have to stand between them.     *)
LEMMA MergeKeepsCompacted ==
    ASSUME HeapStructure, Promises, Compacted, NEW e, NEW next, Merges(e, next),
           Drops(next, at + 1), MergesWithNext(at), pc = "merge"
    PROVE  Compacted'
<1>1. FieldTypes /\ Matched /\ LoopTypes
      BY StructureParts
<1>2. PICK old \in Nat : old = Len(FreeBlocks)
      BY ListedElements
<1>3. /\ at \in 1 .. old /\ at + 1 \in 1 .. old /\ at \in Nat
      /\ e = FreeBlocks[at] /\ next = FreeBlocks[at + 1]
      /\ e \in Elems /\ next \in Elems /\ e # next
      BY <1>1, <1>2 DEF Merges, LoopTypes
<1>4. /\ \A f \in Elems : Address[f] \in Nat /\ Size[f] \in Nat
      /\ Address'[e] = Address[e] /\ Size'[e] = Size[e] + Size[next]
      /\ Address'[next] = 0 /\ Size'[next] = 0
      /\ \A f \in Elems \ {e, next} : Address'[f] = Address[f] /\ Size'[f] = Size[f]
      /\ Address[e] + Size[e] = Address[next] /\ ~IsAlligned(Address[next])
      BY <1>1, <1>3 DEF Merges, FieldsOf, OthersUnchanged, FieldTypes, NULL, MergesWithNext
<1>5. /\ DOMAIN FreeBlocks = 1 .. old /\ \A k \in 1 .. old : FreeBlocks[k] \in Elems
      /\ \A k, l \in 1 .. old : k # l => FreeBlocks[k] # FreeBlocks[l]
      BY <1>2, ListedElements
<1>6. /\ DOMAIN FreeBlocks' = 1 .. old - 1
      /\ \A k \in 1 .. old - 1 :
            FreeBlocks'[k] = IF k <= at THEN FreeBlocks[k] ELSE FreeBlocks[k + 1]
  <2>1. PICK i \in 1 .. old : i = at + 1
        BY <1>3
  <2>2. FreeBlocks' = RemoveAt(FreeBlocks, i) /\ FreeBlocks \in Seq(Elems)
        BY <1>1, <2>1 DEF Drops, ListRemove, FieldTypes
  <2>3. /\ RemoveAt(FreeBlocks, i) \in Seq(Elems)
        /\ Len(RemoveAt(FreeBlocks, i)) = old - 1
        /\ \A k \in 1 .. old - 1 :
              RemoveAt(FreeBlocks, i)[k] = IF k < i THEN FreeBlocks[k] ELSE FreeBlocks[k + 1]
        BY <1>2, <2>1, <2>2, RemoveAtProperties
  <2>4. \A k \in 1 .. old - 1 : k < i <=> k <= at
        BY <1>3, <2>1
  <2>5. DOMAIN FreeBlocks' = 1 .. old - 1
        BY <2>2, <2>3
  <2> QED BY <2>2, <2>3, <2>4, <2>5
<1>7. pc' = "merge" /\ at' = at
      BY DEF Drops, loopVars
<1>8. InsideOnePage'
  <2>1. ASSUME NEW p \in Int, ~IsAlligned(Address[e])
        PROVE  \/ PageStart(p) <= Address[e]
               \/ Address[e] + (Size[e] + Size[next]) <= PageStart(p)
    <3>1. PICK b \in Int : b = PageStart(p)
          BY PageStarts
    <3>2. b <= Address[e] \/ Address[e] + Size[e] <= b
          BY <1>3, <2>1, <3>1 DEF Compacted, InsideOnePage, EndOf
    <3>3. b <= Address[next] \/ Address[next] + Size[next] <= b
          BY <1>3, <1>4, <3>1 DEF Compacted, InsideOnePage, EndOf
    <3>4. b # Address[next]
          BY <1>4, <3>1, PageStartAligned
    <3> QED BY <1>3, <1>4, <3>1, <3>2, <3>3, <3>4
  <2>2. IsAlligned(Address'[next])
        BY <1>4, NullAligned
  <2> QED BY <1>3, <1>4, <2>1, <2>2 DEF Compacted, InsideOnePage, EndOf
<1>9. ASSUME NEW j \in 1 .. old, j # at + 1, Size'[FreeBlocks[j]] = 0,
             ~IsAlligned(Address'[FreeBlocks[j]])
      PROVE  /\ \E w \in Elems : Address'[w] = Address'[FreeBlocks[j]] /\ Size'[w] > 0
             /\ \A l \in 1 .. old : l < j /\ l # at + 1 =>
                   Address'[FreeBlocks[l]] + Size'[FreeBlocks[l]] <= Address'[FreeBlocks[j]]
  <2>1. PICK z \in Elems : z = FreeBlocks[j] /\ z # next
        BY <1>3, <1>5, <1>9
  <2>2. PICK c \in Nat : c = Address[z] /\ c = Address'[z] /\ Size[z] = 0 /\ ~IsAlligned(c)
        BY <1>3, <1>4, <1>9, <2>1
  <2>3. /\ \E w \in Elems : Address[w] = c /\ Size[w] > 0
        /\ \A l \in 1 .. old : l < j =>
              Address[FreeBlocks[l]] + Size[FreeBlocks[l]] <= c
        BY <1>5, <2>1, <2>2 DEF Compacted, EmptyInPlace
  <2>4. PICK w \in Elems : Address[w] = c /\ Size[w] > 0
        BY <2>3
  <2>5. \E v \in Elems : Address'[v] = c /\ Size'[v] > 0
    <3>1. CASE w # next
      <4>1. Address'[w] = c /\ Size'[w] > 0
            BY <1>3, <1>4, <2>4, <3>1
      <4> QED BY <4>1
    <3>2. CASE w = next /\ Size[e] = 0
      <4>1. Address'[e] = c /\ Size'[e] > 0
            BY <1>3, <1>4, <2>4, <3>2
      <4> QED BY <1>3, <4>1
    <3>3. CASE w = next /\ Size[e] > 0
      <4>1. CASE j < at
        <5>1. Address[FreeBlocks[j]] <= Address[FreeBlocks[at]]
              BY <1>3, <1>5, <3>3, <4>1 DEF Promises, BothOrdered, Ordered
        <5> QED BY <1>3, <1>4, <2>1, <2>2, <2>4, <3>3, <5>1
      <4>2. CASE j = at
            BY <1>3, <2>1, <2>2, <3>3, <4>2
      <4>3. CASE at + 1 < j
            BY <1>3, <1>4, <2>3, <2>4, <3>3, <4>3
      <4> QED BY <1>3, <1>9, <4>1, <4>2, <4>3
    <3> QED BY <1>3, <1>4, <3>1, <3>2, <3>3
  <2>6. ASSUME NEW l \in 1 .. old, l < j, l # at + 1
        PROVE  Address'[FreeBlocks[l]] + Size'[FreeBlocks[l]] <= c
    <3>1. CASE l # at
      <4>1. FreeBlocks[l] \in Elems \ {e, next}
            BY <1>3, <1>5, <2>6, <3>1
      <4> QED BY <1>4, <2>3, <2>6, <4>1
    <3>2. CASE l = at
      <4>1. at + 1 < j
            BY <1>3, <1>9, <2>6, <3>2
      <4>2. Address[next] + Size[next] <= c
            BY <1>3, <2>3, <4>1
      <4> QED BY <1>3, <1>4, <3>2, <4>2
    <3> QED BY <3>1, <3>2
  <2> QED BY <2>1, <2>2, <2>5, <2>6
<1>10. EmptyInPlace(FreeBlocks, Address, Size)'
  <2>1. ASSUME NEW m \in 1 .. old - 1, Size'[FreeBlocks'[m]] = 0,
               ~IsAlligned(Address'[FreeBlocks'[m]])
        PROVE  /\ \E w \in Elems : Address'[w] = Address'[FreeBlocks'[m]] /\ Size'[w] > 0
               /\ \A k \in 1 .. old - 1 : k < m =>
                     Address'[FreeBlocks'[k]] + Size'[FreeBlocks'[k]] <= Address'[FreeBlocks'[m]]
    <3>1. PICK j \in 1 .. old : j = IF m <= at THEN m ELSE m + 1
          BY <1>2
    <3>2. j # at + 1 /\ FreeBlocks'[m] = FreeBlocks[j]
          BY <1>3, <1>6, <2>1, <3>1
    <3>3. /\ \E w \in Elems : Address'[w] = Address'[FreeBlocks[j]] /\ Size'[w] > 0
          /\ \A l \in 1 .. old : l < j /\ l # at + 1 =>
                Address'[FreeBlocks[l]] + Size'[FreeBlocks[l]] <= Address'[FreeBlocks[j]]
          BY <1>9, <2>1, <3>2
    <3>4. ASSUME NEW k \in 1 .. old - 1, k < m
          PROVE  Address'[FreeBlocks'[k]] + Size'[FreeBlocks'[k]] <= Address'[FreeBlocks[j]]
      <4>1. PICK l \in 1 .. old : l = IF k <= at THEN k ELSE k + 1
            BY <1>2
      <4>2. FreeBlocks'[k] = FreeBlocks[l]
            BY <1>6, <3>4, <4>1
      <4>3. l < j /\ l # at + 1
            BY <1>3, <2>1, <3>1, <3>4, <4>1
      <4> QED BY <3>3, <4>2, <4>3
    <3> QED BY <3>2, <3>3, <3>4
  <2> QED BY <1>6, <2>1 DEF EmptyInPlace
<1>11. Merged'
  <2> SUFFICES ASSUME NEW k \in 1 .. old - 1, k < at, k + 1 \in 1 .. old - 1,
                      Address'[FreeBlocks'[k]] + Size'[FreeBlocks'[k]]
                        = Address'[FreeBlocks'[k + 1]],
                      ~IsAlligned(Address'[FreeBlocks'[k + 1]])
               PROVE  FALSE
      BY <1>6, <1>7 DEF Merged, MergesWithNext, EndOf
  <2>1. /\ FreeBlocks'[k] = FreeBlocks[k] /\ FreeBlocks'[k + 1] = FreeBlocks[k + 1]
        /\ k \in 1 .. old /\ k + 1 \in 1 .. old
        BY <1>3, <1>6
  <2>2. FreeBlocks[k] \in Elems \ {e, next} /\ FreeBlocks[k + 1] \in Elems \ {next}
        BY <1>3, <1>5, <2>1
  <2>3. EndOf(FreeBlocks[k]) = Address[FreeBlocks[k + 1]]
        BY <1>4, <2>1, <2>2 DEF EndOf
  <2>4. ~IsAlligned(Address[FreeBlocks[k + 1]])
        BY <1>4, <2>1, <2>2
  <2>5. ~MergesWithNext(k)
        BY <1>5, <2>1 DEF Compacted, Merged
  <2> QED BY <1>5, <2>1, <2>3, <2>4, <2>5 DEF MergesWithNext
<1>12. Released'
       BY <1>7 DEF Released
<1> QED BY <1>8, <1>10, <1>11, <1>12 DEF Compacted

(* CompactFreeBlocks, when a free block gives up the one page it has: the  *)
(* blocks before it end before that page, those behind it begin behind it. *)
LEMMA ReleaseOneKeepsCompacted ==
    ASSUME HeapStructure, Promises, Compacted, NEW e, Covered(e), Size[e] = PAGE_SIZE,
           FieldsOf(e)' = <<NULL, 0, U_BOOL>>,
           FreeBlocks' = ListRemove(FreeBlocks, at), pc = "release", UNCHANGED loopVars
    PROVE  Compacted'
<1>1. FieldTypes /\ Matched /\ LoopTypes
      BY StructureParts
<1>2. PICK old \in Nat : old = Len(FreeBlocks)
      BY ListedElements
<1>3. at \in 1 .. old /\ e = FreeBlocks[at] /\ e \in Elems /\ IsAlligned(Address[e])
      BY <1>2 DEF Covered
<1>4. /\ \A f \in Elems : Address[f] \in Nat /\ Size[f] \in Nat
      /\ Address'[e] = 0
      /\ \A f \in Elems \ {e} : Address'[f] = Address[f] /\ Size'[f] = Size[f]
      BY <1>1 DEF Covered, FieldsOf, OthersUnchanged, FieldTypes, NULL
<1>5. /\ DOMAIN FreeBlocks = 1 .. old /\ \A k \in 1 .. old : FreeBlocks[k] \in Elems
      /\ \A k, l \in 1 .. old : k # l => FreeBlocks[k] # FreeBlocks[l]
      BY <1>2, ListedElements
<1>6. /\ DOMAIN FreeBlocks' = 1 .. old - 1
      /\ \A k \in 1 .. old - 1 :
            FreeBlocks'[k] = IF k < at THEN FreeBlocks[k] ELSE FreeBlocks[k + 1]
  <2>1. PICK i \in 1 .. old : i = at
        BY <1>3
  <2>2. FreeBlocks' = RemoveAt(FreeBlocks, i) /\ FreeBlocks \in Seq(Elems)
        BY <1>1, <2>1 DEF ListRemove, FieldTypes
  <2>3. /\ RemoveAt(FreeBlocks, i) \in Seq(Elems)
        /\ Len(RemoveAt(FreeBlocks, i)) = old - 1
        /\ \A k \in 1 .. old - 1 :
              RemoveAt(FreeBlocks, i)[k] = IF k < i THEN FreeBlocks[k] ELSE FreeBlocks[k + 1]
        BY <1>2, <2>2, RemoveAtProperties
  <2>4. DOMAIN FreeBlocks' = 1 .. old - 1
        BY <2>2, <2>3
  <2> QED BY <2>1, <2>2, <2>3, <2>4
<1>7. pc' = "release" /\ at' = at
      BY DEF loopVars
<1>8. InsideOnePage'
  <2>1. IsAlligned(Address'[e])
        BY <1>4, NullAligned
  <2> QED BY <1>4, <2>1 DEF Compacted, InsideOnePage, EndOf
<1>9. ASSUME NEW j \in 1 .. old, j # at, Size[FreeBlocks[j]] = 0,
             ~IsAlligned(Address[FreeBlocks[j]])
      PROVE  /\ \E w \in Elems : Address'[w] = Address[FreeBlocks[j]] /\ Size'[w] > 0
             /\ \A l \in 1 .. old : l < j =>
                   Address[FreeBlocks[l]] + Size[FreeBlocks[l]] <= Address[FreeBlocks[j]]
  <2>1. /\ \E w \in Elems : Address[w] = Address[FreeBlocks[j]] /\ Size[w] > 0
        /\ \A l \in 1 .. old : l < j =>
              Address[FreeBlocks[l]] + Size[FreeBlocks[l]] <= Address[FreeBlocks[j]]
        BY <1>5, <1>9 DEF Compacted, EmptyInPlace
  <2>2. PICK w \in Elems : Address[w] = Address[FreeBlocks[j]] /\ Size[w] > 0
        BY <2>1
  <2>3. w # e
        BY <1>3, <1>9, <2>2
  <2> QED BY <1>4, <2>1, <2>2, <2>3
<1>10. ASSUME NEW m \in 1 .. old - 1
       PROVE  \E j \in 1 .. old :
                 /\ j = IF m < at THEN m ELSE m + 1
                 /\ j # at /\ FreeBlocks'[m] = FreeBlocks[j]
                 /\ Address'[FreeBlocks[j]] = Address[FreeBlocks[j]]
                 /\ Size'[FreeBlocks[j]] = Size[FreeBlocks[j]]
  <2>1. PICK j \in 1 .. old : j = IF m < at THEN m ELSE m + 1
        BY <1>2
  <2>2. j # at /\ FreeBlocks'[m] = FreeBlocks[j]
        BY <1>3, <1>6, <2>1
  <2>3. FreeBlocks[j] \in Elems \ {e}
        BY <1>3, <1>5, <2>2
  <2> QED BY <1>4, <2>1, <2>2, <2>3
<1>11. EmptyInPlace(FreeBlocks, Address, Size)'
  <2>1. ASSUME NEW m \in 1 .. old - 1, Size'[FreeBlocks'[m]] = 0,
               ~IsAlligned(Address'[FreeBlocks'[m]])
        PROVE  /\ \E w \in Elems : Address'[w] = Address'[FreeBlocks'[m]] /\ Size'[w] > 0
               /\ \A k \in 1 .. old - 1 : k < m =>
                     Address'[FreeBlocks'[k]] + Size'[FreeBlocks'[k]] <= Address'[FreeBlocks'[m]]
    <3>1. PICK j \in 1 .. old :
             /\ j = IF m < at THEN m ELSE m + 1
             /\ j # at /\ FreeBlocks'[m] = FreeBlocks[j]
             /\ Address'[FreeBlocks[j]] = Address[FreeBlocks[j]]
             /\ Size'[FreeBlocks[j]] = Size[FreeBlocks[j]]
          BY <1>10
    <3>2. /\ \E w \in Elems : Address'[w] = Address[FreeBlocks[j]] /\ Size'[w] > 0
          /\ \A l \in 1 .. old : l < j =>
                Address[FreeBlocks[l]] + Size[FreeBlocks[l]] <= Address[FreeBlocks[j]]
          BY <1>9, <2>1, <3>1
    <3>3. ASSUME NEW k \in 1 .. old - 1, k < m
          PROVE  Address'[FreeBlocks'[k]] + Size'[FreeBlocks'[k]] <= Address[FreeBlocks[j]]
      <4>1. PICK l \in 1 .. old :
               /\ l = IF k < at THEN k ELSE k + 1
               /\ FreeBlocks'[k] = FreeBlocks[l]
               /\ Address'[FreeBlocks[l]] = Address[FreeBlocks[l]]
               /\ Size'[FreeBlocks[l]] = Size[FreeBlocks[l]]
            BY <1>10
      <4>2. l < j
            BY <1>3, <3>1, <3>3, <4>1
      <4> QED BY <3>2, <4>1, <4>2
    <3> QED BY <3>1, <3>2, <3>3
  <2> QED BY <1>6, <2>1 DEF EmptyInPlace
<1>12. Released'
  <2> SUFFICES ASSUME NEW k \in 1 .. old - 1, k < at
               PROVE  ~(/\ IsAlligned(Address'[FreeBlocks'[k]])
                        /\ Size'[FreeBlocks'[k]] >= PAGE_SIZE)
      BY <1>6, <1>7 DEF Released, CoversPage
  <2>1. PICK j \in 1 .. old :
             /\ j = IF k < at THEN k ELSE k + 1
             /\ j # at /\ FreeBlocks'[k] = FreeBlocks[j]
             /\ Address'[FreeBlocks[j]] = Address[FreeBlocks[j]]
             /\ Size'[FreeBlocks[j]] = Size[FreeBlocks[j]]
        BY <1>10
  <2>2. ~CoversPage(FreeBlocks[j])
        BY <1>5, <2>1 DEF Compacted, Released
  <2> QED BY <2>1, <2>2 DEF CoversPage
<1>13. Merged'
  <2> SUFFICES ASSUME NEW k \in 1 .. old - 1, k + 1 \in 1 .. old - 1,
                      Address'[FreeBlocks'[k]] + Size'[FreeBlocks'[k]]
                        = Address'[FreeBlocks'[k + 1]],
                      ~IsAlligned(Address'[FreeBlocks'[k + 1]])
               PROVE  FALSE
      BY <1>6, <1>7 DEF Merged, MergesWithNext, EndOf
  <2>1. PICK j \in 1 .. old :
             /\ j = IF k < at THEN k ELSE k + 1
             /\ j # at /\ FreeBlocks'[k] = FreeBlocks[j]
             /\ Address'[FreeBlocks[j]] = Address[FreeBlocks[j]]
             /\ Size'[FreeBlocks[j]] = Size[FreeBlocks[j]]
        BY <1>10
  <2>2. PICK n \in 1 .. old :
             /\ n = IF k + 1 < at THEN k + 1 ELSE k + 2
             /\ n # at /\ FreeBlocks'[k + 1] = FreeBlocks[n]
             /\ Address'[FreeBlocks[n]] = Address[FreeBlocks[n]]
             /\ Size'[FreeBlocks[n]] = Size[FreeBlocks[n]]
    <3>1. PICK h \in 1 .. old - 1 : h = k + 1 /\ h + 1 = k + 2
          OBVIOUS
    <3> QED BY <1>10, <3>1
  <2>3. EndOf(FreeBlocks[j]) = Address[FreeBlocks[n]] /\ ~IsAlligned(Address[FreeBlocks[n]])
        BY <2>1, <2>2 DEF EndOf
  <2>4. CASE n = j + 1
    <3>1. ~MergesWithNext(j)
          BY <1>5, <1>7 DEF Compacted, Merged
    <3> QED BY <1>5, <2>3, <2>4, <3>1 DEF MergesWithNext
  <2>5. CASE n # j + 1
    <3>1. j < at /\ at < n
          BY <1>3, <2>1, <2>2, <2>5
    <3>2. Size[e] > 0 /\ Size[e] = PAGE_SIZE
          BY Constants
    <3>3. EndOf(FreeBlocks[j]) <= Address[e]
          BY <1>3, <1>5, <3>1, <3>2, EndsBefore
    <3>4. Address[e] + Size[e] <= Address[FreeBlocks[n]]
      <4>1. CASE Size[FreeBlocks[n]] > 0
            BY <1>3, <1>5, <3>1, <4>1, EndsBefore DEF EndOf
      <4>2. CASE Size[FreeBlocks[n]] = 0
            BY <1>3, <1>9, <2>2, <2>3, <3>1, <4>2
      <4> QED BY <1>4, <1>5, <4>1, <4>2
    <3> QED BY <1>3, <1>4, <1>5, <2>3, <3>2, <3>3, <3>4 DEF EndOf
  <2> QED BY <2>4, <2>5
<1> QED BY <1>8, <1>11, <1>12, <1>13 DEF Compacted

(* And when what is left of the block moves up: it is at the first byte of *)
(* a page again, and nothing is merged with it there.                      *)
LEMMA ReleaseFirstKeepsCompacted ==
    ASSUME HeapStructure, Compacted, NEW e, Covered(e), Size[e] > PAGE_SIZE,
           FieldsOf(e)' = <<Address[e] + PAGE_SIZE, Size[e] - PAGE_SIZE, "TRUE">>,
           FreeBlocks' = FreeBlocks, pc = "release", UNCHANGED loopVars
    PROVE  Compacted'
<1>1. FieldTypes /\ LoopTypes
      BY StructureParts
<1>2. /\ at \in 1 .. Len(FreeBlocks) /\ e = FreeBlocks[at] /\ e \in Elems
      /\ IsAlligned(Address[e])
      BY DEF Covered
<1>3. /\ \A f \in Elems : Address[f] \in Nat /\ Size[f] \in Nat
      /\ Address'[e] = Address[e] + PAGE_SIZE /\ Size'[e] = Size[e] - PAGE_SIZE
      /\ \A f \in Elems \ {e} : Address'[f] = Address[f] /\ Size'[f] = Size[f]
      BY <1>1 DEF Covered, FieldsOf, OthersUnchanged, FieldTypes
<1>4. /\ \A k \in DOMAIN FreeBlocks : FreeBlocks[k] \in Elems
      /\ \A k \in DOMAIN FreeBlocks : k # at => FreeBlocks[k] # e
      /\ at \in DOMAIN FreeBlocks
      BY <1>2, ListedElements
<1>5. pc' = "release" /\ at' = at
      BY DEF loopVars
<1>6. IsAlligned(Address'[e])
  <2>1. PICK p \in Int : Address[e] = PageStart(p)
        BY <1>2, <1>3, AlignedAddress
  <2>2. PICK q \in Int : q = p + 1
        OBVIOUS
  <2>3. PageStart(q) = Address[e] + PAGE_SIZE
        BY <2>1, <2>2, PageStarts
  <2> QED BY <1>3, <2>3, PageStartAligned
<1>7. \A k \in DOMAIN FreeBlocks :
         /\ Address'[FreeBlocks[k]] + Size'[FreeBlocks[k]]
              = Address[FreeBlocks[k]] + Size[FreeBlocks[k]]
         /\ k # at => /\ Address'[FreeBlocks[k]] = Address[FreeBlocks[k]]
                      /\ Size'[FreeBlocks[k]] = Size[FreeBlocks[k]]
  <2>1. (Address[e] + PAGE_SIZE) + (Size[e] - PAGE_SIZE) = Address[e] + Size[e]
        BY <1>2, <1>3, Constants
  <2> QED BY <1>2, <1>3, <1>4, <2>1
<1>8. InsideOnePage'
      BY <1>3, <1>6 DEF Compacted, InsideOnePage, EndOf
<1>9. EmptyInPlace(FreeBlocks, Address, Size)'
  <2>1. ASSUME NEW m \in DOMAIN FreeBlocks, Size'[FreeBlocks[m]] = 0,
               ~IsAlligned(Address'[FreeBlocks[m]])
        PROVE  /\ \E w \in Elems : Address'[w] = Address'[FreeBlocks[m]] /\ Size'[w] > 0
               /\ \A k \in DOMAIN FreeBlocks : k < m =>
                     Address'[FreeBlocks[k]] + Size'[FreeBlocks[k]] <= Address'[FreeBlocks[m]]
    <3>1. /\ Address'[FreeBlocks[m]] = Address[FreeBlocks[m]]
          /\ Size'[FreeBlocks[m]] = Size[FreeBlocks[m]]
          BY <1>2, <1>6, <1>7, <2>1
    <3>2. /\ \E w \in Elems : Address[w] = Address[FreeBlocks[m]] /\ Size[w] > 0
          /\ \A k \in DOMAIN FreeBlocks : k < m =>
                Address[FreeBlocks[k]] + Size[FreeBlocks[k]] <= Address[FreeBlocks[m]]
          BY <2>1, <3>1 DEF Compacted, EmptyInPlace
    <3>3. PICK w \in Elems : Address[w] = Address[FreeBlocks[m]] /\ Size[w] > 0
          BY <3>2
    <3>4. w # e
          BY <1>2, <2>1, <3>1, <3>3
    <3>5. Address'[w] = Address[w] /\ Size'[w] = Size[w]
          BY <1>3, <3>4
    <3> QED BY <1>7, <3>1, <3>2, <3>3, <3>5
  <2>2. EmptyInPlace(FreeBlocks, Address', Size')
        BY <2>1 DEF EmptyInPlace
  <2> QED BY <2>2
<1>10. Merged'
  <2> SUFFICES ASSUME NEW k \in DOMAIN FreeBlocks, k + 1 \in DOMAIN FreeBlocks,
                      Address'[FreeBlocks[k]] + Size'[FreeBlocks[k]]
                        = Address'[FreeBlocks[k + 1]],
                      ~IsAlligned(Address'[FreeBlocks[k + 1]])
               PROVE  FALSE
      BY <1>5 DEF Merged, MergesWithNext, EndOf
  <2>1. k + 1 # at
        BY <1>2, <1>6
  <2>2. ~MergesWithNext(k)
        BY <1>5 DEF Compacted, Merged
  <2> QED BY <1>7, <2>1, <2>2 DEF MergesWithNext, EndOf
<1>11. Released'
  <2> SUFFICES ASSUME NEW k \in DOMAIN FreeBlocks, k < at
               PROVE  ~(/\ IsAlligned(Address'[FreeBlocks[k]])
                        /\ Size'[FreeBlocks[k]] >= PAGE_SIZE)
      BY <1>5 DEF Released, CoversPage
  <2>1. ~CoversPage(FreeBlocks[k]) /\ k # at
        BY <1>4, ListedElements DEF Compacted, Released
  <2> QED BY <1>7, <2>1 DEF CoversPage
<1> QED BY <1>8, <1>9, <1>10, <1>11 DEF Compacted

(* Steps that leave the elements and the lists alone keep what is said of  *)
(* them, and the two loops of CompactFreeBlocks move on, or end, only past *)
(* a block that has nothing more to merge or to release.                   *)
LEMMA LoopsKeepCompacted ==
    ASSUME HeapStructure, Compacted, UNCHANGED blockVars,
           \/ UNCHANGED loopVars
           \/ \E address \in Addresses : MemBlockFree(address)
           \/ ScanNextBlock \/ MemBlockFreeReturns \/ MergeNextBlock \/ MergeEnds
           \/ ReleaseNextBlock \/ ReleaseEnds
    PROVE  Compacted'
<1>1. DOMAIN FreeBlocks = 1 .. Len(FreeBlocks) /\ Len(FreeBlocks) \in Nat
      BY ListedElements
<1>2. /\ Address' = Address /\ Size' = Size /\ FreeBlocks' = FreeBlocks
      /\ \A k \in DOMAIN FreeBlocks : MergesWithNext(k)' <=> MergesWithNext(k)
      /\ \A k \in DOMAIN FreeBlocks :
            CoversPage(FreeBlocks[k])' <=> CoversPage(FreeBlocks[k])
      BY DEF blockVars, MergesWithNext, CoversPage, EndOf
<1>3. InsideOnePage' /\ EmptyInPlace(FreeBlocks, Address, Size)'
      BY <1>2 DEF Compacted, InsideOnePage, EmptyInPlace, EndOf
<1>4. at \in Int
      BY StructureParts DEF LoopTypes
<1>5. Merged' /\ Released'
  <2>1. CASE UNCHANGED loopVars
        BY <1>2, <2>1 DEF Compacted, Merged, Released, loopVars
  <2>2. CASE \E address \in Addresses : MemBlockFree(address)
        BY <1>2, <2>2 DEF Compacted, Merged, Released, MemBlockFree
  <2>3. CASE ScanNextBlock \/ MemBlockFreeReturns
        BY <1>2, <2>3 DEF Compacted, Merged, Released, ScanNextBlock, MemBlockFreeReturns
  <2>4. CASE MergeNextBlock
    <3>1. pc = "merge" /\ pc' = pc /\ at' = at + 1 /\ ~MergesWithNext(at)
          BY <2>4 DEF MergeNextBlock
    <3>2. \A k \in DOMAIN FreeBlocks : k < at + 1 => k < at \/ k = at
          BY <1>1, <1>4
    <3> QED BY <1>2, <3>1, <3>2 DEF Compacted, Merged, Released
  <2>5. CASE MergeEnds
    <3>1. pc = "merge" /\ pc' = "release" /\ at = Len(FreeBlocks) + 1 /\ at' = 1
          BY <2>5 DEF MergeEnds
    <3>2. \A k \in DOMAIN FreeBlocks : k < at /\ ~(k < 1)
          BY <1>1, <3>1
    <3> QED BY <1>2, <3>1, <3>2 DEF Compacted, Merged, Released
  <2>6. CASE ReleaseNextBlock
    <3>1. pc = "release" /\ pc' = pc /\ at' = at + 1 /\ ~CoversPage(FreeBlocks[at])
          BY <2>6 DEF ReleaseNextBlock
    <3>2. \A k \in DOMAIN FreeBlocks : k < at + 1 => k < at \/ k = at
          BY <1>1, <1>4
    <3> QED BY <1>2, <3>1, <3>2 DEF Compacted, Merged, Released
  <2>7. CASE ReleaseEnds
    <3>1. pc = "release" /\ pc' = "scan" /\ at = Len(FreeBlocks) + 1
          BY <2>7 DEF ReleaseEnds
    <3>2. \A k \in DOMAIN FreeBlocks : k < at
          BY <1>1, <3>1
    <3> QED BY <1>2, <3>1, <3>2 DEF Compacted, Merged, Released
  <2> QED BY <2>1, <2>2, <2>3, <2>4, <2>5, <2>6, <2>7
<1> QED BY <1>3, <1>5 DEF Compacted

(* MemBlockAlloc, in all its cases.                                        *)
LEMMA AllocKeepsCompacted ==
    ASSUME HeapStructure, Promises, Promises', Compacted,
           NEW size \in 0 .. MaxSize, MemBlockAlloc(size), Intact'
    PROVE  Compacted'
<1>1. /\ size \in Nat /\ pc = "idle" /\ UNCHANGED <<loopVars, consolePages>>
      /\ UNCHANGED loopVars /\ status' = "ok" /\ ~shortage'
      BY DEF MemBlockAlloc, Intact
<1>2. CASE SplitBlock(size)
      BY <1>1, <1>2, SplitFacts, SplitKeepsCompacted
<1>3. CASE ExactBlock(size)
      BY <1>1, <1>3, ExactFacts, ExactKeepsCompacted
<1>4. CASE BlockAndRest(size)
      BY <1>1, <1>4, RestFacts, RestKeepsCompacted
<1>5. CASE PoolExhausted(size)
      BY <1>1, <1>5 DEF PoolExhausted
<1> QED BY <1>2, <1>3, <1>4, <1>5 DEF MemBlockAlloc

(* Every step after which the heap is intact.                              *)
LEMMA StepKeepsCompacted ==
    ASSUME HeapStructure, Promises, Promises', Compacted, [HeapNext]_heapVars, Intact'
    PROVE  Compacted'
<1>1. ASSUME NEW size \in 0 .. MaxSize, MemBlockAlloc(size) PROVE Compacted'
      BY <1>1, AllocKeepsCompacted
<1>2. ASSUME NEW n \in 0 .. MaxRequest, ConsolePageAlloc(n) PROVE Compacted'
  <2>1. UNCHANGED blockVars /\ UNCHANGED loopVars
        BY <1>2 DEF ConsolePageAlloc
  <2> QED BY <2>1, LoopsKeepCompacted
<1>3. ASSUME NEW page \in Frames, ConsolePageFree(page) PROVE Compacted'
  <2>1. UNCHANGED blockVars /\ UNCHANGED loopVars
        BY <1>3 DEF ConsolePageFree
  <2> QED BY <2>1, LoopsKeepCompacted
<1>4. CASE \/ \E address \in Addresses : MemBlockFree(address)
           \/ ScanNextBlock \/ MemBlockFreeReturns \/ MergeNextBlock \/ MergeEnds
           \/ ReleaseNextBlock \/ ReleaseEnds
  <2>1. UNCHANGED blockVars
        BY <1>4, MovesOfMemBlockFree
  <2> QED BY <1>4, <2>1, LoopsKeepCompacted
<1>5. CASE FreeFoundBlock
      BY <1>5, FreeFoundKeepsCompacted
<1>6. CASE MergeBlocks
  <2>1. pc = "merge" /\ MergesWithNext(at)
        BY <1>6 DEF MergeBlocks
  <2> QED BY <1>6, <2>1, MergeFacts, MergeKeepsCompacted
<1>7. CASE ReleaseOnePageBlock
  <2>1. pc = "release" /\ UNCHANGED loopVars
        BY <1>7 DEF ReleaseOnePageBlock
  <2> QED BY <1>7, <2>1, ReleaseOneFacts, ReleaseOneKeepsCompacted
<1>8. CASE ReleaseFirstPage
  <2>1. pc = "release" /\ UNCHANGED loopVars /\ FreeBlocks' = FreeBlocks
        BY <1>8 DEF ReleaseFirstPage
  <2> QED BY <1>8, <2>1, ReleaseFirstFacts, ReleaseFirstKeepsCompacted
<1>9. CASE UNCHANGED heapVars
  <2>1. UNCHANGED blockVars /\ UNCHANGED loopVars
        BY <1>9 DEF heapVars
  <2> QED BY <2>1, LoopsKeepCompacted
<1> QED BY <1>1, <1>2, <1>3, <1>4, <1>5, <1>6, <1>7, <1>8, <1>9 DEF HeapNext, FreeStep

(* The state that InitMemory leaves.                                       *)
LEMMA InitIsCompacted == HeapInit => Compacted
<1> SUFFICES ASSUME HeapInit PROVE Compacted
    OBVIOUS
<1>1. /\ \A e \in Elems : Address[e] = 0
      /\ DOMAIN FreeBlocks = {}
      BY DEF HeapInit, NULL
<1> QED BY <1>1, NullAligned DEF Compacted, InsideOnePage, EmptyInPlace, Merged, Released

(* A byte of a page of the heap that no occupied block has is a byte of a  *)
(* free block.                                                             *)
LEMMA IdleByteIsFree ==
    ASSUME HeapStructure, Promises, NEW p \in HeapPages, NEW x \in PageBytes(p),
           \A e \in Occupied : Bytes(e) \cap PageBytes(p) = {}
    PROVE  \E k \in DOMAIN FreeBlocks :
              AddressInsideBlock(x, FreeBlocks[k]) /\ Size[FreeBlocks[k]] > 0
<1>1. p \in Int /\ x \in Int
  <2>1. p \in Int
        BY DEF HeapPages, Frames
  <2>2. PICK b \in Int : PageBytes(p) = b .. b + PAGE_SIZE - 1
        BY <2>1, PageStarts
  <2> QED BY <2>1, <2>2, Constants
<1>2. PageOf(x) = p
      BY <1>1, PageOfAddress
<1>3. PICK e \in Elems : AddressInsideBlock(x, e)
      BY <1>1, <1>2 DEF Promises, HeldAreHeapPages, Held
<1>4. /\ Address[e] \in Nat /\ Size[e] \in Nat /\ EndOf(e) = Address[e] + Size[e]
      BY FieldRange
<1>5. Address[e] <= x /\ x < EndOf(e) /\ Size[e] > 0
      BY <1>1, <1>3, <1>4 DEF AddressInsideBlock
<1>6. x \in Bytes(e)
      BY <1>1, <1>4, <1>5 DEF Bytes
<1>7. IsFree[e] # "FALSE"
      BY <1>6 DEF Occupied
<1>8. FieldTypes /\ Matched
      BY StructureParts
<1>9. IsFree[e] # U_BOOL
      BY <1>5, <1>8 DEF Matched
<1>10. IsFree[e] = "TRUE"
      BY <1>7, <1>8, <1>9 DEF FieldTypes
<1>11. PICK k \in DOMAIN FreeBlocks : FreeBlocks[k] = e
      BY <1>8, <1>10 DEF Matched, Listed
<1> QED BY <1>3, <1>5, <1>11

(* Between calls, the free block at the first byte of a page begins there  *)
(* and ends inside the page.                                               *)
LEMMA FreeBlockAtPageStart ==
    ASSUME HeapStructure, Compacted, pc = "idle", NEW p \in Int,
           NEW k \in DOMAIN FreeBlocks,
           AddressInsideBlock(PageStart(p), FreeBlocks[k])
    PROVE  Address[FreeBlocks[k]] = PageStart(p) /\ Size[FreeBlocks[k]] < PAGE_SIZE
<1>1. PICK e : e = FreeBlocks[k]
      OBVIOUS
<1>2. /\ e \in Elems /\ Address[e] \in Nat /\ Size[e] \in Nat
      /\ EndOf(e) = Address[e] + Size[e]
      BY <1>1, ListedElements, FieldRange
<1>3. PICK b \in Int : b = PageStart(p)
      BY PageStarts
<1>4. Address[e] <= b /\ b < EndOf(e)
      BY <1>1, <1>3 DEF AddressInsideBlock
<1>5. IsAlligned(Address[e]) => Size[e] < PAGE_SIZE
  <2>1. ~CoversPage(e)
        BY <1>1 DEF Compacted, Released
  <2> QED BY <1>2, <2>1, Constants DEF CoversPage
<1>6. Address[e] = b
  <2>1. CASE IsAlligned(Address[e])
    <3>1. PICK q \in Int : Address[e] = PageStart(q)
          BY <1>2, <2>1, AlignedAddress
    <3>2. ASSUME PageStart(q) < PageStart(p) PROVE FALSE
      <4>1. PageStart(q) + PAGE_SIZE <= PageStart(p)
            BY <3>2, PageStartsApart
      <4>2. Address[e] + PAGE_SIZE <= b
            BY <1>3, <3>1, <4>1
      <4> QED BY <1>2, <1>4, <1>5, <2>1, <4>2, Constants
    <3>3. ~(Address[e] < b)
          BY <1>3, <3>1, <3>2
    <3> QED BY <1>2, <1>4, <3>3
  <2>2. CASE ~IsAlligned(Address[e])
    <3>1. PageStart(p) <= Address[e] \/ EndOf(e) <= PageStart(p)
          BY <1>2, <2>2 DEF Compacted, InsideOnePage
    <3>2. b <= Address[e] \/ EndOf(e) <= b
          BY <1>3, <3>1
    <3> QED BY <1>2, <1>4, <3>2
  <2> QED BY <2>1, <2>2
<1>7. IsAlligned(Address[e])
      BY <1>3, <1>6, PageStartAligned
<1> QED BY <1>1, <1>3, <1>5, <1>6, <1>7

(* An address behind the first byte of a page, and on that page, is not    *)
(* aligned.                                                                *)
LEMMA InsidePageNotAligned ==
    ASSUME NEW p \in Int, NEW x \in Nat, PageStart(p) < x, x < PageStart(p) + PAGE_SIZE
    PROVE  ~IsAlligned(x) /\ x \in PageBytes(p)
<1>1. PICK b \in Int : b = PageStart(p) /\ PageBytes(p) = b .. b + PAGE_SIZE - 1
      BY PageStarts
<1>2. ASSUME IsAlligned(x) PROVE FALSE
  <2>1. PICK q \in Int : x = PageStart(q)
        BY <1>2, AlignedAddress
  <2>2. PageStart(p) + PAGE_SIZE <= PageStart(q)
        BY <2>1, PageStartsApart
  <2> QED BY <1>1, <2>1, <2>2, Constants
<1> QED BY <1>1, <1>2, Constants

(* The free block at the first byte of an idle page has not been merged    *)
(* with the one behind it: an empty block stands between them in the list. *)
LEMMA IdlePageIsKeptApart ==
    ASSUME HeapStructure, Promises, Compacted, pc = "idle", NEW p \in HeapPages,
           \A e \in Occupied : Bytes(e) \cap PageBytes(p) = {}
    PROVE  KeptApart(PageStart(p))
<1>1. p \in Int
      BY DEF HeapPages, Frames
<1>2. PICK b \in Int : b = PageStart(p) /\ PageBytes(p) = b .. b + PAGE_SIZE - 1
      BY <1>1, PageStarts
<1>3. PICK k \in DOMAIN FreeBlocks :
         AddressInsideBlock(b, FreeBlocks[k]) /\ Size[FreeBlocks[k]] > 0
  <2>1. b \in PageBytes(p)
        BY <1>2, Constants
  <2> QED BY <2>1, IdleByteIsFree
<1>4. PICK e \in Elems : e = FreeBlocks[k] /\ Address[e] = b /\ Size[e] < PAGE_SIZE
      BY <1>1, <1>2, <1>3, FreeBlockAtPageStart, ListedElements
<1>5. /\ Address[e] \in Nat /\ Size[e] \in Nat /\ Size[e] > 0
      /\ EndOf(e) = Address[e] + Size[e]
      BY <1>3, <1>4, FieldRange
<1>6. PICK y \in Nat : y = EndOf(e)
      BY <1>5
<1>7. b < y /\ y < b + PAGE_SIZE
      BY <1>2, <1>4, <1>5, <1>6, Constants
<1>8. ~IsAlligned(y) /\ y \in PageBytes(p)
      BY <1>1, <1>2, <1>7, InsidePageNotAligned
<1>9. PICK l \in DOMAIN FreeBlocks :
         AddressInsideBlock(y, FreeBlocks[l]) /\ Size[FreeBlocks[l]] > 0
      BY <1>8, IdleByteIsFree
<1>10. PICK f \in Elems : f = FreeBlocks[l]
      BY ListedElements
<1>11. /\ Address[f] \in Nat /\ Size[f] \in Nat /\ Size[f] > 0
       /\ EndOf(f) = Address[f] + Size[f]
       /\ Address[f] <= y /\ y < EndOf(f)
      BY <1>9, <1>10, FieldRange DEF AddressInsideBlock
<1>12. Address[f] = y
  <2>1. e # f
        BY <1>5, <1>6, <1>11
  <2>2. Apart(e, f)
        BY <2>1 DEF Promises, AllApart
  <2>3. y <= Address[f] \/ EndOf(f) <= b
        BY <1>4, <1>5, <1>6, <1>11, <2>2 DEF Apart
  <2> QED BY <1>2, <1>6, <1>7, <1>11, <2>3
<1>13. /\ k \in 1 .. Len(FreeBlocks) /\ l \in 1 .. Len(FreeBlocks)
       /\ DOMAIN FreeBlocks = 1 .. Len(FreeBlocks) /\ Len(FreeBlocks) \in Nat
      BY ListedElements
<1>14. k < l
  <2>1. k # l
        BY <1>2, <1>4, <1>7, <1>10, <1>12
  <2>2. ASSUME l < k PROVE FALSE
    <3>1. Address[FreeBlocks[l]] <= Address[FreeBlocks[k]]
          BY <1>3, <2>2 DEF Promises, BothOrdered, Ordered
    <3>2. y <= b
          BY <1>4, <1>10, <1>12, <3>1
    <3> QED BY <1>2, <1>7, <3>2
  <2> QED BY <1>13, <2>1, <2>2
<1>15. PICK n \in DOMAIN FreeBlocks : n = k + 1
      BY <1>13, <1>14
<1>16. PICK g \in Elems : g = FreeBlocks[n]
      BY ListedElements
<1>17. /\ Address[g] \in Nat /\ Size[g] \in Nat
      BY FieldRange
<1>18. Address[g] <= y
  <2>1. CASE n = l
        BY <1>10, <1>12, <1>16, <2>1
  <2>2. CASE n < l
    <3>1. Address[FreeBlocks[n]] <= Address[FreeBlocks[l]]
          BY <1>9, <2>2 DEF Promises, BothOrdered, Ordered
    <3> QED BY <1>10, <1>12, <1>16, <3>1
  <2> QED BY <1>13, <1>14, <1>15, <2>1, <2>2
<1>19. Address[g] # y
  <2>1. ASSUME Address[g] = y PROVE FALSE
    <3>1. EndOf(FreeBlocks[k]) = Address[FreeBlocks[k + 1]]
          BY <1>4, <1>6, <1>15, <1>16, <2>1
    <3>2. ~IsAlligned(Address[FreeBlocks[k + 1]])
          BY <1>8, <1>15, <1>16, <2>1
    <3>3. MergesWithNext(k)
          BY <1>15, <3>1, <3>2 DEF MergesWithNext
    <3> QED BY <3>3 DEF Compacted, Merged
  <2> QED BY <2>1
<1>20. Size[g] = 0
  <2>1. ASSUME Size[g] > 0 PROVE FALSE
    <3>1. k < n
          BY <1>13, <1>15
    <3>2. EndOf(FreeBlocks[k]) <= Address[FreeBlocks[n]]
          BY <1>16, <2>1, <3>1, EndsBefore
    <3>3. y <= Address[g]
          BY <1>4, <1>6, <1>16, <3>2
    <3> QED BY <1>6, <1>17, <1>18, <1>19, <3>3
  <2> QED BY <1>17, <2>1
<1>21. IsAlligned(Address[g])
  <2>1. ASSUME ~IsAlligned(Address[g]) PROVE FALSE
    <3>1. k < n
          BY <1>13, <1>15
    <3>2. Address[FreeBlocks[k]] + Size[FreeBlocks[k]] <= Address[FreeBlocks[n]]
          BY <1>16, <1>20, <2>1, <3>1 DEF Compacted, EmptyInPlace
    <3>3. y <= Address[g]
          BY <1>4, <1>5, <1>6, <1>16, <3>2
    <3> QED BY <1>6, <1>17, <1>18, <1>19, <3>3
  <2> QED BY <2>1
<1>22. Address[g] <= b
  <2>1. PICK q \in Int : Address[g] = PageStart(q)
        BY <1>17, <1>21, AlignedAddress
  <2>2. ASSUME PageStart(p) < PageStart(q) PROVE FALSE
    <3>1. PageStart(p) + PAGE_SIZE <= PageStart(q)
          BY <1>1, <2>2, PageStartsApart
    <3>2. b + PAGE_SIZE <= Address[g]
          BY <1>2, <2>1, <3>1
    <3> QED BY <1>2, <1>6, <1>7, <1>17, <1>18, <3>2, Constants
  <2>3. ~(b < Address[g])
        BY <1>2, <2>1, <2>2
  <2> QED BY <1>2, <1>17, <2>3
<1> QED BY <1>2, <1>3, <1>4, <1>15, <1>16, <1>20, <1>21, <1>22 DEF KeptApart

(* The invariant, with what the loops of CompactFreeBlocks establish.      *)
CompactedInvariant == HeapInvariant /\ (Intact => Compacted)

LEMMA CompactedInvariantHolds == HeapSpec => []CompactedInvariant
<1>1. HeapInit => (Intact => Compacted)
      BY InitIsCompacted
<1>2. HeapInvariant /\ HeapInvariant' /\ (Intact => Compacted) /\ [HeapNext]_heapVars
        => (Intact => Compacted)'
  <2> SUFFICES ASSUME HeapInvariant, HeapInvariant', Intact => Compacted,
                      [HeapNext]_heapVars, Intact'
               PROVE  Compacted'
      OBVIOUS
  <2>1. HeapStructure /\ Intact
        BY IntactBefore DEF HeapInvariant
  <2>2. Promises /\ Promises' /\ Compacted
        BY <2>1 DEF HeapInvariant
  <2> QED BY <2>1, <2>2, StepKeepsCompacted
<1> QED BY <1>1, <1>2, HeapInvariantHolds, PTL DEF HeapSpec, CompactedInvariant

(* Between calls a page of the heap holds an occupied byte, unless an      *)
(* empty free block at the first byte of the page, or of one below it,     *)
(* keeps its free blocks apart: whatever the blocks were and in whatever   *)
(* order they were freed, MemBlockFree has given the others back.          *)
THEOREM HeapKeepsNoIdlePage == HeapSpec => []NoIdlePage
<1>1. CompactedInvariant => NoIdlePage
  <2> SUFFICES ASSUME HeapStructure, Promises, Compacted, pc = "idle",
                      NEW p \in HeapPages,
                      \A e \in Occupied : Bytes(e) \cap PageBytes(p) = {}
               PROVE  KeptApart(MEMORY_MAP_ADDRESS + p * PAGE_SIZE)
      BY DEF CompactedInvariant, HeapInvariant, NoIdlePage
  <2>1. p \in Int
        BY DEF HeapPages, Frames
  <2>2. PageStart(p) = MEMORY_MAP_ADDRESS + p * PAGE_SIZE
        BY <2>1, PageStarts
  <2>3. KeptApart(PageStart(p))
        BY IdlePageIsKeptApart
  <2> QED BY <2>2, <2>3
<1> QED BY <1>1, CompactedInvariantHolds, PTL

-----------------------------------------------------------------------------
(* The scan of MemBlockFree has left no block behind that it should have   *)
(* freed.                                                                  *)
ScannedAreKept ==
    /\ pc = "idle" => scanAt = 1
    /\ \A k \in DOMAIN OccupiedBlocks :
          k < scanAt => ~AddressInsideBlock(target, OccupiedBlocks[k])

OccupiedUnchanged ==
    \A f \in Elems :
        /\ IsFree'[f] = "FALSE" <=> IsFree[f] = "FALSE"
        /\ IsFree[f] = "FALSE" => Address'[f] = Address[f] /\ Size'[f] = Size[f]

(* The steps that leave the occupied blocks alone.                         *)
LEMMA QuietSteps ==
    ASSUME HeapStructure,
           \/ \E address \in Addresses : MemBlockFree(address)
           \/ ScanNextBlock \/ MemBlockFreeReturns \/ MergeNextBlock \/ MergeEnds
           \/ ReleaseNextBlock \/ ReleaseEnds
           \/ MergeBlocks \/ ReleaseOnePageBlock \/ ReleaseFirstPage
           \/ \E n \in 0 .. MaxRequest : ConsolePageAlloc(n)
           \/ \E page \in Frames : ConsolePageFree(page)
           \/ UNCHANGED heapVars
    PROVE  OccupiedUnchanged /\ OccupiedBlocks' = OccupiedBlocks
<1>1. CASE UNCHANGED blockVars
      BY <1>1 DEF blockVars, OccupiedUnchanged
<1>2. CASE \/ \E address \in Addresses : MemBlockFree(address)
           \/ ScanNextBlock \/ MemBlockFreeReturns \/ MergeNextBlock \/ MergeEnds
           \/ ReleaseNextBlock \/ ReleaseEnds
      BY <1>1, <1>2, MovesOfMemBlockFree
<1>3. CASE \/ \E n \in 0 .. MaxRequest : ConsolePageAlloc(n)
           \/ \E page \in Frames : ConsolePageFree(page)
           \/ UNCHANGED heapVars
      BY <1>1, <1>3 DEF ConsolePageAlloc, ConsolePageFree, heapVars
<1>4. ASSUME NEW es \in SUBSET Elems, OthersUnchanged(es),
             \A f \in es : IsFree[f] # "FALSE" /\ IsFree'[f] # "FALSE"
      PROVE  OccupiedUnchanged
      BY <1>4 DEF OccupiedUnchanged, OthersUnchanged, FieldsOf
<1>5. CASE MergeBlocks
  <2>1. PICK e, next : Merges(e, next)
        BY <1>5, MergeFacts
  <2>2. /\ {e, next} \in SUBSET Elems /\ OthersUnchanged({e, next})
        /\ \A f \in {e, next} : IsFree[f] # "FALSE" /\ IsFree'[f] # "FALSE"
        /\ OccupiedBlocks' = OccupiedBlocks
        BY <2>1, Flags DEF Merges, FieldsOf
  <2> QED BY <1>4, <2>2
<1>6. CASE ReleaseOnePageBlock
  <2>1. PICK e : Covered(e) /\ FieldsOf(e)' = <<NULL, 0, U_BOOL>>
        BY <1>6, ReleaseOneFacts
  <2>2. /\ {e} \in SUBSET Elems /\ OthersUnchanged({e})
        /\ \A f \in {e} : IsFree[f] # "FALSE" /\ IsFree'[f] # "FALSE"
        /\ OccupiedBlocks' = OccupiedBlocks
        BY <2>1, Flags DEF Covered, FieldsOf
  <2> QED BY <1>4, <2>2
<1>7. CASE ReleaseFirstPage
  <2>1. PICK e : Covered(e) /\ FieldsOf(e)' =
                     <<Address[e] + PAGE_SIZE, Size[e] - PAGE_SIZE, "TRUE">>
        BY <1>7, ReleaseFirstFacts
  <2>2. /\ {e} \in SUBSET Elems /\ OthersUnchanged({e})
        /\ \A f \in {e} : IsFree[f] # "FALSE" /\ IsFree'[f] # "FALSE"
        /\ OccupiedBlocks' = OccupiedBlocks
        BY <2>1, Flags DEF Covered, FieldsOf
  <2> QED BY <1>4, <2>2
<1> QED BY <1>2, <1>3, <1>5, <1>6, <1>7

(* Every step keeps what the scan has left behind.                         *)
LEMMA StepKeepsScan ==
    ASSUME HeapStructure, ScannedAreKept, [HeapNext]_heapVars
    PROVE  ScannedAreKept'
<1>0. /\ OccupiedBlocks \in Seq(Elems) /\ Len(OccupiedBlocks) \in Nat
      /\ DOMAIN OccupiedBlocks = 1 .. Len(OccupiedBlocks)
      /\ scanAt \in 1 .. Len(OccupiedBlocks) + 1
      BY StructureParts DEF FieldTypes, LoopTypes
(* Nothing has been scanned.                                               *)
<1>1. ASSUME scanAt' = 1, DOMAIN OccupiedBlocks' \subseteq Nat \ {0} PROVE ScannedAreKept'
      BY <1>1 DEF ScannedAreKept
<1>2. DOMAIN OccupiedBlocks' \subseteq Nat \ {0}
  <2>1. HeapStructure'
        BY StepKeepsStructure
  <2>2. OccupiedBlocks' \in Seq(Elems)
        BY <2>1 DEF HeapStructure, HeapTypeOK
  <2> QED BY <2>2
<1>3. CASE \/ \E size \in 0 .. MaxSize : MemBlockAlloc(size)
           \/ \E address \in Addresses : MemBlockFree(address)
           \/ MemBlockFreeReturns
           \/ \E n \in 0 .. MaxRequest : ConsolePageAlloc(n)
           \/ \E page \in Frames : ConsolePageFree(page)
      BY <1>1, <1>2, <1>3 DEF MemBlockAlloc, MemBlockFree, MemBlockFreeReturns,
         ConsolePageAlloc, ConsolePageFree, loopVars, ScannedAreKept
<1>4. ASSUME OccupiedUnchanged, OccupiedBlocks' = OccupiedBlocks, target' = target,
             scanAt' = scanAt, pc' = "idle" => pc = "idle"
      PROVE  ScannedAreKept'
      BY <1>4, ListedElements
         DEF ScannedAreKept, OccupiedUnchanged, AddressInsideBlock, EndOf
<1>5. CASE \/ MergeNextBlock \/ MergeEnds \/ ReleaseNextBlock \/ ReleaseEnds
           \/ MergeBlocks \/ ReleaseOnePageBlock \/ ReleaseFirstPage
           \/ UNCHANGED heapVars
  <2>1. target' = target /\ scanAt' = scanAt /\ (pc' = "idle" => pc = "idle")
        BY <1>5 DEF MergeNextBlock, MergeEnds, ReleaseNextBlock, ReleaseEnds,
           MergeBlocks, ReleaseOnePageBlock, ReleaseFirstPage, heapVars, loopVars
  <2> QED BY <1>4, <1>5, <2>1, QuietSteps
<1>6. CASE ScanNextBlock
  <2>1. /\ scanAt' = scanAt + 1 /\ target' = target /\ pc' = "scan"
        /\ OccupiedBlocks' = OccupiedBlocks /\ Address' = Address /\ Size' = Size
        /\ ~AddressInsideBlock(target, OccupiedBlocks[scanAt])
        BY <1>6 DEF ScanNextBlock, blockVars
  <2>2. \A k \in DOMAIN OccupiedBlocks : k < scanAt + 1 => k < scanAt \/ k = scanAt
        BY <1>0
  <2> QED BY <2>1, <2>2 DEF ScannedAreKept, AddressInsideBlock, EndOf
<1>7. CASE FreeFoundBlock
  <2>1. /\ scanAt' = scanAt /\ target' = target /\ pc' = "merge"
        /\ Address' = Address /\ Size' = Size
        /\ scanAt \in 1 .. Len(OccupiedBlocks)
        /\ OccupiedBlocks' = ListRemove(OccupiedBlocks, scanAt)
        BY <1>0, <1>7 DEF FreeFoundBlock, BeginCompaction
  <2>2. /\ DOMAIN OccupiedBlocks' = 1 .. Len(OccupiedBlocks) - 1
        /\ \A k \in DOMAIN OccupiedBlocks' :
              k < scanAt => OccupiedBlocks'[k] = OccupiedBlocks[k]
    <3>1. /\ OccupiedBlocks' \in Seq(Elems)
          /\ Len(OccupiedBlocks') = Len(OccupiedBlocks) - 1
          /\ \A k \in 1 .. Len(OccupiedBlocks) - 1 : OccupiedBlocks'[k] =
                IF k < scanAt THEN OccupiedBlocks[k] ELSE OccupiedBlocks[k + 1]
          BY <1>0, <2>1, RemoveAtProperties DEF ListRemove
    <3> QED BY <3>1
  <2> QED BY <1>0, <2>1, <2>2 DEF ScannedAreKept, AddressInsideBlock, EndOf
<1> QED BY <1>3, <1>5, <1>6, <1>7 DEF HeapNext, FreeStep

-----------------------------------------------------------------------------
BlocksInUse ==
    {<<Address[e], Size[e]>> : e \in {f \in Occupied : Size[f] > 0}}

Freeing == IF pc # "idle" THEN target ELSE -1

(* The members of BlocksInUse.                                             *)
LEMMA InUse ==
    \A b : b \in BlocksInUse <=>
             \E e \in Elems : /\ IsFree[e] = "FALSE" /\ Size[e] > 0
                              /\ b = <<Address[e], Size[e]>>
BY DEF BlocksInUse, Occupied

(* Seen from AbstractHeap: a heap that is not intact has broken.           *)
LEMMA Breaks ==
    ASSUME ~Intact' PROVE Abstract!Break
BY DEF Abstract!Break, Abstract!None

(* They stay when the occupied blocks do.                                  *)
LEMMA QuietInUse ==
    ASSUME OccupiedUnchanged
    PROVE  BlocksInUse' = BlocksInUse
<1>1. {f \in Occupied : Size[f] > 0}' = {f \in Occupied : Size[f] > 0}
      BY DEF OccupiedUnchanged, Occupied
<1>2. \A e \in {f \in Occupied : Size[f] > 0} :
         <<Address[e], Size[e]>>' = <<Address[e], Size[e]>>
      BY DEF OccupiedUnchanged, Occupied
<1> QED BY <1>1, <1>2 DEF BlocksInUse

(* A step of the heap that its caller does not see.                        *)
LEMMA Stutters ==
    ASSUME Intact, Intact', BlocksInUse' = BlocksInUse, Freeing' = Freeing
    PROVE  UNCHANGED Abstract!vars
BY DEF Abstract!vars, BlocksInUse, Freeing

(* A new block of at least one byte is what AbstractHeap promises.         *)
LEMMA Allocates ==
    ASSUME HeapInvariant', Intact, Intact', pc = "idle", pc' = "idle",
           NEW new \in Elems, NEW size \in 0 .. MaxSize,
           IsFree[new] = U_BOOL, IsFree'[new] = "FALSE", Size'[new] = size,
           \A f \in Elems \ {new} :
              /\ IsFree'[f] = "FALSE" <=> IsFree[f] = "FALSE"
              /\ IsFree[f] = "FALSE" => Address'[f] = Address[f] /\ Size'[f] = Size[f]
    PROVE  [Abstract!Next]_(Abstract!vars)
<1> DEFINE a == Address'[new]
           block == <<a, size>>
<1>1. HeapStructure' /\ Promises'
      BY DEF HeapInvariant
<1>2. \A e \in Elems : Address'[e] \in Nat /\ Size'[e] \in Nat
      BY <1>1 DEF HeapStructure, HeapTypeOK
<1>3. CASE size = 0
  <2>1. BlocksInUse' = BlocksInUse
    <3>1. {f \in Occupied : Size[f] > 0}' = {f \in Occupied : Size[f] > 0}
          BY <1>3, Flags DEF Occupied
    <3>2. \A e \in {f \in Occupied : Size[f] > 0} :
             <<Address[e], Size[e]>>' = <<Address[e], Size[e]>>
          BY Flags DEF Occupied
    <3> QED BY <3>1, <3>2 DEF BlocksInUse
  <2>2. Freeing' = Freeing
        BY DEF Freeing
  <2> QED BY <2>1, <2>2, Stutters
<1>4. CASE size > 0
  <2>1. BlocksInUse' = BlocksInUse \cup {block}
    <3>1. \A b : b \in BlocksInUse' <=> b \in BlocksInUse \/ b = block
      <4>1. \A b : b \in BlocksInUse' <=>
               \E e \in Elems : /\ IsFree'[e] = "FALSE" /\ Size'[e] > 0
                                /\ b = <<Address'[e], Size'[e]>>
            BY DEF BlocksInUse, Occupied
      <4> QED BY <1>4, <4>1, InUse, Flags
    <3> QED BY <3>1
  <2>2. ASSUME NEW x \in a .. a + size - 1
        PROVE  x \in MEMORY_MAP_ADDRESS .. MEMORY_MAP_ADDRESS + Pages * PAGE_SIZE - 1
    <3>1. x \in Int /\ a <= x /\ x < a + size
          BY <1>2
    <3>2. Held(x)'
          BY <3>1 DEF Held, AddressInsideBlock, EndOf
    <3>3. PageOf(x)' = PageOf(x)
          BY DEF PageOf
    <3>4. PageOf(x) \in Frames
          BY <1>1, <3>1, <3>2, <3>3 DEF Promises, HeldAreHeapPages, HeapPages
    <3>5. PageOf(x) \in 0 .. 0 + Pages - 1
          BY <3>4, Constants DEF Frames
    <3>6. x \in PageStart(0) .. PageStart(0 + Pages) - 1
          BY <3>1, <3>5, Constants, RunOfPages
    <3>7. PageStart(0) = MEMORY_MAP_ADDRESS
          BY Constants DEF PageStart
    <3>8. PageStart(0 + Pages) = MEMORY_MAP_ADDRESS + Pages * PAGE_SIZE
      <4>1. 0 + Pages = Pages /\ Pages \in Int
            BY Constants
      <4>2. PageStart(Pages) = MEMORY_MAP_ADDRESS + Pages * PAGE_SIZE
            BY <4>1, PageStarts
      <4>3. PageStart(0 + Pages) = PageStart(Pages)
            BY <4>1
      <4> QED BY <4>2, <4>3
    <3>9. MEMORY_MAP_ADDRESS \in Int /\ Pages * PAGE_SIZE \in Int
          BY Constants
    <3> QED BY <3>6, <3>7, <3>8, <3>9
  <2>3. ASSUME NEW b \in BlocksInUse
        PROVE  (a .. a + size - 1) \cap (b[1] .. b[1] + b[2] - 1) = {}
    <3>1. PICK e \in Elems : /\ IsFree[e] = "FALSE" /\ Size[e] > 0
                             /\ b = <<Address[e], Size[e]>>
          BY InUse
    <3>2. e # new /\ Address'[e] = Address[e] /\ Size'[e] = Size[e]
          BY <3>1, Flags
    <3>3. b[1] = Address'[e] /\ b[2] = Size'[e]
          BY <3>1, <3>2
    <3>4. Apart(new, e)'
          BY <1>1, <3>2 DEF Promises, AllApart
    <3> QED BY <1>2, <1>4, <3>1, <3>2, <3>3, <3>4 DEF Apart, EndOf
  <2>4. a \in MEMORY_MAP_ADDRESS .. MEMORY_MAP_ADDRESS + Pages * PAGE_SIZE - 1
    <3>1. a \in a .. a + size - 1
          BY <1>2, <1>4
    <3> QED BY <2>2, <3>1
  <2>5. Abstract!Alloc(size)
    <3>1. ~~Intact /\ (IF Intact /\ pc # "idle" THEN target ELSE -1) = -1
          BY DEF Intact
    <3>2. Abstract!BytesOf(block) = a .. a + size - 1
          BY DEF Abstract!BytesOf
    <3> HIDE DEF a
    <3> QED BY <2>1, <2>2, <2>3, <2>4, <3>1, <3>2
            DEF Abstract!Alloc, Abstract!BytesOf, Abstract!None, BlocksInUse
  <2>6. size \in 1 .. MaxSize
        BY <1>4
  <2> QED BY <2>5, <2>6 DEF Abstract!Next
<1> QED BY <1>3, <1>4

(* A request is an allocation of AbstractHeap, or changes nothing when it  *)
(* asks for no byte.                                                       *)
LEMMA AllocImplements ==
    ASSUME HeapInvariant, HeapInvariant', Intact, Intact',
           NEW size \in 0 .. MaxSize, MemBlockAlloc(size)
    PROVE  [Abstract!Next]_(Abstract!vars)
<1>1. size \in Nat /\ pc = "idle" /\ pc' = "idle" /\ HeapStructure
      BY DEF MemBlockAlloc, loopVars, HeapInvariant
<1>2. CASE SplitBlock(size)
  <2>1. PICK e, new : Splits(e, new, size)
        BY <1>1, <1>2, SplitFacts
  <2>2. /\ new \in Elems /\ IsFree[new] = U_BOOL
        /\ IsFree'[new] = "FALSE" /\ Size'[new] = size
        BY <2>1 DEF Splits, FieldsOf
  <2>3. \A f \in Elems \ {new} :
           /\ IsFree'[f] = "FALSE" <=> IsFree[f] = "FALSE"
           /\ IsFree[f] = "FALSE" => Address'[f] = Address[f] /\ Size'[f] = Size[f]
        BY <2>1, Flags DEF Splits, OthersUnchanged, FieldsOf
  <2> QED BY <1>1, <2>2, <2>3, Allocates
<1>3. CASE ExactBlock(size)
  <2>1. PICK new, first : MakesExactly(new, first, size)
        BY <1>1, <1>3, ExactFacts
  <2>2. /\ new \in Elems /\ IsFree[new] = U_BOOL
        /\ IsFree'[new] = "FALSE" /\ Size'[new] = size
        BY <2>1 DEF MakesExactly, Makes, FieldsOf
  <2>3. \A f \in Elems \ {new} :
           /\ IsFree'[f] = "FALSE" <=> IsFree[f] = "FALSE"
           /\ IsFree[f] = "FALSE" => Address'[f] = Address[f] /\ Size'[f] = Size[f]
        BY <2>1, Flags DEF MakesExactly, OthersUnchanged, FieldsOf
  <2> QED BY <1>1, <2>2, <2>3, Allocates
<1>4. CASE BlockAndRest(size)
  <2>1. PICK new, rest, first : MakesWithRest(new, rest, first, size)
        BY <1>1, <1>4, RestFacts
  <2>2. /\ new \in Elems /\ IsFree[new] = U_BOOL
        /\ IsFree'[new] = "FALSE" /\ Size'[new] = size
        BY <2>1 DEF MakesWithRest, Makes, FieldsOf
  <2>3. \A f \in Elems \ {new} :
           /\ IsFree'[f] = "FALSE" <=> IsFree[f] = "FALSE"
           /\ IsFree[f] = "FALSE" => Address'[f] = Address[f] /\ Size'[f] = Size[f]
        BY <2>1, Flags DEF MakesWithRest, OthersUnchanged, FieldsOf
  <2> QED BY <1>1, <2>2, <2>3, Allocates
<1>5. CASE PoolExhausted(size)
      BY <1>5 DEF PoolExhausted, Intact
<1> QED BY <1>2, <1>3, <1>4, <1>5 DEF MemBlockAlloc

(* The block that MemBlockFree finds is freed.                             *)
LEMMA FreeFoundImplements ==
    ASSUME HeapInvariant, Intact, Intact', FreeFoundBlock
    PROVE  \E block \in BlocksInUse : Abstract!Free(block)
<1>1. HeapStructure /\ Promises /\ FieldTypes
      BY StructureParts DEF HeapInvariant
<1>2. scanAt \in DOMAIN OccupiedBlocks
      BY DEF FreeFoundBlock
<1>3. PICK e \in Elems : e = OccupiedBlocks[scanAt] /\ IsFree[e] = "FALSE"
      BY <1>1, <1>2, ListedElements
<1>4. /\ pc = "scan" /\ pc' = "merge" /\ target' = target
      /\ AddressInsideBlock(target, e)
      /\ IsFree' = [IsFree EXCEPT ![e] = "TRUE"]
      /\ Address' = Address /\ Size' = Size
      BY <1>3 DEF FreeFoundBlock, BeginCompaction
<1>5. /\ \A f \in Elems : Address[f] \in Nat /\ Size[f] \in Nat
      /\ target \in Nat
      BY <1>1, FieldRange DEF HeapStructure, HeapTypeOK
<1>6. Address[e] <= target /\ target < Address[e] + Size[e] /\ Size[e] > 0
      BY <1>4, <1>5 DEF AddressInsideBlock, EndOf
<1>b. PICK block : block = <<Address[e], Size[e]>>
      OBVIOUS
<1>7. block \in BlocksInUse
      BY <1>b, <1>3, <1>6, InUse
<1>8. /\ IsFree'[e] = "TRUE"
      /\ \A f \in Elems \ {e} : IsFree'[f] = IsFree[f]
      BY <1>1, <1>4 DEF FieldTypes
<1>9. ASSUME NEW f \in Elems \ {e}, Size[f] > 0
      PROVE  <<Address[f], Size[f]>> # block
  <2>1. Apart(e, f)
        BY <1>1, <1>9 DEF Promises, AllApart
  <2> QED BY <1>b, <1>5, <1>6, <1>9, <2>1 DEF Apart, EndOf
<1>10. BlocksInUse' = BlocksInUse \ {block}
  <2>1. \A b : b \in BlocksInUse' <=>
           \E f \in Elems : /\ IsFree'[f] = "FALSE" /\ Size'[f] > 0
                            /\ b = <<Address'[f], Size'[f]>>
        BY DEF BlocksInUse, Occupied
  <2>2. ASSUME NEW b, b \in BlocksInUse' PROVE b \in BlocksInUse \ {block}
    <3>1. PICK f \in Elems : /\ IsFree'[f] = "FALSE" /\ Size'[f] > 0
                             /\ b = <<Address'[f], Size'[f]>>
          BY <2>1, <2>2
    <3>2. /\ f # e /\ IsFree[f] = "FALSE" /\ Size[f] > 0
          /\ b = <<Address[f], Size[f]>>
          BY <1>4, <1>8, <3>1, Flags
    <3> QED BY <1>9, <3>2, InUse
  <2>3. ASSUME NEW b, b \in BlocksInUse, b # block PROVE b \in BlocksInUse'
    <3>1. PICK f \in Elems : /\ IsFree[f] = "FALSE" /\ Size[f] > 0
                             /\ b = <<Address[f], Size[f]>>
          BY <2>3, InUse
    <3>2. f # e
          BY <1>b, <2>3, <3>1
    <3>3. IsFree'[f] = "FALSE" /\ Size'[f] > 0 /\ b = <<Address'[f], Size'[f]>>
          BY <1>4, <1>8, <3>1, <3>2
    <3> QED BY <2>1, <3>3
  <2> QED BY <2>2, <2>3
<1>11. Abstract!Free(block)
  <2>1. Abstract!BytesOf(block) = Address[e] .. Address[e] + Size[e] - 1
        BY <1>b DEF Abstract!BytesOf
  <2>2. target \in Abstract!BytesOf(block)
        BY <1>5, <1>6, <2>1
  <2>3. (IF Intact /\ pc # "idle" THEN target ELSE -1) = target
        /\ (IF Intact /\ pc # "idle" THEN target ELSE -1)' = target
        BY <1>4
  <2>4. (IF Intact THEN BlocksInUse ELSE {})'
           = (IF Intact THEN BlocksInUse ELSE {}) \ {block}
        BY <1>10
  <2>5. ~~Intact /\ (~Intact)' = (~Intact)
        OBVIOUS
  <2> QED BY <2>2, <2>3, <2>4, <2>5 DEF Abstract!Free, BlocksInUse
<1> QED BY <1>7, <1>11

(* Merging, releasing and the pages of the console are not seen.           *)
LEMMA QuietImplements ==
    ASSUME HeapInvariant, Intact, Intact', OccupiedUnchanged, pc = "idle" <=> pc' = "idle",
           pc # "idle" => target' = target
    PROVE  [Abstract!Next]_(Abstract!vars)
<1>1. BlocksInUse' = BlocksInUse
      BY QuietInUse
<1>2. Freeing' = Freeing
      BY DEF Freeing
<1> QED BY <1>1, <1>2, Stutters

(* The call of MemBlockFree.                                               *)
LEMMA CallImplements ==
    ASSUME HeapInvariant, Intact, Intact', NEW address \in Addresses,
           MemBlockFree(address), OccupiedUnchanged
    PROVE  Abstract!BeginFree
<1>1. /\ pc = "idle" /\ pc' = "scan" /\ target' = address
      BY DEF MemBlockFree
<1>2. address \in Nat
  <2>1. MEMORY_MAP_ADDRESS + Pages * PAGE_SIZE \in Int
        BY Constants
  <2> QED BY <2>1 DEF Addresses
<1>3. BlocksInUse' = BlocksInUse
      BY QuietInUse
<1> QED BY <1>1, <1>2, <1>3 DEF Abstract!BeginFree, Abstract!None, BlocksInUse

(* Its return: no block that the address is inside of is left.             *)
LEMMA ReturnImplements ==
    ASSUME HeapInvariant, ScannedAreKept, Intact, Intact', MemBlockFreeReturns,
           OccupiedUnchanged
    PROVE  Abstract!EndFree
<1>1. /\ pc = "scan" /\ pc' = "idle" /\ scanAt = Len(OccupiedBlocks) + 1
      BY DEF MemBlockFreeReturns
<1>2. BlocksInUse' = BlocksInUse
      BY QuietInUse
<1>3. ASSUME NEW block \in BlocksInUse PROVE target \notin Abstract!BytesOf(block)
  <2>1. PICK e \in Elems : /\ IsFree[e] = "FALSE" /\ Size[e] > 0
                           /\ block = <<Address[e], Size[e]>>
        BY InUse
  <2>2. Listed(OccupiedBlocks, e)
        BY <2>1, StructureParts DEF Matched, HeapInvariant
  <2>3. PICK k \in DOMAIN OccupiedBlocks : OccupiedBlocks[k] = e
        BY <2>2 DEF Listed
  <2>4. k < scanAt
    <3>1. OccupiedBlocks \in Seq(Elems)
          BY StructureParts DEF HeapInvariant, FieldTypes
    <3> QED BY <1>1, <2>3, <3>1
  <2>5. ~AddressInsideBlock(target, e)
        BY <2>3, <2>4 DEF ScannedAreKept
  <2>6. Abstract!BytesOf(block) = Address[e] .. Address[e] + Size[e] - 1
        BY <2>1 DEF Abstract!BytesOf
  <2>7. Address[e] \in Nat /\ Size[e] \in Nat
        BY FieldRange DEF HeapInvariant
  <2> QED BY <2>5, <2>6, <2>7 DEF AddressInsideBlock, EndOf
<1> QED BY <1>1, <1>2, <1>3 DEF Abstract!EndFree, Abstract!None, BlocksInUse

(* Every step of the heap is one of AbstractHeap, or is not seen.          *)
LEMMA StepImplements ==
    ASSUME HeapInvariant, HeapInvariant', ScannedAreKept, [HeapNext]_heapVars
    PROVE  [Abstract!Next]_(Abstract!vars)
<1>1. CASE ~Intact'
      BY <1>1, Breaks DEF Abstract!Next
<1>2. CASE Intact'
  <2>1. HeapStructure /\ Intact
        BY <1>2, IntactBefore DEF HeapInvariant
  <2>2. ASSUME NEW size \in 0 .. MaxSize, MemBlockAlloc(size)
        PROVE  [Abstract!Next]_(Abstract!vars)
        BY <1>2, <2>1, <2>2, AllocImplements
  <2>3. ASSUME NEW address \in Addresses, MemBlockFree(address)
        PROVE  [Abstract!Next]_(Abstract!vars)
        BY <1>2, <2>1, <2>3, QuietSteps, CallImplements DEF Abstract!Next
  <2>4. CASE FreeFoundBlock
    <3>1. PICK block \in BlocksInUse : Abstract!Free(block)
          BY <1>2, <2>1, <2>4, FreeFoundImplements
    <3> QED BY <2>1, <3>1 DEF Abstract!Next, BlocksInUse
  <2>5. CASE MemBlockFreeReturns
        BY <1>2, <2>1, <2>5, QuietSteps, ReturnImplements DEF Abstract!Next
  <2>6. CASE \/ ScanNextBlock \/ MergeNextBlock \/ MergeEnds
             \/ ReleaseNextBlock \/ ReleaseEnds
             \/ MergeBlocks \/ ReleaseOnePageBlock \/ ReleaseFirstPage
             \/ \E n \in 0 .. MaxRequest : ConsolePageAlloc(n)
             \/ \E page \in Frames : ConsolePageFree(page)
             \/ UNCHANGED heapVars
    <3>1. OccupiedUnchanged
          BY <2>1, <2>6, QuietSteps
    <3>2. (pc = "idle" <=> pc' = "idle") /\ target' = target
          BY <2>6 DEF ScanNextBlock, MergeNextBlock, MergeEnds, ReleaseNextBlock,
             ReleaseEnds, MergeBlocks, ReleaseOnePageBlock, ReleaseFirstPage,
             ConsolePageAlloc, ConsolePageFree, heapVars, loopVars
    <3> QED BY <1>2, <2>1, <3>1, <3>2, QuietImplements
  <2> QED BY <2>2, <2>3, <2>4, <2>5, <2>6 DEF HeapNext, FreeStep
<1> QED BY <1>1, <1>2

(* The block allocator implements AbstractHeap: as long as every page it   *)
(* asked for was there and nothing has been overwritten, its caller is     *)
(* given bytes that nobody has, keeps them until it frees an address       *)
(* inside of them, and loses no other block then.                          *)
THEOREM HeapImplementsAbstractHeap == HeapSpec => ImplementsAbstractHeap
<1>1. HeapInit => Abstract!Init
  <2> SUFFICES ASSUME HeapInit PROVE Abstract!Init
      OBVIOUS
  <2>1. Intact /\ pc = "idle" /\ Occupied = {}
        BY Flags DEF HeapInit, FramesInit, Intact, Occupied
  <2> QED BY <2>1 DEF Abstract!Init, Abstract!None
<1>2. HeapInit => ScannedAreKept
      BY DEF HeapInit, ScannedAreKept
<1>3. HeapInvariant /\ ScannedAreKept /\ [HeapNext]_heapVars => ScannedAreKept'
      BY StepKeepsScan DEF HeapInvariant
<1>4. HeapInvariant /\ HeapInvariant' /\ ScannedAreKept /\ [HeapNext]_heapVars
          => [Abstract!Next]_(Abstract!vars)
      BY StepImplements
<1> QED BY <1>1, <1>2, <1>3, <1>4, HeapInvariantHolds, PTL
        DEF HeapSpec, ImplementsAbstractHeap, Abstract!Spec
=============================================================================
