--------------------------- MODULE PageScanProofs ---------------------------
(***************************************************************************)
(* Proofs about PageScan: what its search has established at each place.   *)
(*                                                                         *)
(* NothingSkipped and CountIsRunLength are about the same loop and need    *)
(* each other; MarksFreePages needs both, and all need the types and the   *)
(* bound of the counter.  IInv is their conjunction.                       *)
(*                                                                         *)
(* The second part proves that these loops implement PageFrames: what the  *)
(* caller of PageAlloc sees is one of the answers that PageFrames allows.  *)
(***************************************************************************)
EXTENDS PageScan, TLAPS

CounterBounded ==
    /\ pc = "idle" => i = 0 /\ j = 0 /\ pagesCounter = 0
    /\ pagesCounter <= numberOfPages
    /\ pc = "first" => i <= Bytes
    /\ pc \in {"first", "one"} => numberOfPages = 1

(* Byte and bit, and the entry, are those of the page that is due.         *)
IndicesAgree ==
    pc = "mark" =>
        /\ idx = start + pagesCounter
        /\ Bit(bitmapIndex, bitIndex) = idx

(* A page nobody has released since the bitmap was found is still taken.   *)
StaleAreTaken == \A p \in stale : bits[p]

TablesAgree == MappedIffTaken /\ StaleAreTaken

IInv ==
    /\ ScanTypeOK
    /\ CounterBounded
    /\ IndicesAgree
    /\ TablesAgree
    /\ NothingSkipped
    /\ CountIsRunLength
    /\ MarksFreePages

(* Arithmetic of byte and bit indices.                                     *)
LEMMA BitArithmetic ==
    ASSUME NEW byte \in Nat, NEW bit \in 0 .. BITS_8 - 1
    PROVE  /\ Bit(byte, bit) \in Nat
           /\ byte < Bytes => Bit(byte, bit) \in PagesOfArena
           /\ byte >= Bytes => Bit(byte, bit) >= Pages
           /\ Bit(byte, bit + 1) = Bit(byte, bit) + 1
           /\ bit = BITS_8 - 1 => Bit(byte + 1, 0) = Bit(byte, bit) + 1
<1>0. Bytes \in Nat /\ BITS_8 \in Nat /\ BITS_8 > 1
      BY ScanAssumption
<1>1. byte * BITS_8 \in Nat
      BY <1>0
<1>2. (byte + 1) * BITS_8 = byte * BITS_8 + BITS_8
      BY <1>0
<1>3. byte < Bytes => (byte + 1) * BITS_8 <= Bytes * BITS_8
      BY <1>0
<1>4. byte >= Bytes => byte * BITS_8 >= Bytes * BITS_8
      BY <1>0
<1> QED BY <1>0, <1>1, <1>2, <1>3, <1>4 DEF Bit, PagesOfArena, Pages

(* Later bytes have larger bit numbers.                                    *)
LEMMA BitOrder ==
    ASSUME NEW byte \in Nat, NEW last \in Nat, byte <= last,
           NEW bit \in 0 .. BITS_8 - 1
    PROVE  Bit(byte, bit) \in 0 .. Bit(last, BITS_8 - 1)
<1>0. BITS_8 \in Nat /\ BITS_8 > 1
      BY ScanAssumption
<1>1. byte * BITS_8 \in Nat /\ last * BITS_8 \in Nat
      BY <1>0
<1>2. byte * BITS_8 <= last * BITS_8
      BY <1>0
<1> QED BY <1>0, <1>1, <1>2 DEF Bit

(* A byte has at least two bits, so there are more pages than bytes.       *)
LEMMA PagesBounds == Pages \in Nat /\ Bytes < Pages
<1>1. Bytes \in Nat /\ Bytes > 0 /\ BITS_8 \in Nat /\ BITS_8 > 1
      BY ScanAssumption
<1>2. Bytes * 2 <= Bytes * BITS_8 /\ Bytes * BITS_8 \in Nat
      BY <1>1
<1> QED BY <1>1, <1>2 DEF Pages

-----------------------------------------------------------------------------
(***************************************************************************)
(* The bitmap, bit by bit: what a read finds and what a store changes.     *)
(***************************************************************************)
(* Quotient and remainder are what they are known to be, and the only ones.*)
LEMMA Division ==
    ASSUME NEW x \in Nat, NEW d \in Nat \ {0}
    PROVE  \E q \in Nat, r \in Nat :
              q = x \div d /\ r = x % d /\ x = q * d + r /\ r < d
<1>1. PICK q \in Nat, r \in Nat : q = x \div d /\ r = x % d
      OBVIOUS
<1>2. x = q * d + r /\ r < d
      BY <1>1
<1> QED BY <1>1, <1>2, Zenon

LEMMA DivisionIsUnique ==
    ASSUME NEW x \in Nat, NEW d \in Nat \ {0}, NEW q \in Nat, NEW r \in Nat,
           r < d, x = q * d + r
    PROVE  x \div d = q /\ x % d = r
<1>1. PICK p \in Nat, t \in Nat :
          p = x \div d /\ t = x % d /\ x = p * d + t /\ t < d
      BY Division, Zenon
<1>2. ASSUME NEW a \in Nat, NEW b \in Nat, NEW k \in Nat, NEW l \in Nat,
             a < b, k < d, a * d + k = b * d + l
      PROVE  FALSE
  <2>1. PICK n \in Nat : b = a + 1 + n
    <3>1. b - a - 1 \in Nat /\ b = a + 1 + (b - a - 1)
          BY <1>2
    <3> QED BY <3>1
  <2>2. b * d = a * d + d + n * d /\ n * d \in Nat
        BY <2>1
  <2> QED BY <1>2, <2>2
<1>3. p = q
      BY <1>1, <1>2
<1> QED BY <1>1, <1>3

(* Every page has one byte and one bit, and they find it.                  *)
LEMMA BitOfPage ==
    ASSUME NEW page \in Nat
    PROVE  /\ page \div BITS_8 \in Nat /\ page % BITS_8 \in 0 .. BITS_8 - 1
           /\ Bit(page \div BITS_8, page % BITS_8) = page
           /\ page \in PagesOfArena <=> page \div BITS_8 < Bytes
<1>0. Bytes \in Nat /\ BITS_8 \in Nat \ {0}
      BY ScanAssumption
<1>1. PICK byte \in Nat, bit \in Nat :
          /\ byte = page \div BITS_8 /\ bit = page % BITS_8
          /\ page = byte * BITS_8 + bit /\ bit < BITS_8
      BY <1>0, Division, Zenon
<1>2. bit \in 0 .. BITS_8 - 1
      BY <1>0, <1>1
<1>3. Bit(byte, bit) = page
      BY <1>1 DEF Bit
<1>4. /\ byte < Bytes => Bit(byte, bit) \in PagesOfArena
      /\ byte >= Bytes => Bit(byte, bit) >= Pages
      BY <1>2, BitArithmetic
<1>5. page \in PagesOfArena <=> byte < Bytes
      BY <1>0, <1>3, <1>4, PagesBounds DEF PagesOfArena
<1> QED BY <1>1, <1>2, <1>3, <1>5

(* Two places of the bitmap that have the same number are the same.        *)
LEMMA BitIsUnique ==
    ASSUME NEW byte \in Nat, NEW bit \in 0 .. BITS_8 - 1
    PROVE  Bit(byte, bit) \div BITS_8 = byte /\ Bit(byte, bit) % BITS_8 = bit
<1>0. BITS_8 \in Nat \ {0}
      BY ScanAssumption
<1>1. Bit(byte, bit) \in Nat /\ Bit(byte, bit) = byte * BITS_8 + bit
      BY BitArithmetic DEF Bit
<1> QED BY <1>0, <1>1, DivisionIsUnique

(* A read of the bitmap finds the bit of the page it is meant to look at.  *)
LEMMA ReadsBit ==
    ASSUME NEW byte \in Nat, NEW bit \in 0 .. BITS_8 - 1, byte < Bytes
    PROVE  bits[Bit(byte, bit)] <=> IsSet(byte, bit)
<1>1. Bit(byte, bit) \in PagesOfArena
      BY BitArithmetic
<1>2. bits[Bit(byte, bit)]
        = IsSet(Bit(byte, bit) \div BITS_8, Bit(byte, bit) % BITS_8)
      BY <1>1 DEF bits
<1> QED BY <1>2, BitIsUnique

(* The bits of pages are Booleans and only change when the bitmap does.    *)
LEMMA BitsAreTyped == bits \in [PagesOfArena -> BOOLEAN]
BY DEF bits, IsSet

LEMMA TablesAsTheyAre == UNCHANGED tables => UNCHANGED <<bits, present, status, stale>>
BY DEF tables, bits, IsSet, PagesOfArena, Pages, MASK_BIT_7

(* Two pages have the same byte and the same bit in it only if they are    *)
(* the same page.                                                          *)
LEMMA PlaceOfPage ==
    ASSUME NEW p \in PagesOfArena, NEW page \in Nat
    PROVE  /\ p \div BITS_8 \in 0 .. Bytes - 1
           /\ MASK_BIT_7(p % BITS_8) \in 0 .. BITS_8 - 1
           /\ MASK_BIT_7(p % BITS_8) = MaskOf(p)
           /\ p \div BITS_8 = page \div BITS_8 /\ MaskOf(p) = MaskOf(page)
                  => p = page
<1>0. BITS_8 \in Nat \ {0} /\ Bytes \in Nat
      BY ScanAssumption
<1>1. p \in Nat
      BY PagesBounds DEF PagesOfArena
<1>2. PICK b1 \in Nat, k1 \in 0 .. BITS_8 - 1 :
          /\ b1 = p \div BITS_8 /\ k1 = p % BITS_8
          /\ Bit(b1, k1) = p /\ b1 < Bytes
      BY <1>1, BitOfPage
<1>3. PICK b2 \in Nat, k2 \in 0 .. BITS_8 - 1 :
          b2 = page \div BITS_8 /\ k2 = page % BITS_8 /\ Bit(b2, k2) = page
      BY BitOfPage
<1>4. MaskOf(p) = BITS_8 - 1 - k1 /\ MaskOf(page) = BITS_8 - 1 - k2
      BY <1>2, <1>3 DEF MaskOf
<1>5. MASK_BIT_7(p % BITS_8) = BITS_8 - 1 - k1
      BY <1>2 DEF MASK_BIT_7
<1>6. MaskOf(p) = MaskOf(page) => k1 = k2
      BY <1>0, <1>4
<1> QED BY <1>0, <1>2, <1>3, <1>4, <1>5, <1>6

TablesTyped ==
    /\ BitMap \in [0 .. Bytes - 1 -> SUBSET (0 .. BITS_8 - 1)]
    /\ present \in [PagesOfArena -> BOOLEAN]
    /\ status \in {"ok", "corrupted"}
    /\ stale \subseteq PagesOfArena

(* Both stores of a page are inside of their table, or both are outside.   *)
LEMMA StoresOfPage ==
    ASSUME NEW page \in Nat, StoresInside(page \div BITS_8, page)
    PROVE  status' = IF page \in PagesOfArena THEN status ELSE "corrupted"
<1>1. page \in PagesOfArena <=> page \div BITS_8 < Bytes
      BY BitOfPage
<1>2. page \in PagesOfArena <=> page < Pages
      BY PagesBounds DEF PagesOfArena
<1> QED BY <1>1, <1>2 DEF StoresInside

(* The bit of a page, before and after a step.                             *)
LEMMA BitsOfPage ==
    ASSUME NEW p \in PagesOfArena, NEW byte, byte = p \div BITS_8,
           NEW mask, mask = MaskOf(p)
    PROVE  /\ bits[p] = (mask \in BitMap[byte])
           /\ bits'[p] = (mask \in BitMap'[byte])
<1>1. MASK_BIT_7(p % BITS_8) = mask
      BY PlaceOfPage, PagesBounds DEF PagesOfArena
<1>2. IsSet(p \div BITS_8, p % BITS_8) = (mask \in BitMap[byte])
      BY <1>1, Zenon DEF IsSet
<1>3. IsSet(p \div BITS_8, p % BITS_8)' = (mask \in BitMap'[byte])
      BY <1>1, Zenon DEF IsSet, MASK_BIT_7
<1>4. bits[p] = IsSet(p \div BITS_8, p % BITS_8)
      BY Zenon DEF bits
<1>5. bits'[p] = IsSet(p \div BITS_8, p % BITS_8)'
      BY Zenon DEF bits, PagesOfArena, Pages
<1> QED BY <1>2, <1>3, <1>4, <1>5, Zenon

(* What a store to the bit of a page changes: that page, if there is one.  *)
LEMMA BitsOfStore ==
    ASSUME NEW page \in Nat, NEW value \in BOOLEAN,
           \A b \in 0 .. Bytes - 1 : \A k \in 0 .. BITS_8 - 1 :
               k \in BitMap'[b]
                 <=> IF b = page \div BITS_8 /\ k = MaskOf(page)
                     THEN value ELSE k \in BitMap[b]
    PROVE  bits' = IF page \in PagesOfArena
                   THEN [bits EXCEPT ![page] = value] ELSE bits
<1>1. ASSUME NEW p \in PagesOfArena
      PROVE  bits'[p] = IF p = page THEN value ELSE bits[p]
  <2>1. PICK byte \in 0 .. Bytes - 1, mask \in 0 .. BITS_8 - 1 :
            byte = p \div BITS_8 /\ mask = MaskOf(p)
        BY PlaceOfPage
  <2>2. /\ bits[p] = (mask \in BitMap[byte])
        /\ bits'[p] = (mask \in BitMap'[byte])
        BY <2>1, BitsOfPage
  <2>3. byte = page \div BITS_8 /\ mask = MaskOf(page) <=> p = page
        BY <2>1, PlaceOfPage
  <2> QED BY <2>1, <2>2, <2>3
<1>2. /\ bits = [p \in PagesOfArena |-> bits[p]]
      /\ bits' = [p \in PagesOfArena |-> bits'[p]]
      BY DEF bits, PagesOfArena, Pages
<1> QED BY <1>1, <1>2, BitsAreTyped

(* Marking a page through its byte, its mask and its entry: both tables    *)
(* have it, or both stores are outside.                                    *)
LEMMA MarksPage ==
    ASSUME TablesTyped, NEW page \in Nat,
           Mark(page \div BITS_8, MaskOf(page), page)
    PROVE  /\ TablesTyped' /\ stale' = stale
           /\ IF page \in PagesOfArena
              THEN /\ bits' = [bits EXCEPT ![page] = TRUE]
                   /\ present' = [present EXCEPT ![page] = TRUE]
                   /\ status' = status
              ELSE /\ status' = "corrupted"
                   /\ bits' = bits /\ present' = present
<1>1. PICK byte \in Nat, mask \in 0 .. BITS_8 - 1 :
          byte = page \div BITS_8 /\ mask = MaskOf(page)
      BY BitOfPage, ScanAssumption DEF MaskOf
<1>2. /\ BitMap' = [b \in 0 .. Bytes - 1 |->
                      IF b = byte THEN BitMap[b] \cup {mask} ELSE BitMap[b]]
      /\ present' = [p \in PagesOfArena |-> p = page \/ present[p]]
      /\ StoresInside(byte, page) /\ stale' = stale
      BY <1>1 DEF Mark, TablesTyped
<1>3. BitMap' \in [0 .. Bytes - 1 -> SUBSET (0 .. BITS_8 - 1)]
      BY <1>2 DEF TablesTyped
<1>4. status' = IF page \in PagesOfArena THEN status ELSE "corrupted"
      BY <1>1, <1>2, StoresOfPage
<1>5. TablesTyped'
      BY <1>2, <1>3, <1>4 DEF TablesTyped, PagesOfArena, Pages
<1>6. bits' = IF page \in PagesOfArena THEN [bits EXCEPT ![page] = TRUE] ELSE bits
  <2>1. ASSUME NEW b \in 0 .. Bytes - 1, NEW k \in 0 .. BITS_8 - 1
        PROVE  k \in BitMap'[b]
                 <=> IF b = page \div BITS_8 /\ k = MaskOf(page)
                     THEN TRUE ELSE k \in BitMap[b]
        BY <1>1, <1>2
  <2> QED BY <2>1, BitsOfStore
<1>7. present' = IF page \in PagesOfArena
                 THEN [present EXCEPT ![page] = TRUE] ELSE present
      BY <1>2 DEF TablesTyped
<1> QED BY <1>2, <1>4, <1>5, <1>6, <1>7

(* And so for clearing it.                                                 *)
LEMMA ClearsPage ==
    ASSUME TablesTyped, NEW page \in Nat,
           Clear(page \div BITS_8, MaskOf(page), page)
    PROVE  /\ TablesTyped' /\ stale' = stale \ {page}
           /\ IF page \in PagesOfArena
              THEN /\ bits' = [bits EXCEPT ![page] = FALSE]
                   /\ present' = [present EXCEPT ![page] = FALSE]
                   /\ status' = status
              ELSE /\ status' = "corrupted"
                   /\ bits' = bits /\ present' = present
<1>1. PICK byte \in Nat, mask \in 0 .. BITS_8 - 1 :
          byte = page \div BITS_8 /\ mask = MaskOf(page)
      BY BitOfPage, ScanAssumption DEF MaskOf
<1>2. /\ BitMap' = [b \in 0 .. Bytes - 1 |->
                      IF b = byte THEN BitMap[b] \ {mask} ELSE BitMap[b]]
      /\ present' = [p \in PagesOfArena |-> p # page /\ present[p]]
      /\ StoresInside(byte, page) /\ stale' = stale \ {page}
      BY <1>1 DEF Clear, TablesTyped
<1>3. BitMap' \in [0 .. Bytes - 1 -> SUBSET (0 .. BITS_8 - 1)]
      BY <1>2 DEF TablesTyped
<1>4. status' = IF page \in PagesOfArena THEN status ELSE "corrupted"
      BY <1>1, <1>2, StoresOfPage
<1>5. TablesTyped'
      BY <1>2, <1>3, <1>4 DEF TablesTyped, PagesOfArena, Pages
<1>6. bits' = IF page \in PagesOfArena THEN [bits EXCEPT ![page] = FALSE] ELSE bits
  <2>1. ASSUME NEW b \in 0 .. Bytes - 1, NEW k \in 0 .. BITS_8 - 1
        PROVE  k \in BitMap'[b]
                 <=> IF b = page \div BITS_8 /\ k = MaskOf(page)
                     THEN FALSE ELSE k \in BitMap[b]
        BY <1>1, <1>2
  <2> QED BY <2>1, BitsOfStore
<1>7. present' = IF page \in PagesOfArena
                 THEN [present EXCEPT ![page] = FALSE] ELSE present
      BY <1>2 DEF TablesTyped
<1> QED BY <1>2, <1>4, <1>5, <1>6, <1>7

-----------------------------------------------------------------------------
(* Before the first call nothing is searched for, and what is taken was    *)
(* found taken.                                                            *)
LEMMA InitIInv == Init => IInv
<1> SUFFICES ASSUME Init PROVE IInv
    OBVIOUS
<1>1. ScanTypeOK /\ CounterBounded
      BY PagesBounds, ScanAssumption, BitArithmetic
         DEF Init, ScanTypeOK, CounterBounded, PagesOfArena, Bit
<1>2. TablesAgree
      BY BitsAreTyped DEF Init, TablesAgree, MappedIffTaken, StaleAreTaken
<1>3. IndicesAgree /\ NothingSkipped /\ CountIsRunLength /\ MarksFreePages
      BY DEF Init, IndicesAgree, NothingSkipped, CountIsRunLength, MarksFreePages
<1> QED BY <1>1, <1>2, <1>3 DEF IInv

(* A step that leaves the tables alone keeps them in agreement.            *)
LEMMA TablesKept == TablesAgree /\ UNCHANGED <<tables, bits>> => TablesAgree'
BY DEF tables, TablesAgree, MappedIffTaken, StaleAreTaken, PagesOfArena, Pages

(* A call that returns leaves nothing for the invariant to say.            *)
LEMMA ReturnKeepsIInv ==
    ASSUME IInv, Return, UNCHANGED tables
    PROVE  IInv'
<1>1. UNCHANGED <<tables, bits>>
      BY TablesAsTheyAre
<1>2. TablesAgree'
      BY <1>1, TablesKept DEF IInv
<1>3. ScanTypeOK' /\ CounterBounded'
      BY PagesBounds, ScanAssumption, BitArithmetic
         DEF IInv, Return, ScanTypeOK, CounterBounded, PagesOfArena, Bit, tables
<1>4. (IndicesAgree /\ NothingSkipped /\ CountIsRunLength /\ MarksFreePages)'
      BY DEF Return, IndicesAgree, NothingSkipped, CountIsRunLength,
             MarksFreePages
<1> QED BY <1>2, <1>3, <1>4 DEF IInv

(* The page that the search for one has found is free.                     *)
LEMMA FoundOneKeepsIInv ==
    ASSUME IInv, NEW page \in PagesOfArena, FoundOne(page), pc = "first",
           UNCHANGED tables, ~bits[page]
    PROVE  IInv'
<1>1. UNCHANGED <<tables, bits>>
      BY TablesAsTheyAre
<1>2. TablesAgree'
      BY <1>1, TablesKept DEF IInv
<1>3. page \in 0 .. Bit(Pages, BITS_8 - 1)
  <2>1. BITS_8 - 1 \in 0 .. BITS_8 - 1
        BY ScanAssumption
  <2>2. Bit(Pages, BITS_8 - 1) \in Nat /\ Bit(Pages, BITS_8 - 1) >= Pages
        BY <2>1, PagesBounds, BitArithmetic, ScanAssumption
  <2> QED BY <2>2, PagesBounds DEF PagesOfArena
<1>4. ScanTypeOK' /\ CounterBounded'
      BY <1>3, PagesBounds, ScanAssumption
         DEF IInv, FoundOne, markVars, ScanTypeOK, CounterBounded, PagesOfArena,
             Bit, tables
<1>5. (IndicesAgree /\ NothingSkipped /\ CountIsRunLength)'
      BY DEF FoundOne, IndicesAgree, NothingSkipped, CountIsRunLength
<1>6. MarksFreePages'
      BY <1>1 DEF FoundOne, MarksFreePages, PagesOfArena, Pages
<1> QED BY <1>2, <1>4, <1>5, <1>6 DEF IInv

(* The pages of a search that has succeeded are free when marking starts,  *)
(* and the marking starts at the first of them in both tables.             *)
LEMMA FoundRunKeepsIInv ==
    ASSUME IInv, NEW first \in 0 .. Bit(Pages, BITS_8 - 1), FoundRun(first),
           UNCHANGED tables,
           \A p \in first .. first + numberOfPages - 1 :
               p \in PagesOfArena => ~bits[p]
    PROVE  IInv'
<1>1. UNCHANGED <<tables, bits>>
      BY TablesAsTheyAre
<1>2. TablesAgree'
      BY <1>1, TablesKept DEF IInv
<1>3. PICK byte \in Nat, bit \in 0 .. BITS_8 - 1 :
          byte = first \div BITS_8 /\ bit = first % BITS_8
          /\ Bit(byte, bit) = first
      BY BitOfPage
<1>4. ScanTypeOK' /\ CounterBounded'
      BY <1>3, PagesBounds, ScanAssumption
         DEF IInv, FoundRun, ScanTypeOK, CounterBounded, PagesOfArena, Bit,
             tables
<1>5. IndicesAgree'
      BY <1>3 DEF FoundRun, IndicesAgree, Bit
<1>6. (NothingSkipped /\ CountIsRunLength)'
      BY DEF FoundRun, NothingSkipped, CountIsRunLength
<1>7. MarksFreePages'
      BY <1>1, ScanAssumption
         DEF FoundRun, MarksFreePages, PagesOfArena, Pages, IInv, ScanTypeOK
<1> QED BY <1>2, <1>4, <1>5, <1>6, <1>7 DEF IInv

(* PageAlloc begins its search at the first bit of the bitmap.             *)
LEMMA RequestKeepsIInv ==
    ASSUME IInv, NEW n \in 0 .. MaxRequest, Request(n)
    PROVE  IInv'
<1>1. pc = "idle" /\ i = 0 /\ j = 0 /\ pagesCounter = 0 /\ Bit(i, j) = 0
      BY ScanAssumption DEF IInv, Request, CounterBounded, Bit
<1>2. UNCHANGED <<tables, bits>>
      BY TablesAsTheyAre DEF Request
<1>3. TablesAgree'
      BY <1>2, TablesKept DEF IInv
<1>4. ScanTypeOK' /\ CounterBounded'
      BY <1>1, PagesBounds, ScanAssumption
         DEF IInv, Request, searchVars, markVars, tables, ScanTypeOK,
             CounterBounded, PagesOfArena, Bit
<1>5. (IndicesAgree /\ CountIsRunLength /\ MarksFreePages)'
      BY DEF Request, IndicesAgree, CountIsRunLength, MarksFreePages
<1>6. NothingSkipped'
  <2>1. Bit(i', j') = 0 /\ pc' # "count"
        BY <1>1 DEF Request, searchVars, Bit
  <2> QED BY <2>1, PagesBounds DEF NothingSkipped, PagesOfArena
<1> QED BY <1>3, <1>4, <1>5, <1>6 DEF IInv

(* PageFree clears both tables alike, and no search is under way.          *)
LEMMA PageFreeKeepsIInv ==
    ASSUME IInv, NEW page \in 0 .. Pages, PageFree(page)
    PROVE  IInv'
<1>1. pc = "idle" /\ pc' = "idle" /\ page \in Nat
      BY PagesBounds DEF PageFree
<1>2. TablesTyped
      BY DEF IInv, ScanTypeOK, TablesTyped
<1>3. /\ TablesTyped' /\ stale' = stale \ {page}
      /\ IF page \in PagesOfArena
         THEN /\ bits' = [bits EXCEPT ![page] = FALSE]
              /\ present' = [present EXCEPT ![page] = FALSE]
              /\ status' = status
         ELSE /\ status' = "corrupted"
              /\ bits' = bits /\ present' = present
      BY <1>1, <1>2, ClearsPage DEF PageFree
<1>4. ScanTypeOK' /\ CounterBounded'
      BY <1>3 DEF IInv, PageFree, searchVars, markVars, TablesTyped, ScanTypeOK,
                  CounterBounded, PagesOfArena, Bit
<1>5. TablesAgree'
  <2>1. MappedIffTaken /\ StaleAreTaken /\ stale \subseteq PagesOfArena
        BY <1>2 DEF IInv, TablesAgree, TablesTyped
  <2>2. PagesOfArena' = PagesOfArena
        BY DEF PagesOfArena, Pages
  <2>3. bits \in [PagesOfArena -> BOOLEAN]
        /\ present \in [PagesOfArena -> BOOLEAN]
        BY <1>2, BitsAreTyped DEF TablesTyped
  <2>4. MappedIffTaken'
        BY <1>3, <2>1, <2>2, <2>3 DEF MappedIffTaken
  <2>5. StaleAreTaken'
        BY <1>3, <2>1, <2>3 DEF StaleAreTaken
  <2> QED BY <2>4, <2>5 DEF TablesAgree
<1> QED BY <1>1, <1>4, <1>5
        DEF IInv, IndicesAgree, NothingSkipped, CountIsRunLength, MarksFreePages

(* The search for one page finds a free one, moves on, or gives up.        *)
LEMMA LookForOneKeepsIInv ==
    ASSUME IInv, LookForOne
    PROVE  IInv'
<1>1. pc = "first" /\ numberOfPages = 1 /\ i \in 0 .. Bytes
      /\ UNCHANGED <<tables, bits>> /\ i \in Nat /\ j \in 0 .. BITS_8 - 1
      BY TablesAsTheyAre, ScanAssumption
         DEF IInv, LookForOne, CounterBounded, ScanTypeOK
<1>2. CASE i = Bytes
      BY <1>2, ReturnKeepsIInv DEF LookForOne
<1>3. i # Bytes => (bits[Bit(i, j)] <=> IsSet(i, j))
      BY <1>1, ReadsBit, ScanAssumption
<1>4. CASE i # Bytes /\ ~IsSet(i, j)
  <2>1. FoundOne(Bit(i, j))
        BY <1>4 DEF LookForOne
  <2>2. Bit(i, j) \in PagesOfArena
        BY <1>1, <1>4, BitArithmetic, ScanAssumption
  <2> QED BY <1>1, <1>3, <1>4, <2>1, <2>2, FoundOneKeepsIInv
<1>5. CASE i # Bytes /\ IsSet(i, j)
  <2>1. TablesAgree'
        BY <1>1, TablesKept DEF IInv
  <2>2. ScanTypeOK' /\ CounterBounded'
        BY <1>1, <1>5, PagesBounds, ScanAssumption
           DEF LookForOne, IInv, tables, markVars, ScanTypeOK, CounterBounded,
               PagesOfArena
  <2>3. pc' = "first"
        BY <1>1, <1>5 DEF LookForOne
  <2> QED BY <2>1, <2>2, <2>3
          DEF IInv, IndicesAgree, NothingSkipped, CountIsRunLength,
              MarksFreePages
<1> QED BY <1>1, <1>2, <1>4, <1>5

-----------------------------------------------------------------------------
(* A new run begins where the search has arrived, with nothing counted.    *)
LEMMA BeginRunKeepsIInv ==
    ASSUME IInv, BeginRun
    PROVE  IInv'
<1>1. Bit(i, j) \in 0 .. Bit(Pages, BITS_8 - 1)
  <2>1. i \in Nat /\ i <= Pages /\ j \in 0 .. BITS_8 - 1 /\ Pages \in Nat
        BY PagesBounds DEF IInv, ScanTypeOK
  <2> QED BY <2>1, BitOrder
<1>2. ScanTypeOK' /\ CounterBounded' /\ MarksFreePages' /\ IndicesAgree'
      BY <1>1, ScanAssumption, PagesBounds
         DEF BeginRun, IInv, ScanTypeOK, CounterBounded, MarksFreePages,
             IndicesAgree, PagesOfArena, Bit, tables, markVars
<1>3. pc = "run" /\ pc' = "count" /\ start' = Bit(i, j) /\ pagesCounter' = 0
      /\ Bit(i, j)' = Bit(i, j) /\ UNCHANGED <<tables, bits>>
      BY TablesAsTheyAre DEF BeginRun, Bit
<1>4. NothingSkipped'
      BY <1>3 DEF BeginRun, IInv, NothingSkipped, IsFreeRun, PagesOfArena, Pages
<1>5. CountIsRunLength'
  <2>1. Bit(i, j) \in Nat
        BY <1>1, PagesBounds, ScanAssumption, BitArithmetic DEF IInv, ScanTypeOK
  <2> QED BY <1>3, <2>1 DEF CountIsRunLength
<1>6. TablesAgree'
      BY <1>3, TablesKept DEF IInv
<1> QED BY <1>2, <1>4, <1>5, <1>6 DEF IInv

(* What the search knows about the bit it looks at.                        *)
LEMMA CountFacts ==
    ASSUME IInv, pc = "count"
    PROVE  /\ i \in Nat /\ j \in 0 .. BITS_8 - 1 /\ BITS_8 \in Nat
           /\ start \in Nat /\ pagesCounter \in Nat /\ numberOfPages \in Nat
           /\ Bit(i, j) \in Nat /\ start + pagesCounter = Bit(i, j)
           /\ Bit(i, j) \in PagesOfArena <=> i < Bytes
<1>1. BITS_8 - 1 \in 0 .. BITS_8 - 1 /\ Pages \in Nat /\ BITS_8 \in Nat
      BY ScanAssumption, PagesBounds
<1>2. Bit(Pages, BITS_8 - 1) \in Nat
      BY <1>1, BitArithmetic
<1>3. i \in Nat /\ j \in 0 .. BITS_8 - 1 /\ start \in Nat
      /\ pagesCounter \in Nat /\ numberOfPages \in Nat
      BY <1>1, <1>2, ScanAssumption DEF IInv, ScanTypeOK
<1>4. /\ Bit(i, j) \in Nat
      /\ i < Bytes => Bit(i, j) \in PagesOfArena
      /\ i >= Bytes => Bit(i, j) >= Pages
      BY <1>3, BitArithmetic
<1> QED BY <1>1, <1>3, <1>4, ScanAssumption
        DEF IInv, CountIsRunLength, PagesOfArena

(* A free page is counted, and i and j move to the next one.               *)
LEMMA CountPageKeepsIInv ==
    ASSUME IInv, CountPage
    PROVE  IInv'
<1>1. pc = "count" /\ pagesCounter < numberOfPages
      /\ UNCHANGED <<tables, bits>>
      BY TablesAsTheyAre DEF CountPage
<1>2. Bit(i, j) \in PagesOfArena => ~bits[Bit(i, j)]
      BY <1>1, CountFacts, ReadsBit DEF CountPage, BitRead
<1>3. ASSUME i' \in 0 .. Pages, j' \in 0 .. BITS_8 - 1,
             Bit(i', j') = Bit(i, j) + 1, pagesCounter' = pagesCounter + 1,
             UNCHANGED <<pc, numberOfPages, start, markVars>>
      PROVE  IInv'
  <2>1. ScanTypeOK' /\ CounterBounded' /\ MarksFreePages' /\ IndicesAgree'
        BY <1>1, <1>3, ScanAssumption, PagesBounds
           DEF IInv, ScanTypeOK, CounterBounded, MarksFreePages, IndicesAgree,
               PagesOfArena, Bit, tables, markVars
  <2>2. NothingSkipped'
        BY <1>1, <1>3 DEF IInv, NothingSkipped, IsFreeRun, PagesOfArena, Pages
  <2>3. ASSUME NEW p \in start .. start + pagesCounter, p \in PagesOfArena
        PROVE  ~bits[p]
    <3>1. CASE p = Bit(i, j)
          BY <1>2, <2>3, <3>1
    <3>2. CASE p # Bit(i, j)
      <4>1. p \in start .. start + pagesCounter - 1
            BY <1>1, <3>2, CountFacts
      <4> QED BY <1>1, <2>3, <4>1 DEF IInv, CountIsRunLength
    <3> QED BY <3>1, <3>2
  <2>4. CountIsRunLength'
        BY <1>1, <1>3, <2>3, CountFacts
           DEF CountIsRunLength, PagesOfArena, Pages
  <2>5. TablesAgree'
        BY <1>1, TablesKept DEF IInv
  <2> QED BY <2>1, <2>2, <2>4, <2>5 DEF IInv
<1>4. CASE j < BITS_8 - 1
  <2>1. j' = j + 1 /\ i' = i /\ pagesCounter' = pagesCounter + 1
        /\ UNCHANGED <<pc, numberOfPages, start, markVars>>
        BY <1>4 DEF CountPage
  <2>2. i' \in 0 .. Pages /\ j' \in 0 .. BITS_8 - 1
        BY <1>1, <1>4, <2>1, CountFacts DEF IInv, ScanTypeOK
  <2>3. Bit(i', j') = Bit(i, j) + 1
        BY <1>1, <2>1, CountFacts, BitArithmetic
  <2> QED BY <1>3, <2>1, <2>2, <2>3
<1>5. CASE ~(j < BITS_8 - 1) /\ i < ByteLimit
  <2>1. j' = 0 /\ i' = i + 1 /\ pagesCounter' = pagesCounter + 1
        /\ UNCHANGED <<pc, numberOfPages, start, markVars>>
        BY <1>5 DEF CountPage
  <2>2. i' \in 0 .. Pages /\ j' \in 0 .. BITS_8 - 1
        BY <1>1, <1>5, <2>1, CountFacts, PagesBounds
           DEF IInv, ScanTypeOK, ByteLimit
  <2>3. j = BITS_8 - 1
        BY <1>1, <1>5, CountFacts
  <2>4. Bit(i', j') = Bit(i, j) + 1
        BY <1>1, <2>1, <2>3, CountFacts, BitArithmetic
  <2> QED BY <1>3, <2>1, <2>2, <2>4
<1>6. CASE ~(j < BITS_8 - 1) /\ ~(i < ByteLimit)
      BY <1>1, <1>6, ReturnKeepsIInv DEF CountPage
<1> QED BY <1>4, <1>5, <1>6

(* A run ends long enough, or no run from a page in it would be.           *)
LEMMA EndRunKeepsIInv ==
    ASSUME IInv, EndRun
    PROVE  IInv'
<1>1. pc = "count" /\ UNCHANGED <<tables, bits>>
      BY TablesAsTheyAre DEF EndRun
<1>2. CASE pagesCounter = numberOfPages
  <2>1. FoundRun(start) /\ start \in 0 .. Bit(Pages, BITS_8 - 1)
        BY <1>2 DEF EndRun, IInv, ScanTypeOK
  <2>2. \A p \in start .. start + numberOfPages - 1 :
            p \in PagesOfArena => ~bits[p]
        BY <1>1, <1>2 DEF IInv, CountIsRunLength
  <2> QED BY <1>1, <2>1, <2>2, FoundRunKeepsIInv
<1>3. CASE pagesCounter # numberOfPages
  <2>1. NextRun /\ pagesCounter < numberOfPages
        BY <1>1, <1>3, CountFacts DEF EndRun, IInv, CounterBounded
  <2>2. ~(Bit(i, j) \in PagesOfArena /\ ~bits[Bit(i, j)])
        BY <1>1, <1>3, CountFacts, ReadsBit DEF EndRun, BitRead
  <2>3. ASSUME NEW p \in PagesOfArena, p < Bit(i, j) + 1
        PROVE  ~IsFreeRun(p, numberOfPages)
    <3>1. CASE p < start
          BY <1>1, <2>3, <3>1 DEF IInv, NothingSkipped
    <3>2. CASE ~(p < start)
      <4>1. Bit(i, j) \in p .. p + numberOfPages - 1
            BY <1>1, <2>1, <2>3, <3>2, CountFacts DEF PagesOfArena
      <4> QED BY <2>2, <4>1 DEF IsFreeRun
    <3> QED BY <3>1, <3>2
  <2>4. ASSUME i' \in 0 .. Pages, j' \in 0 .. BITS_8 - 1, pc' = "run",
               Bit(i', j') = Bit(i, j) + 1,
               UNCHANGED <<numberOfPages, start, pagesCounter, markVars>>
        PROVE  IInv'
    <3>1. ScanTypeOK' /\ CounterBounded' /\ MarksFreePages' /\ IndicesAgree'
          BY <1>1, <2>4, ScanAssumption, PagesBounds
             DEF IInv, ScanTypeOK, CounterBounded, MarksFreePages,
                 IndicesAgree, PagesOfArena, Bit, tables, markVars
    <3>2. NothingSkipped' /\ CountIsRunLength'
          BY <1>1, <2>3, <2>4
             DEF NothingSkipped, CountIsRunLength, IsFreeRun, PagesOfArena,
                 Pages
    <3>3. TablesAgree'
          BY <1>1, TablesKept DEF IInv
    <3> QED BY <3>1, <3>2, <3>3 DEF IInv
  <2>5. CASE j < BITS_8 - 1
    <3>1. j' = j + 1 /\ i' = i /\ pc' = "run"
          /\ UNCHANGED <<numberOfPages, start, pagesCounter, markVars>>
          BY <2>1, <2>5 DEF NextRun
    <3>2. i' \in 0 .. Pages /\ j' \in 0 .. BITS_8 - 1
          BY <1>1, <2>5, <3>1, CountFacts DEF IInv, ScanTypeOK
    <3>3. Bit(i', j') = Bit(i, j) + 1
          BY <1>1, <3>1, CountFacts, BitArithmetic
    <3> QED BY <2>4, <3>1, <3>2, <3>3
  <2>6. CASE ~(j < BITS_8 - 1) /\ i + 1 < Bytes
    <3>1. j' = 0 /\ i' = i + 1 /\ pc' = "run"
          /\ UNCHANGED <<numberOfPages, start, pagesCounter, markVars>>
          BY <2>1, <2>6 DEF NextRun
    <3>2. i' \in 0 .. Pages /\ j' \in 0 .. BITS_8 - 1 /\ j = BITS_8 - 1
          BY <1>1, <2>6, <3>1, CountFacts, PagesBounds, ScanAssumption
    <3>3. Bit(i', j') = Bit(i, j) + 1
          BY <1>1, <3>1, <3>2, CountFacts, BitArithmetic
    <3> QED BY <2>4, <3>1, <3>2, <3>3
  <2>7. CASE ~(j < BITS_8 - 1) /\ ~(i + 1 < Bytes)
        BY <1>1, <2>1, <2>7, ReturnKeepsIInv DEF NextRun
  <2> QED BY <2>5, <2>6, <2>7
<1> QED BY <1>2, <1>3

-----------------------------------------------------------------------------
(* A page that is marked in both tables at once leaves them in agreement.  *)
LEMMA MarkKeepsTables ==
    ASSUME TablesAgree, TablesTyped, NEW page \in Nat, stale' = stale,
           IF page \in PagesOfArena
           THEN /\ bits' = [bits EXCEPT ![page] = TRUE]
                /\ present' = [present EXCEPT ![page] = TRUE]
           ELSE bits' = bits /\ present' = present,
           page \in PagesOfArena => ~bits[page]
    PROVE  TablesAgree'
<1>1. MappedIffTaken /\ StaleAreTaken /\ stale \subseteq PagesOfArena
      BY DEF TablesAgree, TablesTyped
<1>2. bits \in [PagesOfArena -> BOOLEAN] /\ present \in [PagesOfArena -> BOOLEAN]
      BY BitsAreTyped DEF TablesTyped
<1>3. PagesOfArena' = PagesOfArena
      BY DEF PagesOfArena, Pages
<1>4. MappedIffTaken'
      BY <1>1, <1>2, <1>3 DEF MappedIffTaken, StaleAreTaken
<1>5. StaleAreTaken'
      BY <1>1, <1>2 DEF StaleAreTaken
<1> QED BY <1>4, <1>5 DEF TablesAgree

(* The one page of a request for one is free when it is marked.            *)
LEMMA MarkOnePageKeepsIInv ==
    ASSUME IInv, MarkOnePage
    PROVE  IInv'
<1>1. TablesTyped /\ start \in PagesOfArena /\ ~bits[start] /\ start \in Nat
      BY PagesBounds
         DEF MarkOnePage, IInv, ScanTypeOK, TablesTyped, MarksFreePages,
             PagesOfArena
<1>2. /\ TablesTyped' /\ stale' = stale
      /\ bits' = [bits EXCEPT ![start] = TRUE]
      /\ present' = [present EXCEPT ![start] = TRUE]
      BY <1>1, MarksPage DEF MarkOnePage
<1>3. TablesAgree'
      BY <1>1, <1>2, MarkKeepsTables DEF IInv
<1>4. ScanTypeOK' /\ CounterBounded'
      BY <1>2, PagesBounds, ScanAssumption, BitArithmetic
         DEF IInv, MarkOnePage, Return, TablesTyped, ScanTypeOK,
             CounterBounded, PagesOfArena, Bit
<1>5. (IndicesAgree /\ NothingSkipped /\ CountIsRunLength /\ MarksFreePages)'
      BY DEF MarkOnePage, Return, IndicesAgree, NothingSkipped,
             CountIsRunLength, MarksFreePages
<1> QED BY <1>3, <1>4, <1>5 DEF IInv

(* The page that is due, and what an iteration of the marking does: byte,  *)
(* mask and entry all are those of this page, and of the next one next.    *)
LEMMA MarkPageFacts ==
    ASSUME IInv, MarkPage, pagesCounter # numberOfPages
    PROVE  /\ start + pagesCounter \in Nat
           /\ start \in Nat /\ pagesCounter \in Nat /\ numberOfPages \in Nat
           /\ pagesCounter < numberOfPages
           /\ Mark((start + pagesCounter) \div BITS_8,
                   MaskOf(start + pagesCounter), start + pagesCounter)
           /\ pagesCounter' = pagesCounter + 1
           /\ UNCHANGED <<pc, numberOfPages, i, j, start>>
           /\ bitmapIndex' \in Nat /\ bitIndex' \in 0 .. BITS_8 - 1
           /\ idx' \in Nat /\ IndicesAgree'
<1>1. /\ pc = "mark" /\ pagesCounter' = pagesCounter + 1
      /\ UNCHANGED <<pc, numberOfPages, i, j, start>>
      /\ Mark(bitmapIndex, MaskOf(bitIndex), idx) /\ NextBit /\ idx' = idx + 1
      BY DEF MarkPage
<1>2. /\ pagesCounter \in Nat /\ numberOfPages \in Nat
      /\ pagesCounter < numberOfPages
      /\ bitmapIndex \in Nat /\ bitIndex \in 0 .. BITS_8 - 1 /\ idx \in Nat
      /\ BITS_8 \in Nat /\ BITS_8 > 1
      BY ScanAssumption DEF IInv, ScanTypeOK, CounterBounded
<1>3. start \in Nat
  <2>1. BITS_8 - 1 \in 0 .. BITS_8 - 1
        BY <1>2
  <2>2. Bit(Pages, BITS_8 - 1) \in Nat
        BY <2>1, PagesBounds, BitArithmetic
  <2> QED BY <2>2 DEF IInv, ScanTypeOK
<1>4. PICK page \in Nat : page = start + pagesCounter
      BY <1>2, <1>3
<1>5. idx = page /\ Bit(bitmapIndex, bitIndex) = page
      BY <1>1, <1>4 DEF IInv, IndicesAgree
<1>6. bitmapIndex = page \div BITS_8 /\ bitIndex = page % BITS_8
      BY <1>2, <1>5, BitIsUnique
<1>7. bitIndex % BITS_8 = bitIndex
  <2>1. 0 \in Nat /\ bitIndex \in Nat /\ BITS_8 \in Nat \ {0}
        /\ bitIndex < BITS_8 /\ bitIndex = 0 * BITS_8 + bitIndex
        BY <1>2
  <2> QED BY <2>1, DivisionIsUnique
<1>8. MaskOf(bitIndex) = MaskOf(page)
      BY <1>6, <1>7 DEF MaskOf
<1>9. Mark(page \div BITS_8, MaskOf(page), page)
      BY <1>1, <1>5, <1>6, <1>8
<1>10. /\ bitmapIndex' \in Nat /\ bitIndex' \in 0 .. BITS_8 - 1
       /\ Bit(bitmapIndex', bitIndex') = Bit(bitmapIndex, bitIndex) + 1
  <2>1. CASE bitIndex < BITS_8 - 1
    <3>1. bitIndex' = bitIndex + 1 /\ bitmapIndex' = bitmapIndex
          BY <1>1, <2>1 DEF NextBit
    <3> QED BY <1>2, <2>1, <3>1, BitArithmetic
  <2>2. CASE ~(bitIndex < BITS_8 - 1)
    <3>1. bitIndex' = 0 /\ bitmapIndex' = bitmapIndex + 1
          /\ bitIndex = BITS_8 - 1
          BY <1>1, <1>2, <2>2 DEF NextBit
    <3> QED BY <1>2, <3>1, BitArithmetic
  <2> QED BY <2>1, <2>2
<1>11. idx' = page + 1 /\ start' + pagesCounter' = page + 1
      BY <1>1, <1>2, <1>3, <1>4, <1>5
<1>12. IndicesAgree'
      BY <1>5, <1>10, <1>11 DEF IndicesAgree, Bit
<1> QED BY <1>1, <1>2, <1>3, <1>4, <1>9, <1>10, <1>11, <1>12

(* Marking a page leaves the pages still to be marked free.                *)
LEMMA MarkPageKeepsIInv ==
    ASSUME IInv, MarkPage
    PROVE  IInv'
<1>1. pc = "mark" /\ TablesTyped
      BY DEF MarkPage, IInv, ScanTypeOK, TablesTyped
<1>2. CASE pagesCounter = numberOfPages
      BY <1>2, ReturnKeepsIInv DEF MarkPage
<1>3. CASE pagesCounter # numberOfPages
  <2>1. PICK page \in Nat :
            /\ page = start + pagesCounter
            /\ Mark(page \div BITS_8, MaskOf(page), page)
        BY <1>3, MarkPageFacts
  <2>2. /\ start \in Nat /\ pagesCounter \in Nat /\ numberOfPages \in Nat
        /\ pagesCounter < numberOfPages
        /\ pagesCounter' = pagesCounter + 1
        /\ UNCHANGED <<pc, numberOfPages, i, j, start>>
        /\ bitmapIndex' \in Nat /\ bitIndex' \in 0 .. BITS_8 - 1
        /\ idx' \in Nat /\ IndicesAgree'
        BY <1>3, MarkPageFacts
  <2>3. page \in PagesOfArena => ~bits[page]
        BY <1>1, <2>1, <2>2 DEF IInv, MarksFreePages
  <2>4. /\ TablesTyped' /\ stale' = stale
        /\ IF page \in PagesOfArena
           THEN /\ bits' = [bits EXCEPT ![page] = TRUE]
                /\ present' = [present EXCEPT ![page] = TRUE]
           ELSE bits' = bits /\ present' = present
        BY <1>1, <2>1, MarksPage
  <2>5. TablesAgree'
        BY <1>1, <2>3, <2>4, MarkKeepsTables DEF IInv
  <2>6. ScanTypeOK' /\ CounterBounded'
        BY <1>1, <2>2, <2>4, ScanAssumption
           DEF IInv, TablesTyped, ScanTypeOK, CounterBounded, PagesOfArena,
               Pages, Bit
  <2>7. NothingSkipped' /\ CountIsRunLength'
        BY <1>1, <2>2 DEF NothingSkipped, CountIsRunLength
  <2>8. ASSUME NEW p \in start + pagesCounter + 1 .. start + numberOfPages - 1,
               p \in PagesOfArena
        PROVE  ~bits'[p]
    <3>1. ~bits[p] /\ p # page
          BY <1>1, <2>1, <2>2, <2>8 DEF IInv, MarksFreePages
    <3> QED BY <2>4, <2>8, <3>1, BitsAreTyped
  <2>9. start' + pagesCounter' = start + pagesCounter + 1
        /\ start' + numberOfPages' - 1 = start + numberOfPages - 1
        /\ PagesOfArena' = PagesOfArena
        BY <2>2 DEF PagesOfArena, Pages
  <2>10. MarksFreePages'
        BY <1>1, <2>2, <2>8, <2>9 DEF MarksFreePages
  <2> QED BY <2>2, <2>5, <2>6, <2>7, <2>10 DEF IInv
<1> QED BY <1>2, <1>3

(* A step that changes nothing keeps the invariant.                        *)
LEMMA StutterKeepsIInv ==
    ASSUME IInv, UNCHANGED vars
    PROVE  IInv'
<1>1. UNCHANGED <<tables, bits, pc, numberOfPages, searchVars, markVars>>
      BY TablesAsTheyAre DEF vars
<1>2. TablesAgree'
      BY <1>1, TablesKept DEF IInv
<1>3. (ScanTypeOK /\ CounterBounded /\ IndicesAgree)'
      BY <1>1 DEF IInv, tables, searchVars, markVars, ScanTypeOK,
                  CounterBounded, IndicesAgree, PagesOfArena, Pages, Bit
<1>4. (NothingSkipped /\ CountIsRunLength /\ MarksFreePages)'
      BY <1>1 DEF IInv, searchVars, NothingSkipped, CountIsRunLength,
                  MarksFreePages, PagesOfArena, Pages, Bit, IsFreeRun
<1> QED BY <1>2, <1>3, <1>4 DEF IInv

(* Every step keeps the invariant.                                         *)
LEMMA NextKeepsIInv == IInv /\ [Next]_vars => IInv'
<1> SUFFICES ASSUME IInv, [Next]_vars PROVE IInv'
    OBVIOUS
<1>1. ASSUME NEW n \in 0 .. MaxRequest, Request(n) PROVE IInv'
      BY <1>1, RequestKeepsIInv
<1>2. ASSUME NEW page \in 0 .. Pages, PageFree(page) PROVE IInv'
      BY <1>2, PageFreeKeepsIInv
<1>3. CASE LookForOne
      BY <1>3, LookForOneKeepsIInv
<1>4. CASE BeginRun
      BY <1>4, BeginRunKeepsIInv
<1>5. CASE CountPage
      BY <1>5, CountPageKeepsIInv
<1>6. CASE EndRun
      BY <1>6, EndRunKeepsIInv
<1>7. CASE MarkPage
      BY <1>7, MarkPageKeepsIInv
<1>8. CASE MarkOnePage
      BY <1>8, MarkOnePageKeepsIInv
<1>9. CASE UNCHANGED vars
      BY <1>9, StutterKeepsIInv
<1> QED BY <1>1, <1>2, <1>3, <1>4, <1>5, <1>6, <1>7, <1>8, <1>9 DEF Next

(* The search of PageAlloc is first fit and marks only free pages, for a   *)
(* bitmap of any size and whatever it holds at the start, bytes of any     *)
(* width and requests of any length.                                       *)
THEOREM ScanIsFirstFit ==
    Spec => [](NothingSkipped /\ CountIsRunLength /\ MarksFreePages)
<1>1. IInv => NothingSkipped /\ CountIsRunLength /\ MarksFreePages
      BY DEF IInv
<1> QED BY InitIInv, NextKeepsIInv, <1>1, PTL DEF Spec

(* The byte and the mask through which the bitmap is stored to and the     *)
(* index of the page-table entry always are those of one page: a page is   *)
(* mapped exactly when it is taken, but for the bits found set at the start*)
(* whose pages nobody has released.                                        *)
THEOREM ScanMapsWhatItTakes == Spec => []MappedIffTaken
<1>1. IInv => MappedIffTaken
      BY DEF IInv, TablesAgree
<1> QED BY InitIInv, NextKeepsIInv, <1>1, PTL DEF Spec

-----------------------------------------------------------------------------
(***************************************************************************)
(* PageScan implements PageFrames.  For this the search has to know more   *)
(* than that it skipped no run: which pages it has seen taken, and that a  *)
(* run that has left the bitmap has left it over a free last page.         *)
(***************************************************************************)
RunStart == IF pc = "run" THEN Bit(i, j) ELSE start

(* What the two searches have read so far.                                 *)
SearchKnows ==
    /\ pc \in {"first", "run", "count"} => status = "ok"
    /\ pc = "first" => \A p \in PagesOfArena : p < Bit(i, j) => bits[p]
    /\ pc \in {"run", "count"} =>
           /\ numberOfPages >= 2
           /\ RunStart \in 1 .. Pages => bits[RunStart - 1]
           /\ i >= Bytes => ~bits[Pages - 1]

(* What the marking loop has done so far.                                  *)
MarkedSoFar ==
    pc = "mark" =>
        \A p \in start .. start + pagesCounter - 1 :
            IF p \in PagesOfArena THEN bits[p] ELSE status = "corrupted"

RInv == IInv /\ SearchKnows /\ MarkedSoFar

(* A call that has returned, or has not begun, knows nothing.              *)
LEMMA IdleKnowsNothing == pc' = "idle" => SearchKnows' /\ MarkedSoFar'
BY DEF SearchKnows, MarkedSoFar

(* Nothing is marked when marking begins.                                  *)
LEMMA FoundMarksNothing ==
    ASSUME NEW first \in Int, FoundOne(first) \/ FoundRun(first)
    PROVE  SearchKnows' /\ MarkedSoFar'
BY DEF FoundOne, FoundRun, SearchKnows, MarkedSoFar

(* A search begins in front of every page.                                 *)
LEMMA RequestKeepsRInv ==
    ASSUME RInv, NEW n \in 0 .. MaxRequest, Request(n)
    PROVE  SearchKnows' /\ MarkedSoFar'
<1>1. pc = "idle" /\ i = 0 /\ j = 0 /\ Bit(i', j') = 0 /\ status' = "ok"
      /\ i' = 0
      BY ScanAssumption DEF RInv, IInv, Request, CounterBounded, Bit,
                            searchVars, tables
<1>2. numberOfPages' = n /\ pc' \in {"first", "run"}
      /\ (pc' = "run" => n >= 2)
      BY ScanAssumption DEF Request
<1>3. ~(i' >= Bytes)
      BY <1>1, ScanAssumption
<1>4. pc' = "run" => RunStart' = 0
      BY <1>1 DEF RunStart
<1>5. \A p \in PagesOfArena : ~(p < 0)
      BY PagesBounds DEF PagesOfArena
<1>6. Pages' = Pages /\ PagesOfArena' = PagesOfArena /\ bits' = bits
      BY TablesAsTheyAre DEF Pages, PagesOfArena, Request
<1> QED BY <1>1, <1>2, <1>3, <1>4, <1>5, <1>6, PagesBounds
        DEF SearchKnows, MarkedSoFar

(* The search for one page has seen every page behind it taken.            *)
LEMMA LookForOneKeepsRInv ==
    ASSUME RInv, LookForOne
    PROVE  SearchKnows' /\ MarkedSoFar'
<1>1. pc = "first" /\ UNCHANGED <<bits, present, status>>
      BY TablesAsTheyAre DEF LookForOne
<1>2. /\ i \in Nat /\ i <= Bytes /\ j \in 0 .. BITS_8 - 1 /\ Bytes \in Nat
      BY <1>1, PagesBounds, ScanAssumption
         DEF RInv, IInv, ScanTypeOK, CounterBounded
<1>3. CASE i = Bytes
      BY <1>3, IdleKnowsNothing DEF LookForOne, Return
<1>4. CASE i # Bytes /\ ~bits[Bit(i, j)]
  <2>1. FoundOne(Bit(i, j)) /\ Bit(i, j) \in Int
        BY <1>2, <1>4, BitArithmetic, ReadsBit DEF LookForOne
  <2> QED BY <2>1, FoundMarksNothing
<1>5. CASE i # Bytes /\ bits[Bit(i, j)]
  <2>1. /\ i' = IF j = BITS_8 - 1 THEN i + 1 ELSE i
        /\ j' = (j + 1) % BITS_8
        /\ pc' = "first"
        BY <1>1, <1>2, <1>5, ReadsBit DEF LookForOne
  <2>2. Bit(i', j') = Bit(i, j) + 1 /\ Bit(i, j) \in Nat
    <3>1. CASE j = BITS_8 - 1
      <4>1. j' = 0
            BY <2>1, <3>1, ScanAssumption
      <4> QED BY <1>2, <2>1, <3>1, <4>1, BitArithmetic
    <3>2. CASE j # BITS_8 - 1
      <4>1. j' = j + 1
            BY <1>2, <2>1, <3>2, ScanAssumption
      <4> QED BY <1>2, <2>1, <3>2, <4>1, BitArithmetic
    <3> QED BY <3>1, <3>2
  <2>3. \A p \in PagesOfArena : p < Bit(i, j) + 1 => bits[p]
    <3>1. \A p \in PagesOfArena : p < Bit(i, j) + 1 =>
              p < Bit(i, j) \/ p = Bit(i, j)
          BY <2>2, PagesBounds DEF PagesOfArena
    <3> QED BY <1>1, <1>5, <3>1 DEF RInv, SearchKnows
  <2> QED BY <1>1, <2>1, <2>2, <2>3
          DEF RInv, SearchKnows, MarkedSoFar, PagesOfArena, Pages
<1> QED BY <1>3, <1>4, <1>5

(* Beginning to count changes nothing that the search has read.            *)
LEMMA BeginRunKeepsRInv ==
    ASSUME RInv, BeginRun
    PROVE  SearchKnows' /\ MarkedSoFar'
<1>1. pc = "run" /\ pc' = "count" /\ start' = Bit(i, j)
      /\ UNCHANGED <<bits, status, numberOfPages, i>>
      BY TablesAsTheyAre DEF BeginRun
<1>2. RunStart' = RunStart
      BY <1>1 DEF RunStart
<1> QED BY <1>1, <1>2 DEF RInv, SearchKnows, MarkedSoFar, Pages

(* The byte behind the bitmap is entered over a free last page.            *)
LEMMA CountPageKeepsRInv ==
    ASSUME RInv, CountPage
    PROVE  SearchKnows' /\ MarkedSoFar'
<1>1. pc = "count" /\ UNCHANGED <<bits, status>>
      BY TablesAsTheyAre DEF CountPage
<1>2. CASE pc' = "idle"
      BY <1>2, IdleKnowsNothing
<1>3. CASE pc' # "idle"
  <2>1. pc' = "count" /\ UNCHANGED <<numberOfPages, start>>
        /\ (i' = i \/ (j' = 0 /\ i' = i + 1 /\ ~(j < BITS_8 - 1)))
        BY <1>1, <1>3 DEF CountPage, Return
  <2>2. RunStart' = RunStart
        BY <1>1, <2>1 DEF RunStart
  <2>3. i' >= Bytes => ~bits[Pages - 1]
    <3>1. CASE i' = i
          BY <1>1, <3>1 DEF RInv, SearchKnows
    <3>2. CASE i >= Bytes
          BY <1>1, <3>2 DEF RInv, SearchKnows
    <3>3. CASE i' = i + 1 /\ ~(j < BITS_8 - 1) /\ ~(i >= Bytes)
      <4> SUFFICES ASSUME i' >= Bytes PROVE ~bits[Pages - 1]
          OBVIOUS
      <4>1. i \in Nat /\ j \in 0 .. BITS_8 - 1 /\ BITS_8 \in Nat
            /\ Bytes \in Nat
            BY <1>1, CountFacts, ScanAssumption DEF RInv
      <4>2. i + 1 = Bytes /\ j = BITS_8 - 1
            BY <3>3, <4>1
      <4>3. Bit(i, j) + 1 = Bit(i + 1, 0)
            BY <4>1, <4>2, BitArithmetic
      <4>4. Bit(i + 1, 0) = Pages
        <5>1. Bytes * BITS_8 \in Nat
              BY <4>1
        <5> QED BY <4>2, <5>1 DEF Bit, Pages
      <4>5. Bit(i, j) = Pages - 1
        <5>1. Bit(i, j) \in Int
              BY <4>1, BitArithmetic
        <5> QED BY <4>3, <4>4, <5>1, PagesBounds
      <4>6. ~bits[Bit(i, j)]
        <5>1. i < Bytes
              BY <3>3, <4>1
        <5>2. BitRead = {IsSet(i, j)}
              BY <5>1 DEF BitRead
        <5> QED BY <4>1, <5>1, <5>2, ReadsBit DEF CountPage
      <4> QED BY <4>5, <4>6
    <3> QED BY <2>1, <3>1, <3>2, <3>3
  <2> QED BY <1>1, <2>1, <2>2, <2>3 DEF RInv, SearchKnows, MarkedSoFar, Pages
<1> QED BY <1>2, <1>3

(* The page at which a run is given up is taken.                           *)
LEMMA EndRunKeepsRInv ==
    ASSUME RInv, EndRun
    PROVE  SearchKnows' /\ MarkedSoFar'
<1>1. pc = "count" /\ UNCHANGED <<bits, status>>
      BY TablesAsTheyAre DEF EndRun
<1>2. CASE pc' = "idle"
      BY <1>2, IdleKnowsNothing
<1>3. CASE pagesCounter = numberOfPages
  <2>1. FoundRun(start) /\ start \in Int
        BY <1>1, <1>3, CountFacts DEF EndRun, RInv
  <2> QED BY <2>1, FoundMarksNothing
<1>4. CASE pc' # "idle" /\ pagesCounter # numberOfPages
  <2>0. /\ i \in Nat /\ j \in 0 .. BITS_8 - 1 /\ BITS_8 \in Nat
        /\ Bit(i, j) \in Nat /\ Bytes \in Nat
        /\ Bit(i, j) \in PagesOfArena <=> i < Bytes
        BY <1>1, CountFacts, ScanAssumption DEF RInv
  <2>1. pc' = "run" /\ numberOfPages' = numberOfPages
        /\ (\/ j' = j + 1 /\ i' = i /\ j < BITS_8 - 1
            \/ j' = 0 /\ i' = i + 1 /\ ~(j < BITS_8 - 1) /\ i + 1 < Bytes)
        BY <1>1, <1>4 DEF EndRun, NextRun, Return
  <2>2. Bit(i', j') = Bit(i, j) + 1
    <3>1. CASE j' = j + 1 /\ i' = i
          BY <2>0, <3>1, BitArithmetic
    <3>2. CASE j' = 0 /\ i' = i + 1 /\ ~(j < BITS_8 - 1)
      <4>1. j = BITS_8 - 1
            BY <2>0, <3>2
      <4> QED BY <2>0, <3>2, <4>1, BitArithmetic
    <3> QED BY <2>1, <3>1, <3>2
  <2>3. RunStart' = Bit(i, j) + 1
        BY <2>1, <2>2 DEF RunStart
  <2>4. ASSUME Bit(i, j) + 1 \in 1 .. Pages
        PROVE  bits[Bit(i, j)]
    <3>1. Bit(i, j) \in PagesOfArena
          BY <2>0, <2>4, PagesBounds DEF PagesOfArena
    <3>2. BitRead = {IsSet(i, j)}
          BY <2>0, <3>1 DEF BitRead
    <3> QED BY <1>4, <2>0, <3>1, <3>2, ReadsBit DEF EndRun
  <2>5. i' >= Bytes => i' = i
        BY <2>0, <2>1
  <2>6. (Bit(i, j) + 1) - 1 = Bit(i, j)
        BY <2>0
  <2>7. RunStart' \in 1 .. Pages => bits[RunStart' - 1]
        BY <2>3, <2>4, <2>6
  <2>8. Pages' = Pages
        BY DEF Pages
  <2>9. /\ numberOfPages >= 2 /\ status = "ok"
        /\ i >= Bytes => ~bits[Pages - 1]
        BY <1>1 DEF RInv, SearchKnows
  <2> QED BY <1>1, <2>1, <2>5, <2>7, <2>8, <2>9 DEF SearchKnows, MarkedSoFar
<1> QED BY <1>2, <1>3, <1>4

(* Each iteration marks a page, or stores outside the tables.              *)
LEMMA MarkPageKeepsRInv ==
    ASSUME RInv, MarkPage
    PROVE  SearchKnows' /\ MarkedSoFar'
<1>1. pc = "mark" /\ TablesTyped
      BY DEF MarkPage, RInv, IInv, ScanTypeOK, TablesTyped
<1>2. CASE pagesCounter = numberOfPages
      BY <1>2, IdleKnowsNothing DEF MarkPage, Return
<1>3. CASE pagesCounter # numberOfPages
  <2>1. PICK page \in Nat :
            /\ page = start + pagesCounter
            /\ Mark(page \div BITS_8, MaskOf(page), page)
        BY <1>3, MarkPageFacts DEF RInv
  <2>2. /\ start \in Nat /\ pagesCounter \in Nat
        /\ pagesCounter' = pagesCounter + 1
        /\ UNCHANGED <<pc, numberOfPages, i, j, start>>
        BY <1>3, MarkPageFacts DEF RInv
  <2>3. IF page \in PagesOfArena
        THEN bits' = [bits EXCEPT ![page] = TRUE] /\ status' = status
        ELSE status' = "corrupted" /\ bits' = bits
        BY <1>1, <2>1, MarksPage
  <2>4. ASSUME NEW p \in start .. start + pagesCounter
        PROVE  IF p \in PagesOfArena THEN bits'[p] ELSE status' = "corrupted"
    <3>1. p = page \/ p \in start .. start + pagesCounter - 1
          BY <2>1, <2>2
    <3> QED BY <1>1, <2>3, <3>1, BitsAreTyped DEF RInv, MarkedSoFar
  <2>5. start' + pagesCounter' - 1 = start + pagesCounter
        BY <2>2
  <2>6. PagesOfArena' = PagesOfArena
        BY DEF PagesOfArena, Pages
  <2> QED BY <1>1, <2>2, <2>4, <2>5, <2>6 DEF SearchKnows, MarkedSoFar
<1> QED BY <1>2, <1>3
-----------------------------------------------------------------------------
(***************************************************************************)
(* The mapped state: what a caller of the page allocator can see.          *)
(***************************************************************************)
SeenBits ==
    [p \in PagesOfArena |-> bits[p] \/ (Marking /\ p \in PagesFound)]
SeenStatus ==
    IF Marking /\ ~(PagesFound \subseteq PagesOfArena)
    THEN "corrupted" ELSE status

(* The mapped variables, by name.                                          *)
LEMMA SeenVars == Abstract!frameVars = <<SeenBits, SeenStatus>>
BY DEF Abstract!frameVars, SeenBits, SeenStatus

(* Outside the marking of pages the bitmap is seen as it is.               *)
LEMMA SeenAsIs ==
    ~Marking => SeenBits = bits /\ SeenStatus = status
<1> SUFFICES ASSUME ~Marking PROVE SeenBits = bits /\ SeenStatus = status
    OBVIOUS
<1>1. \A p \in PagesOfArena : SeenBits[p] = bits[p]
      BY BitsAreTyped DEF SeenBits
<1>2. SeenBits = bits
      BY <1>1, BitsAreTyped DEF SeenBits
<1> QED BY <1>2 DEF SeenStatus

(* A step of a search that finds nothing yet is not seen.                  *)
LEMMA SearchIsNotSeen ==
    ASSUME ~Marking, (~Marking)', UNCHANGED tables
    PROVE  UNCHANGED Abstract!frameVars
<1>1. SeenBits = bits /\ SeenStatus = status
      BY SeenAsIs
<1>2. (SeenBits = bits /\ SeenStatus = status)'
      BY SeenAsIs, PTL
<1>3. UNCHANGED <<bits, status>>
      BY TablesAsTheyAre
<1> QED BY <1>1, <1>2, <1>3, SeenVars
           DEF Abstract!frameVars, SeenBits, SeenStatus

(* PageFree is PageFree.                                                   *)
LEMMA PageFreeIsPageFree ==
    ASSUME RInv, NEW page \in 0 .. Pages, PageFree(page)
    PROVE  Abstract!PageFree(page)
<1>1. ~Marking /\ status = "ok" /\ (~Marking)' /\ page \in Nat
      BY PagesBounds DEF PageFree, Marking
<1>2. SeenBits = bits /\ SeenStatus = status
      BY <1>1, SeenAsIs
<1>3. (SeenBits = bits /\ SeenStatus = status)'
      BY <1>1, SeenAsIs, PTL
<1>4. TablesTyped
      BY DEF RInv, IInv, ScanTypeOK, TablesTyped
<1>5. IF page \in PagesOfArena
      THEN bits' = [bits EXCEPT ![page] = FALSE] /\ status' = status
      ELSE status' = "corrupted" /\ bits' = bits
      BY <1>1, <1>4, ClearsPage DEF PageFree
<1>6. IF page \in PagesOfArena
      THEN SeenBits' = [SeenBits EXCEPT ![page] = FALSE]
           /\ SeenStatus' = SeenStatus
      ELSE SeenStatus' = "corrupted" /\ SeenBits' = SeenBits
      BY <1>2, <1>3, <1>5
<1> QED BY <1>1, <1>2, <1>6
           DEF Abstract!PageFree, Abstract!ReleasePage, Abstract!Frames,
               SeenBits, SeenStatus, PagesOfArena

(* The runs of free pages that the abstract search may answer.             *)
LEMMA SeenRuns ==
    ASSUME ~Marking, NEW n \in Int
    PROVE  /\ Abstract!FreeRuns(n) = {s \in PagesOfArena : IsFreeRun(s, n)}
           /\ Abstract!TrailingRuns =
                {s \in PagesOfArena : IsFreeRun(s, Pages - s)}
<1>1. SeenBits = bits
      BY SeenAsIs
<1>2. ASSUME NEW s \in PagesOfArena, NEW k \in Int
      PROVE  Abstract!IsFreeRun(s, k) <=> IsFreeRun(s, k)
  <2>1. Abstract!IsFreeRun(s, k) <=>
            \A p \in s .. s + k - 1 : p \in PagesOfArena /\ ~SeenBits[p]
        BY DEF Abstract!IsFreeRun, Abstract!Frames, SeenBits, PagesOfArena
  <2> QED BY <1>1, <2>1 DEF IsFreeRun
<1>3. Abstract!Frames = PagesOfArena
      BY DEF Abstract!Frames, PagesOfArena
<1>4. Abstract!FreeRuns(n) = {s \in PagesOfArena : IsFreeRun(s, n)}
      BY <1>2, <1>3 DEF Abstract!FreeRuns
<1>5. \A s \in PagesOfArena : Pages - s \in Int
      BY PagesBounds DEF PagesOfArena
<1>6. Abstract!TrailingRuns = {s \in PagesOfArena : IsFreeRun(s, Pages - s)}
      BY <1>2, <1>3, <1>5 DEF Abstract!TrailingRuns
<1> QED BY <1>4, <1>6

(* Min of a set is the member that no other member is below.               *)
LEMMA LeastIsMin ==
    ASSUME NEW S \in SUBSET Int, NEW x \in S, \A y \in S : x <= y
    PROVE  Abstract!Min(S) = x
<1>1. Abstract!Min(S) \in S /\ \A y \in S : Abstract!Min(S) <= y
      BY DEF Abstract!Min
<1>2. /\ Abstract!Min(S) <= x /\ x <= Abstract!Min(S)
      /\ Abstract!Min(S) \in Int /\ x \in Int
      BY <1>1
<1> QED BY <1>2

(* When a search has succeeded, the pages it has found are seen taken, in  *)
(* one step.  An answer behind the bitmap stands for every other one.      *)
LEMMA FoundIsPageAlloc ==
    ASSUME ~Marking, status = "ok", NEW first \in Nat,
           FoundOne(first) \/ FoundRun(first), UNCHANGED tables,
           NEW n \in Nat \ {0}, n = numberOfPages,
           NEW answer \in Abstract!Answers(n),
           answer = first \/ (answer = Pages /\ first >= Pages)
    PROVE  Abstract!PageAlloc(n)
<1> DEFINE taken == answer .. answer + n - 1
<1>1. SeenBits = bits /\ SeenStatus = status /\ UNCHANGED <<bits, status>>
      BY SeenAsIs, TablesAsTheyAre
<1>2. Marking' /\ PagesFound' = first .. first + n - 1
      BY DEF FoundOne, FoundRun, Marking, PagesFound
<1>3. \A p \in PagesOfArena :
          p \in taken <=> p \in first .. first + n - 1
      BY PagesBounds DEF PagesOfArena
<1>4. taken \subseteq PagesOfArena <=>
          first .. first + n - 1 \subseteq PagesOfArena
  <2>1. CASE answer = first
        BY <2>1
  <2>2. CASE answer = Pages /\ first >= Pages
    <3>1. first \in first .. first + n - 1 /\ answer \in taken
          BY <2>2, PagesBounds
    <3>2. first \notin PagesOfArena /\ answer \notin PagesOfArena
          BY <2>2, PagesBounds DEF PagesOfArena
    <3> QED BY <3>1, <3>2
  <2> QED BY <2>1, <2>2
<1>5. PagesOfArena' = PagesOfArena
      BY DEF PagesOfArena, Pages
<1> HIDE DEF taken
<1>6. SeenBits' = [p \in PagesOfArena |-> p \in taken \/ SeenBits[p]]
      BY <1>1, <1>2, <1>3, <1>5 DEF SeenBits
<1>8. SeenStatus' =
          IF taken \subseteq PagesOfArena THEN SeenStatus ELSE "corrupted"
      BY <1>1, <1>2, <1>4, <1>5 DEF SeenStatus
<1>9. Abstract!NoPage = -1 /\ answer # -1
      BY PagesBounds DEF Abstract!NoPage
<1>10. Abstract!TakePages(answer, n)
      BY <1>6, <1>8, <1>9
         DEF Abstract!TakePages, Abstract!Frames, SeenBits, SeenStatus,
             PagesOfArena, taken
<1>11. SeenStatus = "ok"
      BY <1>1
<1> QED BY <1>10, <1>11 DEF Abstract!PageAlloc, SeenStatus

(* GetFirstFreePageNumber finds the first free page, or none.              *)
LEMMA LookForOneIsPageAlloc ==
    ASSUME RInv, RInv', LookForOne
    PROVE  \/ \E n \in 0 .. MaxRequest : Abstract!PageAlloc(n)
           \/ UNCHANGED Abstract!frameVars
<1>1. pc = "first" /\ status = "ok" /\ numberOfPages = 1
      /\ UNCHANGED tables /\ ~Marking
      BY DEF LookForOne, RInv, IInv, CounterBounded, SearchKnows, Marking
<1>2. /\ i \in 0 .. Bytes /\ j \in 0 .. BITS_8 - 1 /\ Bytes \in Nat
      /\ MaxRequest >= 1
      BY <1>1, PagesBounds, ScanAssumption
         DEF RInv, IInv, ScanTypeOK, CounterBounded
<1>3. CASE i # Bytes /\ ~bits[Bit(i, j)]
  <2>1. FoundOne(Bit(i, j))
        BY <1>2, <1>3, ReadsBit DEF LookForOne
  <2>2. Bit(i, j) \in PagesOfArena /\ Bit(i, j) \in Nat
        BY <1>2, <1>3, BitArithmetic
  <2>3. PICK first \in Nat : first = Bit(i, j)
        BY <2>2
  <2>4. \A p \in PagesOfArena : p < first => bits[p]
        BY <1>1, <2>3 DEF RInv, SearchKnows
  <2>5. \A s \in PagesOfArena : IsFreeRun(s, 1) <=> ~bits[s]
        BY PagesBounds DEF IsFreeRun, PagesOfArena
  <2>6. PICK S : S = {s \in PagesOfArena : IsFreeRun(s, 1)}
        OBVIOUS
  <2>7. /\ S \in SUBSET Int /\ first \in S
        /\ \A s \in S : first <= s
        BY <1>3, <2>2, <2>3, <2>4, <2>5, <2>6, PagesBounds DEF PagesOfArena
  <2>8. Abstract!FreeRuns(1) = S /\ Abstract!Min(S) = first
        BY <1>1, <2>6, <2>7, SeenRuns, LeastIsMin
  <2>9. first \in Abstract!Answers(1)
        BY <2>7, <2>8 DEF Abstract!Answers, Abstract!GetFirstFreePageNumber
  <2>10. Abstract!PageAlloc(1)
        BY <1>1, <2>1, <2>3, <2>9, FoundIsPageAlloc
  <2>11. 1 \in 0 .. MaxRequest
        BY <1>2, ScanAssumption
  <2> QED BY <2>10, <2>11
<1>4. CASE ~(i # Bytes /\ ~bits[Bit(i, j)])
  <2>1. (~Marking)'
    <3>1. i = Bytes \/ IsSet(i, j)
          BY <1>2, <1>4, ReadsBit
    <3> QED BY <1>1, <3>1 DEF LookForOne, Return, Marking
  <2> QED BY <1>1, <2>1, SearchIsNotSeen
<1> QED BY <1>3, <1>4

(* GetFreePagesNumberStart finds the first free run that is long enough,   *)
(* or leaves the bitmap over the free pages at its end.                    *)
LEMMA EndRunIsPageAlloc ==
    ASSUME RInv, RInv', EndRun
    PROVE  \/ \E n \in 0 .. MaxRequest : Abstract!PageAlloc(n)
           \/ UNCHANGED Abstract!frameVars
<1>1. pc = "count" /\ status = "ok" /\ numberOfPages >= 2
      /\ UNCHANGED tables /\ ~Marking
      BY DEF EndRun, RInv, SearchKnows, Marking
<1>2. CASE pagesCounter # numberOfPages
  <2>1. (~Marking)'
        BY <1>1, <1>2 DEF EndRun, NextRun, Return, Marking
  <2> QED BY <1>1, <2>1, SearchIsNotSeen
<1>3. CASE pagesCounter = numberOfPages
  <2>1. FoundRun(start)
        BY <1>3 DEF EndRun
  <2>2. PICK n \in 0 .. MaxRequest : n = numberOfPages
        BY DEF RInv, IInv, ScanTypeOK
  <2>3. PICK first \in Nat : first = start
        BY <1>1, CountFacts DEF RInv
  <2>4. first + n = Bit(i, j) /\ n >= 2 /\ n \in Nat
        BY <1>1, <1>3, <2>2, <2>3, CountFacts, ScanAssumption DEF RInv
  <2>5. \A p \in first .. first + n - 1 : p \in PagesOfArena => ~bits[p]
        BY <1>1, <1>3, <2>2, <2>3 DEF RInv, IInv, CountIsRunLength
  <2>6. \A p \in PagesOfArena : p < first => ~IsFreeRun(p, n)
        BY <1>1, <2>2, <2>3 DEF RInv, IInv, NothingSkipped
  <2>7. PICK runs : runs = {s \in PagesOfArena : IsFreeRun(s, n)}
        OBVIOUS
  <2>8. PICK tails : tails = {s \in PagesOfArena : IsFreeRun(s, Pages - s)}
        OBVIOUS
  <2>9. Abstract!FreeRuns(n) = runs /\ Abstract!TrailingRuns = tails
        BY <1>1, <2>2, <2>7, <2>8, SeenRuns
  <2>10. runs \in SUBSET Int /\ tails \in SUBSET Int
         BY <2>7, <2>8, PagesBounds DEF PagesOfArena
  <2>11. ASSUME NEW answer \in Abstract!GetFreePagesNumberStart(n),
                answer = first \/ (answer = Pages /\ first >= Pages)
         PROVE  Abstract!PageAlloc(n)
    <3>1. answer \in Abstract!Answers(n)
          BY <2>4, <2>11 DEF Abstract!Answers
    <3> QED BY <1>1, <2>1, <2>2, <2>3, <2>4, <2>11, <3>1, FoundIsPageAlloc
  <2>12. CASE first + n <= Pages
    <3>1. first \in runs
      <4>1. \A p \in first .. first + n - 1 : p \in PagesOfArena
            BY <2>2, <2>12, PagesBounds DEF PagesOfArena
      <4>2. first \in PagesOfArena
            BY <2>4, <2>12, PagesBounds DEF PagesOfArena
      <4> QED BY <2>5, <2>7, <4>1, <4>2 DEF IsFreeRun
    <3>2. \A s \in runs : first <= s
          BY <2>6, <2>7, PagesBounds DEF PagesOfArena
    <3>3. Abstract!Min(runs) = first
          BY <2>10, <3>1, <3>2, LeastIsMin
    <3>4. first \in Abstract!GetFreePagesNumberStart(n)
          BY <2>9, <3>1, <3>3 DEF Abstract!GetFreePagesNumberStart
    <3> QED BY <2>11, <3>4
  <2>13. CASE ~(first + n <= Pages)
    <3>1. ASSUME NEW s \in PagesOfArena, s >= first
          PROVE  ~IsFreeRun(s, n)
      <4>1. s + n - 1 \in s .. s + n - 1 /\ s + n - 1 \notin PagesOfArena
            BY <2>4, <2>13, <3>1, PagesBounds DEF PagesOfArena
      <4> QED BY <4>1 DEF IsFreeRun
    <3>2. runs = {}
          BY <2>6, <2>7, <3>1, PagesBounds DEF PagesOfArena
    <3>3. Pages >= 1 /\ Pages \in Nat
          BY PagesBounds, ScanAssumption
    <3>4. CASE first < Pages
      <4>1. first \in tails
        <5>1. \A p \in first .. first + (Pages - first) - 1 :
                  p \in PagesOfArena /\ p \in first .. first + n - 1
              BY <2>13, <3>3 DEF PagesOfArena
        <5>2. first \in PagesOfArena
              BY <3>4, <3>3 DEF PagesOfArena
        <5> QED BY <2>5, <2>8, <5>1, <5>2 DEF IsFreeRun
      <4>2. ASSUME NEW s \in tails PROVE first <= s
        <5> SUFFICES ASSUME s < first PROVE FALSE
            BY <2>10
        <5>1. s \in PagesOfArena /\ IsFreeRun(s, Pages - s) /\ s \in Nat
              BY <2>8, PagesBounds DEF PagesOfArena
        <5>2. RunStart = first /\ first \in 1 .. Pages
              BY <1>1, <2>3, <3>4, <3>3, <5>1 DEF RunStart
        <5>3. bits[first - 1]
              BY <1>1, <5>2 DEF RInv, SearchKnows
        <5>4. first - 1 \in s .. s + (Pages - s) - 1
              BY <3>4, <3>3, <5>1
        <5> QED BY <5>1, <5>3, <5>4 DEF IsFreeRun
      <4>3. Abstract!Min(tails) = first
            BY <2>10, <4>1, <4>2, LeastIsMin
      <4>4. first \in Abstract!GetFreePagesNumberStart(n)
            BY <2>9, <3>2, <4>1, <4>3 DEF Abstract!GetFreePagesNumberStart
      <4> QED BY <2>11, <4>4
    <3>5. CASE ~(first < Pages)
      <4>1. i >= Bytes
        <5>1. Bit(i, j) \notin PagesOfArena /\ i \in Nat
              /\ (Bit(i, j) \in PagesOfArena <=> i < Bytes)
              BY <1>1, <2>4, <3>5, <3>3, CountFacts DEF RInv, PagesOfArena
        <5> QED BY <5>1, ScanAssumption
      <4>2. ~bits[Pages - 1]
            BY <1>1, <4>1 DEF RInv, SearchKnows
      <4>3. Pages - 1 \in tails
        <5>1. Pages - 1 \in PagesOfArena
              BY <3>3 DEF PagesOfArena
        <5>2. \A p \in Pages - 1 .. Pages - 1 + (Pages - (Pages - 1)) - 1 :
                  p = Pages - 1
              BY <3>3
        <5> QED BY <2>8, <4>2, <5>1, <5>2 DEF IsFreeRun
      <4>4. Pages \in Abstract!GetFreePagesNumberStart(n)
            BY <2>9, <3>2, <4>3 DEF Abstract!GetFreePagesNumberStart
      <4> QED BY <2>11, <3>5, <3>3, <4>4
    <3> QED BY <3>4, <3>5
  <2> QED BY <2>12, <2>13
<1> QED BY <1>2, <1>3


(* The pages of a request are seen taken while they are being marked.      *)
LEMMA SeenWhileMarking ==
    ASSUME Marking, NEW found, found = PagesFound
    PROVE  /\ SeenBits = [p \in PagesOfArena |-> bits[p] \/ p \in found]
           /\ SeenStatus =
                IF found \subseteq PagesOfArena THEN status ELSE "corrupted"
BY DEF SeenBits, SeenStatus

(* The marking of one page is not seen: it was seen taken when it was found.*)
LEMMA MarkOnePageIsNotSeen ==
    ASSUME RInv, MarkOnePage
    PROVE  UNCHANGED Abstract!frameVars
<1>1. /\ pc = "one" /\ Marking /\ (~Marking)' /\ TablesTyped
      /\ start \in PagesOfArena /\ start \in Nat /\ numberOfPages = 1
      BY PagesBounds
         DEF MarkOnePage, Return, Marking, RInv, IInv, ScanTypeOK, TablesTyped,
             MarksFreePages, CounterBounded, PagesOfArena
<1>2. bits' = [bits EXCEPT ![start] = TRUE] /\ status' = status
      BY <1>1, MarksPage DEF MarkOnePage
<1>3. (SeenBits = bits /\ SeenStatus = status)'
      BY <1>1, SeenAsIs, PTL
<1>4. PICK found : found = PagesFound
      OBVIOUS
<1>5. \A p : p \in found <=> p = start
      BY <1>1, <1>4 DEF PagesFound
<1>6. /\ SeenBits = [p \in PagesOfArena |-> bits[p] \/ p \in found]
      /\ SeenStatus =
           IF found \subseteq PagesOfArena THEN status ELSE "corrupted"
      BY <1>1, <1>4, SeenWhileMarking
<1>7. SeenBits = bits' /\ SeenStatus = status'
      BY <1>1, <1>2, <1>5, <1>6, BitsAreTyped
<1> QED BY <1>3, <1>7 DEF Abstract!frameVars, SeenBits, SeenStatus

(* The loop that marks the pages is not seen: its pages were seen taken    *)
(* when it began, and all of them are taken when it ends.                  *)
LEMMA MarkPageIsNotSeen ==
    ASSUME RInv, MarkPage
    PROVE  UNCHANGED Abstract!frameVars
<1>1. pc = "mark" /\ Marking /\ TablesTyped
      BY DEF MarkPage, Marking, RInv, IInv, ScanTypeOK, TablesTyped
<1>2. PICK found : found = PagesFound
      OBVIOUS
<1>3. /\ SeenBits = [p \in PagesOfArena |-> bits[p] \/ p \in found]
      /\ SeenStatus =
           IF found \subseteq PagesOfArena THEN status ELSE "corrupted"
      BY <1>1, <1>2, SeenWhileMarking
<1>4. CASE pagesCounter = numberOfPages
  <2>1. (~Marking)' /\ UNCHANGED <<bits, status>>
        BY <1>4, TablesAsTheyAre DEF MarkPage, Return, Marking
  <2>2. (SeenBits = bits /\ SeenStatus = status)'
        BY <2>1, SeenAsIs, PTL
  <2>3. \A p \in found :
            IF p \in PagesOfArena THEN bits[p] ELSE status = "corrupted"
        BY <1>1, <1>2, <1>4 DEF PagesFound, RInv, MarkedSoFar
  <2>4. SeenBits = bits
        BY <1>3, <2>3, BitsAreTyped
  <2>5. SeenStatus = status
        BY <1>3, <2>3
  <2> QED BY <2>1, <2>2, <2>4, <2>5
             DEF Abstract!frameVars, SeenBits, SeenStatus
<1>5. CASE pagesCounter # numberOfPages
  <2>1. PICK page \in Nat :
            /\ page = start + pagesCounter
            /\ Mark(page \div BITS_8, MaskOf(page), page)
        BY <1>5, MarkPageFacts DEF RInv
  <2>2. /\ start \in Nat /\ pagesCounter \in Nat /\ numberOfPages \in Nat
        /\ pagesCounter < numberOfPages
        /\ UNCHANGED <<pc, numberOfPages, i, j, start>>
        BY <1>5, MarkPageFacts DEF RInv
  <2>3. Marking' /\ found = PagesFound' /\ PagesOfArena' = PagesOfArena
        BY <1>1, <1>2, <2>2 DEF Marking, PagesFound, PagesOfArena, Pages
  <2>4. page \in found
        BY <1>2, <2>1, <2>2 DEF PagesFound
  <2>5. IF page \in PagesOfArena
        THEN bits' = [bits EXCEPT ![page] = TRUE] /\ status' = status
        ELSE status' = "corrupted" /\ bits' = bits
        BY <1>1, <2>1, MarksPage
  <2>6. /\ SeenBits' = [p \in PagesOfArena |-> bits'[p] \/ p \in found]
        /\ SeenStatus' =
             IF found \subseteq PagesOfArena THEN status' ELSE "corrupted"
        BY <2>3 DEF SeenBits, SeenStatus
  <2>7. SeenBits' = SeenBits /\ SeenStatus' = SeenStatus
        BY <1>3, <2>4, <2>5, <2>6, BitsAreTyped
  <2> QED BY <2>7 DEF Abstract!frameVars, SeenBits, SeenStatus
<1> QED BY <1>4, <1>5

(* The loops of PageAlloc implement the single steps of PageFrames: a      *)
(* request is answered with the first free run that is long enough, its    *)
(* pages are taken at once as far as a caller can see, and nothing else is.*)
(* This holds for a bitmap of any size and whatever it holds at the start, *)
(* bytes of any width and requests of any length.                          *)
THEOREM ScanImplementsPageFrames == Spec => ImplementsPageFrames
<1>1. Init => RInv
      BY InitIInv, IdleKnowsNothing
         DEF Init, RInv, SearchKnows, MarkedSoFar
<1>2. IInv /\ [Next]_vars => IInv'
      BY NextKeepsIInv
<1>3. RInv /\ [Next]_vars => RInv'
  <2> SUFFICES ASSUME RInv, [Next]_vars PROVE SearchKnows' /\ MarkedSoFar'
      BY <1>2 DEF RInv
  <2>1. ASSUME NEW n \in 0 .. MaxRequest, Request(n)
        PROVE  SearchKnows' /\ MarkedSoFar'
        BY <2>1, RequestKeepsRInv
  <2>2. ASSUME NEW page \in 0 .. Pages, PageFree(page)
        PROVE  SearchKnows' /\ MarkedSoFar'
        BY <2>2, IdleKnowsNothing DEF PageFree
  <2>3. CASE LookForOne
        BY <2>3, LookForOneKeepsRInv
  <2>4. CASE BeginRun
        BY <2>4, BeginRunKeepsRInv
  <2>5. CASE CountPage
        BY <2>5, CountPageKeepsRInv
  <2>6. CASE EndRun
        BY <2>6, EndRunKeepsRInv
  <2>7. CASE MarkPage
        BY <2>7, MarkPageKeepsRInv
  <2>8. CASE MarkOnePage
        BY <2>8, IdleKnowsNothing DEF MarkOnePage, Return
  <2>9. CASE UNCHANGED vars
    <3>1. UNCHANGED <<bits, status, pc, numberOfPages, searchVars>>
          BY <2>9, TablesAsTheyAre DEF vars
    <3> QED BY <3>1 DEF RInv, searchVars, SearchKnows, MarkedSoFar, RunStart,
                        Bit, PagesOfArena, Pages
  <2> QED BY <2>1, <2>2, <2>3, <2>4, <2>5, <2>6, <2>7, <2>8, <2>9 DEF Next
<1>4. Init => Abstract!FramesInit
  <2> SUFFICES ASSUME Init PROVE Abstract!FramesInit
      OBVIOUS
  <2>1. SeenBits = bits /\ SeenStatus = status /\ status = "ok"
        BY SeenAsIs DEF Init, Marking
  <2> QED BY <2>1, BitsAreTyped
          DEF Abstract!FramesInit, Abstract!Frames, PagesOfArena, SeenBits,
              SeenStatus
<1>5. RInv /\ RInv' /\ [Next]_vars
          => [Abstract!FramesNext]_(Abstract!frameVars)
  <2> SUFFICES ASSUME RInv, RInv', [Next]_vars
               PROVE  Abstract!FramesNext \/ UNCHANGED Abstract!frameVars
      OBVIOUS
  <2>1. ASSUME NEW n \in 0 .. MaxRequest, Request(n)
        PROVE  UNCHANGED Abstract!frameVars
        BY <2>1, SearchIsNotSeen DEF Request, Marking
  <2>2. ASSUME NEW page \in 0 .. Pages, PageFree(page)
        PROVE  Abstract!FramesNext
        BY <2>2, PageFreeIsPageFree DEF Abstract!FramesNext
  <2>3. CASE LookForOne
        BY <2>3, LookForOneIsPageAlloc DEF Abstract!FramesNext
  <2>4. CASE BeginRun
        BY <2>4, SearchIsNotSeen DEF BeginRun, Marking
  <2>5. CASE CountPage
        BY <2>5, SearchIsNotSeen DEF CountPage, Return, Marking
  <2>6. CASE EndRun
        BY <2>6, EndRunIsPageAlloc DEF Abstract!FramesNext
  <2>7. CASE MarkPage
        BY <2>7, MarkPageIsNotSeen
  <2>8. CASE MarkOnePage
        BY <2>8, MarkOnePageIsNotSeen
  <2>9. CASE UNCHANGED vars
    <3>1. UNCHANGED <<bits, status, pc, numberOfPages, start>>
          BY <2>9, TablesAsTheyAre DEF vars, searchVars
    <3> QED BY <3>1 DEF Abstract!frameVars, Marking, PagesFound, PagesOfArena,
                        Pages
  <2> QED BY <2>1, <2>2, <2>3, <2>4, <2>5, <2>6, <2>7, <2>8, <2>9 DEF Next
<1> QED BY <1>1, <1>3, <1>4, <1>5, PTL
        DEF Spec, ImplementsPageFrames, Abstract!FramesSpec

=============================================================================
