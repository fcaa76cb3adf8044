------------------------- MODULE BlockHeapStructure -------------------------
(***************************************************************************)
(* Proofs about BlockHeap, the first part: what its operators return, what *)
(* each of its actions does to the elements and the lists, and that the    *)
(* elements, their flags and the two lists never disagree.                 *)
(*                                                                         *)
(* An action of BlockHeap is first restated with the elements it picks as  *)
(* parameters (SplitFacts, ExactFacts, RestFacts, MergeFacts,              *)
(* ReleaseOneFacts, ReleaseFirstFacts); all later proofs start from these  *)
(* facts.                                                                  *)
(***************************************************************************)
EXTENDS BlockHeap, SequenceTheorems, WellFoundedInduction, TLAPS

(***************************************************************************)
(* The pages, which the actions of BlockHeap take and release.             *)
(***************************************************************************)
(* Taking pages keeps their table well formed, for any page number that    *)
(* the search may have answered.                                           *)
LEMMA TakePagesKeepsTables ==
    ASSUME NEW first, NEW n, FramesTypeOK, TakePages(first, n)
    PROVE  FramesTypeOK'
<1>1. CASE first = NoPage
      BY <1>1 DEF TakePages, frameVars, FramesTypeOK, Frames
<1>2. CASE first # NoPage
      BY <1>2 DEF TakePages, FramesTypeOK, Frames
<1> QED BY <1>1, <1>2

(* So does releasing any page, also one that nobody has taken.             *)
LEMMA ReleasePageKeepsTables ==
    ASSUME NEW page, FramesTypeOK, ReleasePage(page)
    PROVE  FramesTypeOK'
<1>1. CASE page \in Frames
      BY <1>1 DEF ReleasePage, FramesTypeOK, Frames
<1>2. CASE page \notin Frames
      BY <1>2 DEF ReleasePage, FramesTypeOK, Frames
<1> QED BY <1>1, <1>2

-----------------------------------------------------------------------------
(***************************************************************************)
(* Operators on sets, lists and numbers.                                   *)
(***************************************************************************)
(* Min of a set of natural numbers that is not empty is its least member.  *)
LEMMA MinProperty ==
    ASSUME NEW S \in SUBSET Nat, S # {}
    PROVE  Min(S) \in S /\ \A x \in S : Min(S) <= x
<1>1. PICK x \in S : \A y \in S : <<y, x>> \notin OpToRel(<, Nat)
      BY NatLessThanWellFounded, WFMin
<1>2. \A y \in S : ~(y < x)
      BY <1>1 DEF OpToRel
<1>3. \A y \in S : x <= y
      BY <1>2
<1> QED BY <1>3 DEF Min

(* InsertAt puts e at position i and moves the rest up by one.             *)
LEMMA InsertAtProperties ==
    ASSUME NEW S, NEW s \in Seq(S), NEW i \in 1 .. Len(s) + 1, NEW e \in S
    PROVE  /\ InsertAt(s, i, e) \in Seq(S)
           /\ Len(InsertAt(s, i, e)) = Len(s) + 1
           /\ \A k \in 1 .. Len(s) + 1 :
                InsertAt(s, i, e)[k] =
                  IF k < i THEN s[k] ELSE IF k = i THEN e ELSE s[k - 1]
<1> DEFINE before == SubSeq(s, 1, i - 1)
           after == SubSeq(s, i, Len(s))
<1>0. Len(s) \in Nat
      OBVIOUS
<1>1. /\ before \in Seq(S) /\ Len(before) = i - 1
      /\ \A k \in 1 .. i - 1 : before[k] = s[k]
      BY <1>0, SubSeqProperties
<1>2. /\ after \in Seq(S) /\ Len(after) = Len(s) - i + 1
      /\ \A k \in 1 .. Len(s) - i + 1 : after[k] = s[k + i - 1]
      BY <1>0, SubSeqProperties
<1>3. <<e>> \in Seq(S) /\ Len(<<e>>) = 1 /\ <<e>>[1] = e
      OBVIOUS
<1> HIDE DEF before, after
<1> DEFINE first == before \o <<e>>
<1>4. /\ first \in Seq(S) /\ Len(first) = i
      /\ \A k \in 1 .. i : first[k] = IF k < i THEN s[k] ELSE e
      BY <1>0, <1>1, <1>3, ConcatProperties
<1>5. InsertAt(s, i, e) = first \o after
      BY DEF InsertAt, before, after
<1> HIDE DEF first
<1>6. /\ first \o after \in Seq(S)
      /\ Len(first \o after) = Len(first) + Len(after)
      /\ \A k \in 1 .. Len(first) + Len(after) : (first \o after)[k] =
           IF k <= Len(first) THEN first[k] ELSE after[k - Len(first)]
      BY <1>2, <1>4, ConcatProperties
<1>7. ASSUME NEW k \in 1 .. Len(s) + 1, ~(k <= i)
      PROVE  after[k - i] = s[k - 1]
  <2>1. k - i \in 1 .. Len(s) - i + 1 /\ (k - i) + i - 1 = k - 1
        BY <1>0, <1>7
  <2> QED BY <1>2, <2>1
<1>8. Len(first) = i /\ Len(first) + Len(after) = Len(s) + 1
      BY <1>0, <1>2, <1>4
<1>9. \A k \in 1 .. Len(s) + 1 : (first \o after)[k] =
         IF k < i THEN s[k] ELSE IF k = i THEN e ELSE s[k - 1]
      BY <1>0, <1>4, <1>6, <1>7, <1>8
<1> QED BY <1>5, <1>6, <1>8, <1>9

(* RemoveAt takes out position i and moves the rest down by one.           *)
LEMMA RemoveAtProperties ==
    ASSUME NEW S, NEW s \in Seq(S), NEW i \in 1 .. Len(s)
    PROVE  /\ RemoveAt(s, i) \in Seq(S)
           /\ Len(RemoveAt(s, i)) = Len(s) - 1
           /\ \A k \in 1 .. Len(s) - 1 :
                RemoveAt(s, i)[k] = IF k < i THEN s[k] ELSE s[k + 1]
<1> DEFINE before == SubSeq(s, 1, i - 1)
           after == SubSeq(s, i + 1, Len(s))
<1>0. Len(s) \in Nat
      OBVIOUS
<1>1. /\ before \in Seq(S) /\ Len(before) = i - 1
      /\ \A k \in 1 .. i - 1 : before[k] = s[k]
      BY <1>0, SubSeqProperties
<1>2. /\ after \in Seq(S) /\ Len(after) = Len(s) - i
      /\ \A k \in 1 .. Len(s) - i : after[k] = s[k + i]
      BY <1>0, SubSeqProperties
<1> HIDE DEF before, after
<1>3. RemoveAt(s, i) = before \o after
      BY DEF RemoveAt, before, after
<1>4. /\ before \o after \in Seq(S)
      /\ Len(before \o after) = Len(before) + Len(after)
      /\ \A k \in 1 .. Len(before) + Len(after) : (before \o after)[k] =
           IF k <= Len(before) THEN before[k] ELSE after[k - Len(before)]
      BY <1>1, <1>2, ConcatProperties
<1>5. ASSUME NEW k \in 1 .. Len(s) - 1, ~(k < i)
      PROVE  after[k - (i - 1)] = s[k + 1]
  <2>1. k - (i - 1) \in 1 .. Len(s) - i /\ (k - (i - 1)) + i = k + 1
        BY <1>0, <1>5
  <2> QED BY <1>2, <2>1
<1>6. Len(before) = i - 1 /\ Len(before) + Len(after) = Len(s) - 1
      BY <1>0, <1>1, <1>2
<1>7. \A k \in 1 .. Len(s) - 1 :
         (before \o after)[k] = IF k < i THEN s[k] ELSE s[k + 1]
      BY <1>0, <1>1, <1>4, <1>5, <1>6
<1> QED BY <1>3, <1>4, <1>6, <1>7

(* Quotient and rest of a division.                                        *)
LEMMA Division ==
    ASSUME NEW x \in Int, NEW d \in Nat \ {0}
    PROVE  /\ x \div d \in Int /\ x % d \in 0 .. d - 1
           /\ x = d * (x \div d) + (x % d)
OBVIOUS

(* Multiples of d are ordered as their factors are.                        *)
LEMMA MultiplesOrdered ==
    ASSUME NEW a \in Int, NEW b \in Int, NEW d \in Nat, a <= b
    PROVE  d * a \in Int /\ d * b \in Int /\ d * a <= d * b
OBVIOUS

(* From one multiple of d to the next.                                     *)
LEMMA MultiplesStep ==
    ASSUME NEW a \in Int, NEW d \in Nat
    PROVE  d * (a + 1) = d * a + d /\ d * a = a * d /\ (a + 1) * d = a * d + d
OBVIOUS

(* x \div d is the one q with d * q <= x < d * (q + 1).                    *)
LEMMA Quotient ==
    ASSUME NEW x \in Int, NEW d \in Nat \ {0}, NEW q \in Int,
           d * q <= x, x < d * q + d
    PROVE  x \div d = q
<1>1. x \div d \in Int /\ x % d \in 0 .. d - 1 /\ x = d * (x \div d) + (x % d)
      BY Division
<1>2. CASE x \div d < q
  <2>1. (x \div d) + 1 <= q
        BY <1>1, <1>2
  <2>2. d * ((x \div d) + 1) <= d * q
        BY <1>1, <2>1, MultiplesOrdered
  <2> QED BY <1>1, <2>2, MultiplesStep
<1>3. CASE q < x \div d
  <2>1. q + 1 <= x \div d
        BY <1>1, <1>3
  <2>2. d * (q + 1) <= d * (x \div d)
        BY <1>1, <2>1, MultiplesOrdered
  <2> QED BY <1>1, <2>2, MultiplesStep
<1> QED BY <1>1, <1>2, <1>3

-----------------------------------------------------------------------------
(***************************************************************************)
(* Pages and addresses.                                                    *)
(***************************************************************************)
(* What the assumptions say of the constants, in the form the proofs use.  *)
LEMMA Constants ==
    /\ Pages \in Nat /\ Pages > 0 /\ PAGE_SIZE \in Nat /\ PAGE_SIZE > 1
    /\ MEMORY_MAP_ADDRESS \in Nat /\ MEMORY_MAP_ADDRESS > 0
    /\ MAX_BLOCKS \in Nat /\ MaxRequest \in Nat
BY HeapAssumption, PagesAssumption

PageStart(p) == MEMORY_MAP_ADDRESS + PAGE_SIZE * p

(* The bytes of page p begin at PageStart(p), and those of the next page   *)
(* behind them.                                                            *)
LEMMA PageStarts ==
    ASSUME NEW p \in Int
    PROVE  /\ PageStart(p) \in Int /\ PageStart(p + 1) = PageStart(p) + PAGE_SIZE
           /\ PageStart(p) = MEMORY_MAP_ADDRESS + p * PAGE_SIZE
           /\ PageBytes(p) = PageStart(p) .. PageStart(p) + PAGE_SIZE - 1
<1>1. PAGE_SIZE \in Nat /\ MEMORY_MAP_ADDRESS \in Nat
      BY Constants
<1>2. /\ PAGE_SIZE * (p + 1) = PAGE_SIZE * p + PAGE_SIZE
      /\ (p + 1) * PAGE_SIZE = PAGE_SIZE * p + PAGE_SIZE
      /\ PAGE_SIZE * p = p * PAGE_SIZE /\ PAGE_SIZE * p \in Int
      BY <1>1, MultiplesStep
<1> QED BY <1>1, <1>2 DEF PageStart, PageBytes

(* Pages with larger numbers begin at larger addresses.                    *)
LEMMA PageStartsOrdered ==
    ASSUME NEW p \in Int, NEW q \in Int, p <= q
    PROVE  PageStart(p) <= PageStart(q)
<1>1. PAGE_SIZE * p \in Int /\ PAGE_SIZE * q \in Int /\ PAGE_SIZE * p <= PAGE_SIZE * q
      BY Constants, MultiplesOrdered
<1> QED BY <1>1, Constants DEF PageStart

(* Every address lies in the page that PageOf says, and in no other.       *)
LEMMA PageOfAddress ==
    ASSUME NEW x \in Int
    PROVE  /\ PageOf(x) \in Int
           /\ \A p \in Int : x \in PageBytes(p) <=> PageOf(x) = p
<1> DEFINE y == x - MEMORY_MAP_ADDRESS
           q == y \div PAGE_SIZE
<1>1. y \in Int /\ PAGE_SIZE \in Nat \ {0} /\ MEMORY_MAP_ADDRESS \in Nat
      BY Constants
<1>2. /\ q \in Int /\ y % PAGE_SIZE \in 0 .. PAGE_SIZE - 1
      /\ y = PAGE_SIZE * q + (y % PAGE_SIZE)
      BY <1>1, Division
<1>3. PageOf(x) = q
      BY DEF PageOf
<1>4. x \in PageBytes(q)
  <2>1. x - MEMORY_MAP_ADDRESS = PAGE_SIZE * q + (y % PAGE_SIZE)
        BY <1>2
  <2>2. PAGE_SIZE * q \in Int
        BY <1>1, <1>2
  <2>3. x \in PageStart(q) .. PageStart(q) + PAGE_SIZE - 1
        BY <1>1, <1>2, <2>1, <2>2 DEF PageStart
  <2> QED BY <1>2, <2>3, PageStarts
<1>5. ASSUME NEW p \in Int, x \in PageBytes(p)
      PROVE  q = p
  <2>0. PAGE_SIZE * p \in Int
        BY <1>1
  <2>1. x \in PageStart(p) .. PageStart(p) + PAGE_SIZE - 1
        BY <1>5, PageStarts
  <2>2. PAGE_SIZE * p <= y /\ y < PAGE_SIZE * p + PAGE_SIZE
        BY <1>1, <2>0, <2>1 DEF PageStart
  <2> HIDE DEF y
  <2> QED BY <1>1, <2>2, Quotient
<1> HIDE DEF q
<1> QED BY <1>2, <1>3, <1>4, <1>5

(* A byte between the first byte of page first and the first byte of page  *)
(* first + n is on one of these n pages.                                   *)
LEMMA PageOfRun ==
    ASSUME NEW first \in Int, NEW n \in Nat,
           NEW x \in PageStart(first) .. PageStart(first + n) - 1
    PROVE  PageOf(x) \in first .. first + n - 1
<1>1. /\ PageStart(first) \in Int /\ PageStart(first + n) \in Int /\ PageOf(x) \in Int
      /\ PageStart(PageOf(x)) \in Int /\ PAGE_SIZE \in Nat
      /\ x \in PageStart(PageOf(x)) .. PageStart(PageOf(x)) + PAGE_SIZE - 1
      /\ PageStart(PageOf(x) + 1) = PageStart(PageOf(x)) + PAGE_SIZE
  <2>1. first + n \in Int
        OBVIOUS
  <2>2. PageStart(first) \in Int /\ PageStart(first + n) \in Int
        BY <2>1, PageStarts
  <2>3. x \in Int
        BY <2>2
  <2>4. PageOf(x) \in Int /\ x \in PageBytes(PageOf(x))
        BY <2>3, PageOfAddress
  <2> QED BY <2>2, <2>4, PageStarts, Constants
<1>2. CASE PageOf(x) < first
  <2>1. PageOf(x) + 1 \in Int /\ PageOf(x) + 1 <= first
        BY <1>1, <1>2
  <2>2. PageStart(PageOf(x) + 1) <= PageStart(first)
        BY <2>1, PageStartsOrdered
  <2> QED BY <1>1, <2>2
<1>3. CASE PageOf(x) >= first + n
  <2>1. PageStart(first + n) <= PageStart(PageOf(x))
        BY <1>1, <1>3, PageStartsOrdered
  <2> QED BY <1>1, <2>1
<1> QED BY <1>1, <1>2, <1>3

(* An aligned address is the first byte of its page.  It needs the arena   *)
(* to begin at an aligned address, as MEMORY_MAP_ADDRESS does.             *)
LEMMA AlignedAddress ==
    ASSUME NEW x \in Nat, IsAlligned(x)
    PROVE  PageOf(x) \in Int /\ x = PageStart(PageOf(x))
<1> DEFINE q == x \div PAGE_SIZE
           r == MEMORY_MAP_ADDRESS \div PAGE_SIZE
<1>1. x \in Int /\ PAGE_SIZE \in Nat \ {0} /\ MEMORY_MAP_ADDRESS \in Int
      BY Constants
<1>2. q \in Int /\ x = PAGE_SIZE * q + (x % PAGE_SIZE)
      BY <1>1, Division
<1>3. r \in Int /\ MEMORY_MAP_ADDRESS = PAGE_SIZE * r + (MEMORY_MAP_ADDRESS % PAGE_SIZE)
      BY <1>1, Division
<1>4. x % PAGE_SIZE = 0 /\ MEMORY_MAP_ADDRESS % PAGE_SIZE = 0
      BY HeapAssumption DEF IsAlligned
<1> HIDE DEF q, r
<1>5. PAGE_SIZE * q \in Int /\ PAGE_SIZE * r \in Int
      BY <1>1, <1>2, <1>3
<1>6. x = PAGE_SIZE * q /\ MEMORY_MAP_ADDRESS = PAGE_SIZE * r
      BY <1>2, <1>3, <1>4, <1>5
<1>7. PAGE_SIZE * (q - r) = PAGE_SIZE * q - PAGE_SIZE * r
      BY <1>1, <1>2, <1>3
<1>8. PICK m \in Int : m = q - r
      BY <1>2, <1>3
<1>9. x = PageStart(m)
  <2>1. PAGE_SIZE * m = x - MEMORY_MAP_ADDRESS
        BY <1>6, <1>7, <1>8
  <2> QED BY <1>1, <2>1 DEF PageStart
<1>10. x \in PageBytes(m)
  <2>1. /\ PageStart(m) \in Int
        /\ PageBytes(m) = PageStart(m) .. PageStart(m) + PAGE_SIZE - 1
        BY <1>8, PageStarts
  <2> QED BY <1>9, <2>1, Constants
<1> QED BY <1>1, <1>8, <1>9, <1>10, PageOfAddress

(* PagesFor rounds up: the pages hold the size, less than a page is left   *)
(* over, and nothing when the size is a multiple of PAGE_SIZE.             *)
LEMMA PagesForSize ==
    ASSUME NEW size \in Nat
    PROVE  /\ PagesFor(size) \in Nat
           /\ PAGE_SIZE * PagesFor(size) \in Nat /\ size <= PAGE_SIZE * PagesFor(size)
           /\ PAGE_SIZE * PagesFor(size) < size + PAGE_SIZE
           /\ PagesFor(size) * PAGE_SIZE = PAGE_SIZE * PagesFor(size)
           /\ size > 0 => PagesFor(size) > 0
           /\ size = 0 => PagesFor(size) = 0
           /\ size % PAGE_SIZE = 0 => size = PAGE_SIZE * PagesFor(size)
<1> DEFINE y == size + PAGE_SIZE - 1
           n == y \div PAGE_SIZE
           q == size \div PAGE_SIZE
<1>0. y = size + PAGE_SIZE - 1
      OBVIOUS
<1>1. y \in Int /\ PAGE_SIZE \in Nat \ {0} /\ PAGE_SIZE > 1
      BY Constants
<1> HIDE DEF y
<1>2. n \in Int /\ y % PAGE_SIZE \in 0 .. PAGE_SIZE - 1
      /\ y = PAGE_SIZE * n + (y % PAGE_SIZE)
      BY <1>1, Division
<1>3. q \in Int /\ size % PAGE_SIZE \in 0 .. PAGE_SIZE - 1
      /\ size = PAGE_SIZE * q + (size % PAGE_SIZE)
      BY <1>1, Division
<1>4. PagesFor(size) = n
      BY <1>0 DEF PagesFor
<1>5. PAGE_SIZE * n \in Int /\ PAGE_SIZE * q \in Int
      BY <1>1, <1>2, <1>3
<1>6. size <= PAGE_SIZE * n /\ size + PAGE_SIZE - 1 >= PAGE_SIZE * n
      BY <1>0, <1>1, <1>2, <1>5
<1>7. n >= 0
  <2>1. CASE n < 0
    <3>1. n <= -1 /\ PAGE_SIZE * n <= PAGE_SIZE * (-1)
          BY <1>1, <1>2, <2>1, MultiplesOrdered
    <3>2. PAGE_SIZE * (-1) = -PAGE_SIZE
          BY <1>1
    <3> QED BY <1>1, <1>5, <1>6, <3>1, <3>2
  <2> QED BY <1>2, <2>1
<1>8. ASSUME size % PAGE_SIZE = 0 PROVE size = PAGE_SIZE * n
  <2>1. size = PAGE_SIZE * q
        BY <1>3, <1>5, <1>8
  <2>2. PAGE_SIZE * q <= y /\ y < PAGE_SIZE * q + PAGE_SIZE
        BY <1>0, <1>1, <1>5, <2>1
  <2> HIDE DEF q
  <2>3. n = q
        BY <1>1, <1>3, <2>2, Quotient
  <2> QED BY <2>1, <2>3
<1>9. ASSUME size = 0 PROVE n = 0
  <2>1. PAGE_SIZE * 0 = 0
        BY <1>1
  <2>2. PAGE_SIZE * 0 <= y /\ y < PAGE_SIZE * 0 + PAGE_SIZE
        BY <1>0, <1>1, <1>9, <2>1
  <2> QED BY <1>1, <2>2, Quotient
<1>10. n = 0 => PAGE_SIZE * n = 0
      BY <1>1
<1>11. n * PAGE_SIZE = PAGE_SIZE * n
      BY <1>1, <1>2
<1> HIDE DEF n
<1> QED BY <1>1, <1>2, <1>4, <1>5, <1>6, <1>7, <1>8, <1>9, <1>10, <1>11

-----------------------------------------------------------------------------
(***************************************************************************)
(* The ordered lists.                                                      *)
(***************************************************************************)
Listed(list, e) == \E k \in DOMAIN list : list[k] = e
Distinct(list) == \A k, l \in DOMAIN list : list[k] = list[l] => k = l
Ordered(list, address, size) ==
    \A k, l \in DOMAIN list :
        k < l /\ size[list[l]] > 0 => address[list[k]] <= address[list[l]]

(* ListInsertOrdered inserts e behind the elements whose address is not    *)
(* larger than its own, up to the first one that has a larger address.     *)
LEMMA InsertedOrdered ==
    ASSUME NEW list \in Seq(Elems), NEW e \in Elems, NEW address \in [Elems -> Nat]
    PROVE  LET new == ListInsertOrdered(list, e, address) IN
           /\ new \in Seq(Elems) /\ Len(new) = Len(list) + 1
           /\ \E i \in 1 .. Len(list) + 1 :
                /\ \A k \in 1 .. Len(list) + 1 :
                      new[k] = IF k < i THEN list[k]
                               ELSE IF k = i THEN e ELSE list[k - 1]
                /\ \A k \in 1 .. i - 1 : address[list[k]] <= address[e]
                /\ i <= Len(list) => address[e] < address[list[i]]
<1> DEFINE larger == {k \in DOMAIN list : address[e] < address[list[k]]}
           i == IF larger = {} THEN Len(list) + 1 ELSE Min(larger)
<1>1. Len(list) \in Nat /\ DOMAIN list = 1 .. Len(list)
      /\ \A k \in DOMAIN list : list[k] \in Elems
      OBVIOUS
<1>2. ListInsertOrdered(list, e, address) = InsertAt(list, i, e)
      BY DEF ListInsertOrdered
<1>3. larger \in SUBSET Nat
      BY <1>1
<1>4. larger # {} => i \in larger /\ \A k \in larger : i <= k
  <2> HIDE DEF larger
  <2> QED BY <1>3, MinProperty
<1>5. /\ i \in 1 .. Len(list) + 1
      /\ i <= Len(list) => address[e] < address[list[i]]
  <2>1. CASE larger = {}
        BY <1>1, <2>1
  <2>2. CASE larger # {}
    <3>1. i \in larger
          BY <1>4, <2>2
    <3> HIDE DEF i
    <3> QED BY <1>1, <3>1
  <2> QED BY <2>1, <2>2
<1>6. ASSUME NEW k \in 1 .. i - 1
      PROVE  address[list[k]] <= address[e]
  <2>1. k \in DOMAIN list
        BY <1>1, <1>5, <1>6
  <2>2. k \notin larger
    <3>1. CASE larger = {}
          BY <3>1
    <3>2. CASE larger # {}
      <4> HIDE DEF larger, i
      <4> QED BY <1>1, <1>4, <1>5, <1>6, <3>2
    <3> QED BY <3>1, <3>2
  <2>3. ~(address[e] < address[list[k]])
        BY <2>1, <2>2
  <2>4. address[e] \in Nat /\ address[list[k]] \in Nat
        BY <1>1, <2>1
  <2> QED BY <2>3, <2>4
<1> HIDE DEF i
<1>7. /\ InsertAt(list, i, e) \in Seq(Elems)
      /\ Len(InsertAt(list, i, e)) = Len(list) + 1
      /\ \A k \in 1 .. Len(list) + 1 :
           InsertAt(list, i, e)[k] =
             IF k < i THEN list[k] ELSE IF k = i THEN e ELSE list[k - 1]
      BY <1>5, InsertAtProperties
<1> QED BY <1>2, <1>5, <1>6, <1>7

(* It adds e to the elements of the list, and nothing else.                *)
LEMMA InsertedElements ==
    ASSUME NEW list \in Seq(Elems), NEW e \in Elems, NEW address \in [Elems -> Nat]
    PROVE  LET new == ListInsertOrdered(list, e, address) IN
           /\ \A x : Listed(new, x) <=> Listed(list, x) \/ x = e
           /\ Distinct(list) /\ ~Listed(list, e) => Distinct(new)
<1> DEFINE new == ListInsertOrdered(list, e, address)
           n == Len(list)
<1>1. new \in Seq(Elems) /\ Len(new) = n + 1
      BY InsertedOrdered
<1>2. PICK i \in 1 .. n + 1 :
         \A k \in 1 .. n + 1 :
             new[k] = IF k < i THEN list[k] ELSE IF k = i THEN e ELSE list[k - 1]
      BY InsertedOrdered
<1> HIDE DEF new
<1>3. n \in Nat /\ DOMAIN list = 1 .. n /\ DOMAIN new = 1 .. n + 1
      BY <1>1
<1> HIDE DEF n
<1>4. ASSUME NEW x, Listed(new, x) PROVE Listed(list, x) \/ x = e
  <2>1. PICK k \in 1 .. n + 1 : new[k] = x
        BY <1>3, <1>4 DEF Listed
  <2>2. CASE k < i
        BY <1>2, <1>3, <2>1, <2>2 DEF Listed
  <2>3. CASE k > i
    <3>1. k - 1 \in 1 .. n /\ list[k - 1] = x
          BY <1>2, <1>3, <2>1, <2>3
    <3> QED BY <1>3, <3>1 DEF Listed
  <2> QED BY <1>2, <1>3, <2>1, <2>2, <2>3
<1>5. ASSUME NEW x, Listed(list, x) PROVE Listed(new, x)
  <2>1. PICK k \in 1 .. n : list[k] = x
        BY <1>3, <1>5 DEF Listed
  <2>2. CASE k < i
    <3>1. k \in 1 .. n + 1 /\ new[k] = x
          BY <1>2, <1>3, <2>1, <2>2
    <3> QED BY <1>3, <3>1 DEF Listed
  <2>3. CASE k >= i
    <3>1. k + 1 \in 1 .. n + 1 /\ (k + 1) - 1 = k /\ ~(k + 1 < i) /\ k + 1 # i
          BY <1>2, <1>3, <2>1, <2>3
    <3>2. new[k + 1] = x
          BY <1>2, <2>1, <3>1
    <3> QED BY <1>3, <3>1, <3>2 DEF Listed
  <2> QED BY <1>2, <1>3, <2>1, <2>2, <2>3
<1>6. Listed(new, e)
  <2>1. new[i] = e
        BY <1>2, <1>3
  <2> QED BY <1>2, <1>3, <2>1 DEF Listed
<1>7. ASSUME Distinct(list), ~Listed(list, e) PROVE Distinct(new)
  <2> DEFINE old(k) == IF k < i THEN k ELSE k - 1
  <2>1. ASSUME NEW k \in 1 .. n + 1, k # i
        PROVE  old(k) \in 1 .. n /\ new[k] = list[old(k)] /\ new[k] # e
    <3>1. old(k) \in 1 .. n
          BY <1>2, <1>3, <2>1
    <3>2. new[k] = list[old(k)]
          BY <1>2, <1>3, <2>1
    <3> QED BY <1>3, <1>7, <3>1, <3>2 DEF Listed
  <2>2. new[i] = e
        BY <1>2, <1>3
  <2>3. ASSUME NEW k \in 1 .. n + 1, NEW l \in 1 .. n + 1, new[k] = new[l]
        PROVE  k = l
    <3>1. CASE k = i \/ l = i
          BY <2>1, <2>2, <2>3, <3>1
    <3>2. CASE k # i /\ l # i
      <4>1. list[old(k)] = list[old(l)] /\ old(k) \in 1 .. n /\ old(l) \in 1 .. n
            BY <2>1, <2>3, <3>2
      <4>2. old(k) = old(l)
        <5> HIDE DEF old
        <5> QED BY <1>3, <1>7, <4>1 DEF Distinct
      <4> QED BY <1>2, <1>3, <3>2, <4>2
    <3> QED BY <3>1, <3>2
  <2> QED BY <1>3, <2>3 DEF Distinct
<1> QED BY <1>4, <1>5, <1>6, <1>7 DEF new

(* It keeps the order of the list, in which empty blocks may stand         *)
(* anywhere.                                                               *)
LEMMA InsertedInOrder ==
    ASSUME NEW list \in Seq(Elems), NEW e \in Elems, NEW address \in [Elems -> Nat],
           NEW size, Ordered(list, address, size)
    PROVE  Ordered(ListInsertOrdered(list, e, address), address, size)
<1> DEFINE new == ListInsertOrdered(list, e, address)
           n == Len(list)
<1>1. new \in Seq(Elems) /\ Len(new) = n + 1
      BY InsertedOrdered
<1>2. PICK i \in 1 .. n + 1 :
         /\ \A k \in 1 .. n + 1 :
             new[k] = IF k < i THEN list[k] ELSE IF k = i THEN e ELSE list[k - 1]
         /\ \A k \in 1 .. i - 1 : address[list[k]] <= address[e]
         /\ i <= n => address[e] < address[list[i]]
      BY InsertedOrdered
<1> HIDE DEF new
<1>3. n \in Nat /\ DOMAIN list = 1 .. n /\ DOMAIN new = 1 .. n + 1
      /\ \A k \in 1 .. n : address[list[k]] \in Nat
      BY <1>1
<1>4. address[e] \in Nat
      OBVIOUS
<1> HIDE DEF n
<1>5. ASSUME NEW k \in 1 .. n, NEW l \in 1 .. n, k < l, size[list[l]] > 0
      PROVE  address[list[k]] <= address[list[l]]
      BY <1>3, <1>5 DEF Ordered
<1>6. ASSUME NEW k \in 1 .. n + 1, NEW l \in 1 .. n + 1, k < l, size[new[l]] > 0
      PROVE  address[new[k]] <= address[new[l]]
  <2>1. CASE l < i
    <3>1. new[k] = list[k] /\ new[l] = list[l] /\ k \in 1 .. n /\ l \in 1 .. n
          BY <1>2, <1>3, <1>6, <2>1
    <3> QED BY <1>5, <1>6, <3>1
  <2>2. CASE l = i
    <3>1. new[k] = list[k] /\ new[l] = e /\ k \in 1 .. i - 1
          BY <1>2, <1>3, <1>6, <2>2
    <3> QED BY <1>2, <3>1
  <2>3. CASE l > i
    <3>1. l - 1 \in 1 .. n /\ new[l] = list[l - 1] /\ i <= n
          BY <1>2, <1>3, <1>6, <2>3
    <3>2. CASE k < i
      <4>1. new[k] = list[k] /\ k \in 1 .. n /\ k < l - 1
            BY <1>2, <1>3, <1>6, <2>3, <3>2
      <4> QED BY <1>5, <1>6, <3>1, <4>1
    <3>3. CASE k = i
      <4>1. new[k] = e
            BY <1>2, <1>3, <3>3
      <4>2. i < l - 1 => address[list[i]] <= address[list[l - 1]]
            BY <1>2, <1>3, <1>5, <1>6, <3>1
      <4>3. address[e] < address[list[i]]
            BY <1>2, <3>1
      <4>4. i = l - 1 \/ i < l - 1
            BY <1>2, <1>3, <2>3
      <4>5. i \in 1 .. n /\ address[list[i]] \in Nat /\ address[list[l - 1]] \in Nat
            BY <1>2, <1>3, <3>1
      <4> QED BY <1>4, <3>1, <4>1, <4>2, <4>3, <4>4, <4>5
    <3>4. CASE k > i
      <4>1. new[k] = list[k - 1] /\ k - 1 \in 1 .. n /\ k - 1 < l - 1
            BY <1>2, <1>3, <1>6, <2>3, <3>4
      <4> QED BY <1>5, <1>6, <3>1, <4>1
    <3> QED BY <1>2, <1>3, <3>2, <3>3, <3>4
  <2> QED BY <1>2, <1>3, <2>1, <2>2, <2>3
<1> QED BY <1>3, <1>6 DEF Ordered, new

(* ListRemove takes one element from a list, and keeps its order.          *)
LEMMA RemovedElements ==
    ASSUME NEW list \in Seq(Elems), NEW i \in 1 .. Len(list)
    PROVE  LET new == ListRemove(list, i) IN
           /\ new \in Seq(Elems) /\ Len(new) = Len(list) - 1
           /\ Distinct(list) =>
                /\ Distinct(new)
                /\ \A x : Listed(new, x) <=> Listed(list, x) /\ x # list[i]
           /\ \A address, size :
                 Ordered(list, address, size) => Ordered(new, address, size)
<1> DEFINE new == ListRemove(list, i)
           n == Len(list)
<1>1. /\ new \in Seq(Elems) /\ Len(new) = n - 1
      /\ \A k \in 1 .. n - 1 : new[k] = IF k < i THEN list[k] ELSE list[k + 1]
      BY RemoveAtProperties DEF ListRemove
<1> HIDE DEF new
<1>2. n \in Nat /\ DOMAIN list = 1 .. n /\ DOMAIN new = 1 .. n - 1
      BY <1>1
<1> HIDE DEF n
<1> DEFINE old(k) == IF k < i THEN k ELSE k + 1
<1>3. ASSUME NEW k \in 1 .. n - 1
      PROVE  old(k) \in 1 .. n /\ new[k] = list[old(k)] /\ old(k) # i
      BY <1>1, <1>2, <1>3
<1>4. ASSUME NEW k \in 1 .. n - 1, NEW l \in 1 .. n - 1
      PROVE  (old(k) = old(l) => k = l) /\ (k < l => old(k) < old(l))
      BY <1>2
<1>5. ASSUME NEW k \in 1 .. n, k # i
      PROVE  \E l \in 1 .. n - 1 : old(l) = k
  <2>1. CASE k < i
    <3>1. k \in 1 .. n - 1 /\ old(k) = k
          BY <1>2, <2>1
    <3> QED BY <3>1
  <2>2. CASE k > i
    <3>1. k - 1 \in 1 .. n - 1 /\ old(k - 1) = k
          BY <1>2, <2>2
    <3> QED BY <3>1
  <2> QED BY <1>2, <1>5, <2>1, <2>2
<1>i. i \in 1 .. n
      BY DEF n
<1> HIDE DEF old
<1>6. ASSUME Distinct(list) PROVE Distinct(new)
      BY <1>2, <1>3, <1>4, <1>6 DEF Distinct
<1>7. ASSUME Distinct(list), NEW x, Listed(new, x)
      PROVE  Listed(list, x) /\ x # list[i]
  <2>1. PICK k \in 1 .. n - 1 : new[k] = x
        BY <1>2, <1>7 DEF Listed
  <2>2. old(k) \in 1 .. n /\ list[old(k)] = x /\ old(k) # i
        BY <1>3, <2>1
  <2> QED BY <1>2, <1>7, <1>i, <2>2 DEF Listed, Distinct
<1>8. ASSUME NEW x, Listed(list, x), x # list[i]
      PROVE  Listed(new, x)
  <2>1. PICK k \in 1 .. n : list[k] = x
        BY <1>2, <1>8 DEF Listed
  <2>2. PICK l \in 1 .. n - 1 : old(l) = k
        BY <1>5, <1>8, <2>1
  <2>3. new[l] = x
        BY <1>3, <2>1, <2>2
  <2> QED BY <1>2, <2>3 DEF Listed
<1>9. ASSUME NEW address, NEW size, Ordered(list, address, size)
      PROVE  Ordered(new, address, size)
  <2>1. ASSUME NEW k \in 1 .. n - 1, NEW l \in 1 .. n - 1, k < l, size[new[l]] > 0
        PROVE  address[new[k]] <= address[new[l]]
    <3>1. /\ old(k) \in 1 .. n /\ old(l) \in 1 .. n /\ old(k) < old(l)
          /\ new[k] = list[old(k)] /\ new[l] = list[old(l)]
          BY <1>3, <1>4, <2>1
    <3> QED BY <1>2, <1>9, <2>1, <3>1 DEF Ordered
  <2> QED BY <1>2, <2>1 DEF Ordered
<1> QED BY <1>1, <1>6, <1>7, <1>8, <1>9 DEF new, n

-----------------------------------------------------------------------------
(***************************************************************************)
(* What the actions do to the elements.                                    *)
(***************************************************************************)
HeapStructure == HeapTypeOK /\ ListsMatchFlags

FieldsOf(e) == <<Address[e], Size[e], IsFree[e]>>
OthersUnchanged(es) == \A f \in Elems \ es : FieldsOf(f)' = FieldsOf(f)

(* The element that GetFirstAvailable answers is not in use.               *)
LEMMA AvailableElement ==
    ASSUME NEW S \in SUBSET Available, S # {}
    PROVE  Min(S) \in S /\ Min(S) \in Elems /\ IsFree[Min(S)] = U_BOOL
<1>1. S \in SUBSET Nat
      BY DEF Available, Elems
<1>2. Min(S) \in S
      BY <1>1, MinProperty
<1> QED BY <1>2 DEF Available

(* The three values of a flag differ.                                      *)
LEMMA Flags == "TRUE" # "FALSE" /\ "TRUE" # U_BOOL /\ "FALSE" # U_BOOL
BY DEF U_BOOL

(* What a split does to the elements.                                      *)
Splits(e, new, size) ==
    /\ e \in Elems /\ new \in Elems /\ e # new
    /\ IsFree[e] = "TRUE" /\ IsFree[new] = U_BOOL
    /\ size <= Size[e]
    /\ Address' \in [Elems -> Nat] /\ Size' \in [Elems -> Nat]
    /\ IsFree' \in [Elems -> {"TRUE", "FALSE", U_BOOL}]
    /\ FieldsOf(new)' = <<Address[e], size, "FALSE">>
    /\ FieldsOf(e)' = <<Address[e] + size, Size[e] - size, "TRUE">>
    /\ OthersUnchanged({e, new})
    /\ OccupiedBlocks' = ListInsertOrdered(OccupiedBlocks, new, Address')
    /\ UNCHANGED <<frameVars, FreeBlocks, shortage>>

(* SplitBlock takes the bytes from a free block and an element from the    *)
(* pool.                                                                   *)
LEMMA SplitFacts ==
    ASSUME HeapStructure, NEW size \in Nat, SplitBlock(size)
    PROVE  \E e, new : Splits(e, new, size)
<1> DEFINE m == Min(Fitting(size))
<1>1. /\ FreeBlocks \in Seq(Elems) /\ DOMAIN FreeBlocks = 1 .. Len(FreeBlocks)
      /\ Address \in [Elems -> Nat] /\ Size \in [Elems -> Nat]
      /\ IsFree \in [Elems -> {"TRUE", "FALSE", U_BOOL}]
      BY DEF HeapStructure, HeapTypeOK
<1>2. m \in Fitting(size)
  <2>1. Fitting(size) \in SUBSET Nat /\ Fitting(size) # {}
        BY <1>1 DEF Fitting, SplitBlock
  <2> QED BY <2>1, MinProperty
<1>0. FreeBlocks[m] \in Elems /\ GetFirstAvailable \in Elems
      /\ IsFree[GetFirstAvailable] = U_BOOL
      BY <1>1, <1>2, AvailableElement DEF Fitting, SplitBlock, GetFirstAvailable
<1>e. PICK e \in Elems : e = FreeBlocks[m]
      BY <1>0
<1>n. PICK new \in Elems : new = GetFirstAvailable
      BY <1>0
<1>3. m \in 1 .. Len(FreeBlocks) /\ size <= Size[e] /\ e \in Elems
      BY <1>1, <1>2, <1>e DEF Fitting
<1>4. new \in Elems /\ IsFree[new] = U_BOOL
      BY <1>0, <1>n
<1>5. IsFree[e] = "TRUE"
      BY <1>1, <1>3, <1>e DEF HeapStructure, ListsMatchFlags
<1>6. e # new
      BY <1>4, <1>5, Flags
<1>7. /\ Address' = [Address EXCEPT ![new] = Address[e], ![e] = @ + size]
      /\ Size' = [Size EXCEPT ![new] = size, ![e] = @ - size]
      /\ IsFree' = [IsFree EXCEPT ![new] = "FALSE"]
      /\ OccupiedBlocks' = ListInsertOrdered(OccupiedBlocks, new, Address')
      /\ UNCHANGED <<frameVars, FreeBlocks, shortage>>
      BY <1>e, <1>n DEF SplitBlock
<1> HIDE DEF m
<1>8. /\ Address'[new] = Address[e] /\ Address'[e] = Address[e] + size
      /\ Size'[new] = size /\ Size'[e] = Size[e] - size
      /\ IsFree'[new] = "FALSE" /\ IsFree'[e] = "TRUE"
      /\ \A f \in Elems \ {e, new} :
            Address'[f] = Address[f] /\ Size'[f] = Size[f] /\ IsFree'[f] = IsFree[f]
      BY <1>1, <1>3, <1>4, <1>5, <1>6, <1>7
<1>9. Size[e] - size \in Nat /\ Address[e] + size \in Nat
      BY <1>1, <1>3
<1>10. /\ Address' \in [Elems -> Nat] /\ Size' \in [Elems -> Nat]
       /\ IsFree' \in [Elems -> {"TRUE", "FALSE", U_BOOL}]
  <2>1. Address' \in [Elems -> Nat]
        BY <1>1, <1>3, <1>4, <1>6, <1>7, <1>9
  <2>2. Size' \in [Elems -> Nat]
        BY <1>1, <1>3, <1>4, <1>6, <1>7, <1>9
  <2>3. IsFree' \in [Elems -> {"TRUE", "FALSE", U_BOOL}]
        BY <1>1, <1>4, <1>7
  <2> QED BY <2>1, <2>2, <2>3
<1>11. Splits(e, new, size)
      BY <1>3, <1>4, <1>5, <1>6, <1>7, <1>8, <1>10
         DEF Splits, FieldsOf, OthersUnchanged
<1> QED BY <1>11

(* What a block made of new pages, and the rest of the last one, are.      *)
Makes(new, first, size) ==
    /\ new \in Elems /\ IsFree[new] = U_BOOL
    /\ first \in Answers(PagesFor(size)) /\ TakePages(first, PagesFor(size))
    /\ Address' \in [Elems -> Nat] /\ Size' \in [Elems -> Nat]
    /\ IsFree' \in [Elems -> {"TRUE", "FALSE", U_BOOL}]
    /\ FieldsOf(new)' = <<FreshAddress(first), size, "FALSE">>
    /\ OccupiedBlocks' = ListInsertOrdered(OccupiedBlocks, new, Address')

MakesExactly(new, first, size) ==
    /\ Makes(new, first, size)
    /\ size % PAGE_SIZE = 0
    /\ OthersUnchanged({new})
    /\ shortage' = (shortage \/ (first = NoPage /\ size > 0))
    /\ FreeBlocks' = FreeBlocks

MakesWithRest(new, rest, first, size) ==
    /\ Makes(new, first, size)
    /\ size % PAGE_SIZE # 0
    /\ rest \in Elems /\ rest # new /\ IsFree[rest] = U_BOOL
    /\ FieldsOf(rest)' =
         <<FreshAddress(first) + size, PAGE_SIZE * PagesFor(size) - size, "TRUE">>
    /\ OthersUnchanged({new, rest})
    /\ shortage' = (shortage \/ first = NoPage)
    /\ FreeBlocks' = ListInsertOrdered(FreeBlocks, rest, Address')

(* PageAlloc answers NULL or a page number.                                *)
LEMMA AnswersRange ==
    ASSUME NEW n \in Nat, NEW first \in Answers(n)
    PROVE  first = NoPage \/ first \in Nat
<1>1. \A k \in Nat : FreeRuns(k) \in SUBSET Nat /\ TrailingRuns \in SUBSET Nat
      BY DEF FreeRuns, TrailingRuns, Frames
<1>2. GetFirstFreePageNumber = NoPage \/ GetFirstFreePageNumber \in Nat
      BY <1>1, MinProperty DEF GetFirstFreePageNumber
<1>3. ASSUME NEW p \in GetFreePagesNumberStart(n) PROVE p = NoPage \/ p \in Nat
  <2>1. CASE FreeRuns(n) # {}
    <3>1. Min(FreeRuns(n)) \in Nat
          BY <1>1, <2>1, MinProperty
    <3> QED BY <1>3, <2>1, <3>1 DEF GetFreePagesNumberStart
  <2>2. CASE FreeRuns(n) = {} /\ TrailingRuns = {}
        BY <1>3, <2>2 DEF GetFreePagesNumberStart
  <2>3. CASE FreeRuns(n) = {} /\ TrailingRuns # {}
    <3>1. Min(TrailingRuns) \in Nat
          BY <1>1, <2>3, MinProperty
    <3> QED BY <1>3, <2>3, <3>1, Constants DEF GetFreePagesNumberStart
  <2> QED BY <2>1, <2>2, <2>3
<1> QED BY <1>2, <1>3 DEF Answers

(* The address of a new block is the first byte of its first page, or      *)
(* NULL.                                                                   *)
LEMMA FreshAddressRange ==
    ASSUME NEW n \in Nat, NEW first \in Answers(n)
    PROVE  /\ FreshAddress(first) \in Nat
           /\ first # NoPage => first \in Nat /\ FreshAddress(first) = PageStart(first)
<1>1. CASE first = NoPage
      BY <1>1 DEF FreshAddress, NULL
<1>2. CASE first # NoPage
  <2>1. first \in Nat /\ MEMORY_MAP_ADDRESS \in Nat /\ PAGE_SIZE \in Nat
        BY <1>2, AnswersRange, Constants
  <2>2. first * PAGE_SIZE \in Nat
        BY <2>1
  <2>3. FreshAddress(first) = MEMORY_MAP_ADDRESS + first * PAGE_SIZE
        BY <1>2 DEF FreshAddress
  <2>4. first \in Int
        BY <2>1
  <2>5. PageStart(first) = MEMORY_MAP_ADDRESS + first * PAGE_SIZE
        BY <2>4, PageStarts
  <2> QED BY <2>1, <2>2, <2>3, <2>5
<1> QED BY <1>1, <1>2

(* ExactBlock makes one block, of an element of the pool.                  *)
LEMMA ExactFacts ==
    ASSUME HeapStructure, NEW size \in Nat, ExactBlock(size)
    PROVE  \E new, first : MakesExactly(new, first, size)
<1>0. GetFirstAvailable \in Elems /\ IsFree[GetFirstAvailable] = U_BOOL
      BY AvailableElement DEF ExactBlock, GetFirstAvailable
<1>n. PICK new \in Elems : new = GetFirstAvailable
      BY <1>0
<1>1. new \in Elems /\ IsFree[new] = U_BOOL
      BY <1>0, <1>n
<1>2. PICK first \in Answers(PagesFor(size)) :
         /\ TakePages(first, PagesFor(size))
         /\ Address' = [Address EXCEPT ![new] = FreshAddress(first)]
         /\ shortage' = (shortage \/ (first = NoPage /\ size > 0))
      BY <1>n DEF ExactBlock
<1>3. /\ size % PAGE_SIZE = 0
      /\ Size' = [Size EXCEPT ![new] = size]
      /\ IsFree' = [IsFree EXCEPT ![new] = "FALSE"]
      /\ OccupiedBlocks' = ListInsertOrdered(OccupiedBlocks, new, Address')
      /\ FreeBlocks' = FreeBlocks
      BY <1>n DEF ExactBlock
<1>4. /\ Address \in [Elems -> Nat] /\ Size \in [Elems -> Nat]
      /\ IsFree \in [Elems -> {"TRUE", "FALSE", U_BOOL}]
      BY DEF HeapStructure, HeapTypeOK
<1>5. FreshAddress(first) \in Nat
      BY PagesForSize, FreshAddressRange
<1>6. /\ Address' \in [Elems -> Nat] /\ Size' \in [Elems -> Nat]
      /\ IsFree' \in [Elems -> {"TRUE", "FALSE", U_BOOL}]
      BY <1>1, <1>2, <1>3, <1>4, <1>5
<1>7. /\ Address'[new] = FreshAddress(first) /\ Size'[new] = size
      /\ IsFree'[new] = "FALSE"
      /\ \A f \in Elems \ {new} :
            Address'[f] = Address[f] /\ Size'[f] = Size[f] /\ IsFree'[f] = IsFree[f]
      BY <1>1, <1>2, <1>3, <1>4
<1>8. MakesExactly(new, first, size)
      BY <1>1, <1>2, <1>3, <1>6, <1>7
         DEF MakesExactly, Makes, FieldsOf, OthersUnchanged
<1> QED BY <1>8

(* BlockAndRest makes two, of two different elements of the pool.          *)
LEMMA RestFacts ==
    ASSUME HeapStructure, NEW size \in Nat, BlockAndRest(size)
    PROVE  \E new, rest, first : MakesWithRest(new, rest, first, size)
<1>0. GetFirstAvailable \in Elems /\ IsFree[GetFirstAvailable] = U_BOOL
      /\ GetFirstAvailable \in Available
      BY AvailableElement DEF BlockAndRest, GetFirstAvailable
<1>n. PICK new \in Elems : new = GetFirstAvailable
      BY <1>0
<1>1. new \in Elems /\ IsFree[new] = U_BOOL /\ new \in Available
      BY <1>0, <1>n
<1>r. \E e \in Elems : e = Min(Available \ {new}) /\ IsFree[e] = U_BOOL /\ e # new
  <2>1. Available \ {new} \in SUBSET Available /\ Available \ {new} # {}
        BY <1>1, <1>n DEF BlockAndRest
  <2>2. Min(Available \ {new}) \in Available \ {new}
        /\ Min(Available \ {new}) \in Elems
        /\ IsFree[Min(Available \ {new})] = U_BOOL
        BY <2>1, AvailableElement
  <2> QED BY <2>2
<1>2. PICK rest \in Elems :
         rest = Min(Available \ {new}) /\ IsFree[rest] = U_BOOL /\ rest # new
      BY <1>r
<1>3. PICK first \in Answers(PagesFor(size)) :
         /\ TakePages(first, PagesFor(size))
         /\ Address' = [Address EXCEPT ![new] = FreshAddress(first),
                                       ![rest] = FreshAddress(first) + size]
         /\ shortage' = (shortage \/ first = NoPage)
      BY <1>n, <1>2 DEF BlockAndRest
<1>4. /\ size % PAGE_SIZE # 0
      /\ Size' = [Size EXCEPT ![new] = size,
                              ![rest] = PagesFor(size) * PAGE_SIZE - size]
      /\ IsFree' = [IsFree EXCEPT ![new] = "FALSE", ![rest] = "TRUE"]
      /\ OccupiedBlocks' = ListInsertOrdered(OccupiedBlocks, new, Address')
      /\ FreeBlocks' = ListInsertOrdered(FreeBlocks, rest, Address')
      BY <1>n, <1>2 DEF BlockAndRest
<1>5. /\ Address \in [Elems -> Nat] /\ Size \in [Elems -> Nat]
      /\ IsFree \in [Elems -> {"TRUE", "FALSE", U_BOOL}]
      BY DEF HeapStructure, HeapTypeOK
<1>6. /\ FreshAddress(first) \in Nat /\ FreshAddress(first) + size \in Nat
      /\ PagesFor(size) * PAGE_SIZE = PAGE_SIZE * PagesFor(size)
      /\ PAGE_SIZE * PagesFor(size) - size \in Nat
  <2>1. FreshAddress(first) \in Nat
        BY PagesForSize, FreshAddressRange
  <2>2. /\ PagesFor(size) * PAGE_SIZE = PAGE_SIZE * PagesFor(size)
        /\ PAGE_SIZE * PagesFor(size) \in Nat /\ size <= PAGE_SIZE * PagesFor(size)
        BY PagesForSize
  <2> QED BY <2>1, <2>2
<1>7. /\ Address' \in [Elems -> Nat] /\ Size' \in [Elems -> Nat]
      /\ IsFree' \in [Elems -> {"TRUE", "FALSE", U_BOOL}]
      BY <1>1, <1>2, <1>3, <1>4, <1>5, <1>6
<1>8. /\ Address'[new] = FreshAddress(first) /\ Size'[new] = size
      /\ IsFree'[new] = "FALSE"
      /\ Address'[rest] = FreshAddress(first) + size
      /\ Size'[rest] = PAGE_SIZE * PagesFor(size) - size /\ IsFree'[rest] = "TRUE"
      /\ \A f \in Elems \ {new, rest} :
            Address'[f] = Address[f] /\ Size'[f] = Size[f] /\ IsFree'[f] = IsFree[f]
      BY <1>1, <1>2, <1>3, <1>4, <1>5, <1>6
<1>9. MakesWithRest(new, rest, first, size)
      BY <1>1, <1>2, <1>3, <1>4, <1>7, <1>8
         DEF MakesWithRest, Makes, FieldsOf, OthersUnchanged
<1> QED BY <1>9

-----------------------------------------------------------------------------
(* The part of HeapTypeOK that the fields of the elements and the lists    *)
(* take part in, and ListsMatchFlags, in the words of the list lemmas.     *)
FieldTypes ==
    /\ Address \in [Elems -> Nat] /\ Size \in [Elems -> Nat]
    /\ IsFree \in [Elems -> {"TRUE", "FALSE", U_BOOL}]
    /\ FreeBlocks \in Seq(Elems) /\ OccupiedBlocks \in Seq(Elems)

Matched ==
    /\ \A e \in Elems :
          /\ IsFree[e] = "TRUE" <=> Listed(FreeBlocks, e)
          /\ IsFree[e] = "FALSE" <=> Listed(OccupiedBlocks, e)
          /\ IsFree[e] = U_BOOL => Address[e] = NULL /\ Size[e] = 0
    /\ Distinct(FreeBlocks) /\ Distinct(OccupiedBlocks)

LoopTypes ==
    /\ pc \in {"idle", "scan", "merge", "release"} /\ target \in Nat
    /\ scanAt \in 1 .. Len(OccupiedBlocks) + 1
    /\ at \in 1 .. Len(FreeBlocks) + 1
    /\ consolePages \subseteq Frames /\ shortage \in BOOLEAN

(* HeapStructure is the conjunction of these four.                         *)
LEMMA StructureParts ==
    HeapStructure <=> FramesTypeOK /\ FieldTypes /\ LoopTypes /\ Matched
BY DEF HeapStructure, HeapTypeOK, ListsMatchFlags, FieldTypes, LoopTypes, Matched,
       Listed, Distinct

(* The list lemmas in the form in which the steps below use them.          *)
LEMMA Inserted ==
    ASSUME NEW list \in Seq(Elems), NEW e \in Elems, NEW address \in [Elems -> Nat],
           NEW new, new = ListInsertOrdered(list, e, address)
    PROVE  /\ new \in Seq(Elems) /\ Len(new) = Len(list) + 1 /\ Len(list) \in Nat
           /\ \A x : Listed(new, x) <=> Listed(list, x) \/ x = e
           /\ Distinct(list) /\ ~Listed(list, e) => Distinct(new)
<1>1. new \in Seq(Elems) /\ Len(new) = Len(list) + 1
      BY InsertedOrdered
<1>2. /\ \A x : Listed(new, x) <=> Listed(list, x) \/ x = e
      /\ Distinct(list) /\ ~Listed(list, e) => Distinct(new)
      BY InsertedElements
<1>3. Len(list) \in Nat
      OBVIOUS
<1> QED BY <1>1, <1>2, <1>3

(* The same for an element that is taken out of its list.                  *)
LEMMA Removed ==
    ASSUME NEW list \in Seq(Elems), NEW i \in 1 .. Len(list), Distinct(list),
           NEW new, new = ListRemove(list, i)
    PROVE  /\ new \in Seq(Elems) /\ Len(new) = Len(list) - 1 /\ Len(list) \in Nat
           /\ \A x : Listed(new, x) <=> Listed(list, x) /\ x # list[i]
           /\ Distinct(new)
BY RemovedElements

(* A request changes no variable of MemBlockFree, and both lists only      *)
(* grow.                                                                   *)
LEMMA LoopTypesKept ==
    ASSUME FieldTypes, LoopTypes, UNCHANGED <<loopVars, consolePages>>,
           shortage' \in BOOLEAN,
           NEW n \in Nat, Len(OccupiedBlocks') = Len(OccupiedBlocks) + n,
           NEW m \in Nat, Len(FreeBlocks') = Len(FreeBlocks) + m
    PROVE  LoopTypes'
<1>1. Len(OccupiedBlocks) \in Nat /\ Len(FreeBlocks) \in Nat
      BY DEF FieldTypes
<1>2. /\ pc' = pc /\ target' = target /\ scanAt' = scanAt /\ at' = at
      /\ consolePages' = consolePages
      BY DEF loopVars
<1>3. scanAt' \in 1 .. Len(OccupiedBlocks') + 1
      BY <1>1, <1>2 DEF LoopTypes
<1>4. at' \in 1 .. Len(FreeBlocks') + 1
      BY <1>1, <1>2 DEF LoopTypes
<1> QED BY <1>1, <1>2, <1>3, <1>4 DEF LoopTypes, Frames

(* MemBlockAlloc, when a free block is split.                              *)
LEMMA SplitKeepsStructure ==
    ASSUME HeapStructure, NEW e, NEW new, NEW size \in Nat, Splits(e, new, size),
           UNCHANGED <<loopVars, consolePages>>
    PROVE  HeapStructure'
<1>1. FramesTypeOK /\ FieldTypes /\ LoopTypes /\ Matched
      BY StructureParts
<1>2. FramesTypeOK'
      BY <1>1 DEF FramesTypeOK, Splits, frameVars
<1>3. /\ new \in Elems /\ OccupiedBlocks \in Seq(Elems)
      /\ Address' \in [Elems -> Nat]
      /\ OccupiedBlocks' = ListInsertOrdered(OccupiedBlocks, new, Address')
      BY <1>1 DEF Splits, FieldTypes
<1>4. /\ OccupiedBlocks' \in Seq(Elems)
      /\ Len(OccupiedBlocks') = Len(OccupiedBlocks) + 1
      /\ \A x : Listed(OccupiedBlocks', x) <=> Listed(OccupiedBlocks, x) \/ x = new
      /\ Distinct(OccupiedBlocks) /\ ~Listed(OccupiedBlocks, new)
            => Distinct(OccupiedBlocks')
      BY <1>3, Inserted
<1>5. FieldTypes'
      BY <1>1, <1>4 DEF FieldTypes, Splits
<1>6. LoopTypes'
  <2>1. shortage' \in BOOLEAN /\ FreeBlocks' = FreeBlocks /\ Len(FreeBlocks) \in Nat
        BY <1>1 DEF Splits, LoopTypes, FieldTypes
  <2>2. Len(FreeBlocks') = Len(FreeBlocks) + 0
        BY <2>1
  <2> QED BY <1>1, <1>4, <2>1, <2>2, LoopTypesKept
<1>7. ~Listed(OccupiedBlocks, new)
      BY <1>1, <1>3, Flags DEF Splits, Matched
<1>8. Matched'
      BY <1>1, <1>4, <1>7, Flags DEF Matched, Splits, FieldsOf, OthersUnchanged
<1> QED BY <1>2, <1>5, <1>6, <1>8, StructureParts, PTL

(* MemBlockAlloc, when a block is made of new pages: the page tables and   *)
(* the list of occupied blocks.                                            *)
LEMMA MakesKeepsStructure ==
    ASSUME HeapStructure, NEW new, NEW first, NEW size \in Nat,
           Makes(new, first, size)
    PROVE  /\ FramesTypeOK'
           /\ OccupiedBlocks' \in Seq(Elems) /\ Distinct(OccupiedBlocks')
           /\ Len(OccupiedBlocks') = Len(OccupiedBlocks) + 1
           /\ \A x : Listed(OccupiedBlocks', x) <=> Listed(OccupiedBlocks, x) \/ x = new
<1>1. FramesTypeOK /\ FieldTypes /\ LoopTypes /\ Matched
      BY StructureParts
<1>2. FramesTypeOK'
      BY <1>1, TakePagesKeepsTables DEF FramesTypeOK, Makes
<1>3. /\ new \in Elems /\ OccupiedBlocks \in Seq(Elems)
      /\ Address' \in [Elems -> Nat]
      /\ OccupiedBlocks' = ListInsertOrdered(OccupiedBlocks, new, Address')
      BY <1>1 DEF Makes, FieldTypes
<1>4. /\ OccupiedBlocks' \in Seq(Elems)
      /\ Len(OccupiedBlocks') = Len(OccupiedBlocks) + 1
      /\ \A x : Listed(OccupiedBlocks', x) <=> Listed(OccupiedBlocks, x) \/ x = new
      /\ Distinct(OccupiedBlocks) /\ ~Listed(OccupiedBlocks, new)
            => Distinct(OccupiedBlocks')
      BY <1>3, Inserted
<1>5. Distinct(OccupiedBlocks) /\ ~Listed(OccupiedBlocks, new)
      BY <1>1, <1>3, Flags DEF Makes, Matched
<1> QED BY <1>2, <1>4, <1>5

(* MemBlockAlloc, when the block fills its pages.                          *)
LEMMA ExactKeepsStructure ==
    ASSUME HeapStructure, NEW new, NEW first, NEW size \in Nat,
           MakesExactly(new, first, size), UNCHANGED <<loopVars, consolePages>>
    PROVE  HeapStructure'
<1>1. FramesTypeOK /\ FieldTypes /\ LoopTypes /\ Matched
      BY StructureParts
<1>2. /\ FramesTypeOK'
      /\ OccupiedBlocks' \in Seq(Elems) /\ Distinct(OccupiedBlocks')
      /\ Len(OccupiedBlocks') = Len(OccupiedBlocks) + 1
      /\ \A x : Listed(OccupiedBlocks', x) <=> Listed(OccupiedBlocks, x) \/ x = new
      BY MakesKeepsStructure DEF MakesExactly
<1>3. FieldTypes'
      BY <1>1, <1>2 DEF FieldTypes, MakesExactly, Makes
<1>4. LoopTypes'
  <2>1. shortage' \in BOOLEAN /\ FreeBlocks' = FreeBlocks /\ Len(FreeBlocks) \in Nat
        BY <1>1 DEF MakesExactly, LoopTypes, FieldTypes
  <2>2. Len(FreeBlocks') = Len(FreeBlocks) + 0
        BY <2>1
  <2> QED BY <1>1, <1>2, <2>1, <2>2, LoopTypesKept
<1>5. Matched'
      BY <1>1, <1>2, Flags
         DEF Matched, MakesExactly, Makes, FieldsOf, OthersUnchanged
<1> QED BY <1>2, <1>3, <1>4, <1>5, StructureParts, PTL

(* MemBlockAlloc, when part of the last page becomes a free block.         *)
LEMMA RestKeepsStructure ==
    ASSUME HeapStructure, NEW new, NEW rest, NEW first, NEW size \in Nat,
           MakesWithRest(new, rest, first, size),
           UNCHANGED <<loopVars, consolePages>>
    PROVE  HeapStructure'
<1>1. FramesTypeOK /\ FieldTypes /\ LoopTypes /\ Matched
      BY StructureParts
<1>2. /\ FramesTypeOK'
      /\ OccupiedBlocks' \in Seq(Elems) /\ Distinct(OccupiedBlocks')
      /\ Len(OccupiedBlocks') = Len(OccupiedBlocks) + 1
      /\ \A x : Listed(OccupiedBlocks', x) <=> Listed(OccupiedBlocks, x) \/ x = new
      BY MakesKeepsStructure DEF MakesWithRest
<1>3. /\ rest \in Elems /\ FreeBlocks \in Seq(Elems) /\ Address' \in [Elems -> Nat]
      /\ FreeBlocks' = ListInsertOrdered(FreeBlocks, rest, Address')
      BY <1>1 DEF MakesWithRest, Makes, FieldTypes
<1>4. /\ FreeBlocks' \in Seq(Elems) /\ Len(FreeBlocks') = Len(FreeBlocks) + 1
      /\ \A x : Listed(FreeBlocks', x) <=> Listed(FreeBlocks, x) \/ x = rest
      /\ Distinct(FreeBlocks) /\ ~Listed(FreeBlocks, rest) => Distinct(FreeBlocks')
      BY <1>3, Inserted
<1>5. Distinct(FreeBlocks) /\ ~Listed(FreeBlocks, rest)
      BY <1>1, <1>3, Flags DEF MakesWithRest, Matched
<1>6. FieldTypes'
      BY <1>1, <1>2, <1>4 DEF FieldTypes, MakesWithRest, Makes
<1>7. LoopTypes'
  <2>1. shortage' \in BOOLEAN
        BY <1>1 DEF MakesWithRest, LoopTypes
  <2> QED BY <1>1, <1>2, <1>4, <2>1, LoopTypesKept
<1>8. Matched'
      BY <1>1, <1>2, <1>4, <1>5, Flags
         DEF Matched, MakesWithRest, Makes, FieldsOf, OthersUnchanged
<1> QED BY <1>2, <1>6, <1>7, <1>8, StructureParts, PTL

(* MemBlockFree, when the block that was found changes its list.           *)
LEMMA FreeFoundKeepsStructure ==
    ASSUME HeapStructure, FreeFoundBlock
    PROVE  HeapStructure'
<1>1. FramesTypeOK /\ FieldTypes /\ LoopTypes /\ Matched
      BY StructureParts
<1>2. scanAt \in 1 .. Len(OccupiedBlocks) /\ OccupiedBlocks[scanAt] \in Elems
      BY <1>1 DEF FreeFoundBlock, FieldTypes
<1>3. PICK e \in Elems : e = OccupiedBlocks[scanAt]
      BY <1>2
<1>4. /\ OccupiedBlocks' = ListRemove(OccupiedBlocks, scanAt)
      /\ IsFree' = [IsFree EXCEPT ![e] = "TRUE"]
      /\ FreeBlocks' = ListInsertOrdered(FreeBlocks, e, Address)
      /\ Address' = Address /\ Size' = Size
      BY <1>3 DEF FreeFoundBlock
<1>5. IsFree[e] = "FALSE"
      BY <1>1, <1>2, <1>3 DEF Matched, Listed, FieldTypes
<1>6. FramesTypeOK'
      BY <1>1 DEF FramesTypeOK, FreeFoundBlock, frameVars
<1>7. /\ OccupiedBlocks' \in Seq(Elems)
      /\ Len(OccupiedBlocks') = Len(OccupiedBlocks) - 1 /\ Len(OccupiedBlocks) \in Nat
      /\ \A x : Listed(OccupiedBlocks', x) <=> Listed(OccupiedBlocks, x) /\ x # e
      /\ Distinct(OccupiedBlocks')
  <2>1. OccupiedBlocks \in Seq(Elems) /\ Distinct(OccupiedBlocks)
        BY <1>1 DEF FieldTypes, Matched
  <2> QED BY <1>2, <1>3, <1>4, <2>1, Removed
<1>8. /\ FreeBlocks' \in Seq(Elems)
      /\ \A x : Listed(FreeBlocks', x) <=> Listed(FreeBlocks, x) \/ x = e
      /\ Distinct(FreeBlocks) /\ ~Listed(FreeBlocks, e) => Distinct(FreeBlocks')
  <2>1. FreeBlocks \in Seq(Elems) /\ Address \in [Elems -> Nat]
        BY <1>1 DEF FieldTypes
  <2> QED BY <1>4, <2>1, Inserted
<1>9. Distinct(FreeBlocks')
      BY <1>1, <1>5, <1>8, Flags DEF Matched
<1>10. FieldTypes'
      BY <1>1, <1>4, <1>7, <1>8 DEF FieldTypes
<1>11. LoopTypes'
  <2>1. Len(FreeBlocks') \in Nat
        BY <1>8
  <2>2. scanAt \in 1 .. Len(OccupiedBlocks') + 1
        BY <1>2, <1>7
  <2>3. /\ pc' = "merge" /\ at' = 1 /\ target' = target /\ scanAt' = scanAt
        /\ consolePages' = consolePages /\ shortage' = shortage
        BY DEF FreeFoundBlock, BeginCompaction
  <2>4. at' \in 1 .. Len(FreeBlocks') + 1
        BY <2>1, <2>3
  <2> QED BY <1>1, <2>2, <2>3, <2>4 DEF LoopTypes, Frames
<1>12. /\ IsFree'[e] = "TRUE"
       /\ \A f \in Elems \ {e} : IsFree'[f] = IsFree[f]
      BY <1>1, <1>4 DEF FieldTypes
<1>13. Matched'
      BY <1>1, <1>4, <1>5, <1>7, <1>8, <1>9, <1>12, Flags DEF Matched
<1> QED BY <1>6, <1>10, <1>11, <1>13, StructureParts, PTL

(* A free block leaves its list and its element goes back to the pool, as  *)
(* in MergeBlocks and in ReleaseOnePageBlock.                              *)
Drops(e, k) ==
    /\ k \in 1 .. Len(FreeBlocks) /\ FreeBlocks[k] = e
    /\ FreeBlocks' = ListRemove(FreeBlocks, k)
    /\ IsFree' = [IsFree EXCEPT ![e] = U_BOOL]
    /\ Address' \in [Elems -> Nat] /\ Size' \in [Elems -> Nat]
    /\ Address'[e] = NULL /\ Size'[e] = 0
    /\ \A f \in Elems : IsFree[f] = U_BOOL =>
          Address'[f] = Address[f] /\ Size'[f] = Size[f]
    /\ UNCHANGED <<OccupiedBlocks, loopVars, consolePages, shortage>>

(* CompactFreeBlocks, whenever an element goes back to the pool.           *)
LEMMA DropKeepsStructure ==
    ASSUME HeapStructure, NEW e \in Elems, NEW k, Drops(e, k), at <= Len(FreeBlocks),
           FramesTypeOK'
    PROVE  HeapStructure'
<1>1. FramesTypeOK /\ FieldTypes /\ LoopTypes /\ Matched
      BY StructureParts
<1>2. IsFree[e] = "TRUE"
      BY <1>1 DEF Matched, Listed, FieldTypes, Drops
<1>3. /\ FreeBlocks' \in Seq(Elems)
      /\ Len(FreeBlocks') = Len(FreeBlocks) - 1 /\ Len(FreeBlocks) \in Nat
      /\ \A x : Listed(FreeBlocks', x) <=> Listed(FreeBlocks, x) /\ x # e
      /\ Distinct(FreeBlocks')
  <2>1. FreeBlocks \in Seq(Elems) /\ Distinct(FreeBlocks)
        BY <1>1 DEF FieldTypes, Matched
  <2>2. /\ k \in 1 .. Len(FreeBlocks) /\ FreeBlocks[k] = e
        /\ FreeBlocks' = ListRemove(FreeBlocks, k)
        BY DEF Drops
  <2> QED BY <2>1, <2>2, Removed
<1>4. FieldTypes'
      BY <1>1, <1>3 DEF FieldTypes, Drops
<1>5. LoopTypes'
  <2>1. /\ pc' = pc /\ at' = at /\ target' = target /\ scanAt' = scanAt
        /\ consolePages' = consolePages /\ shortage' = shortage
        /\ OccupiedBlocks' = OccupiedBlocks
        BY DEF Drops, loopVars
  <2>2. at' \in 1 .. Len(FreeBlocks') + 1
        BY <1>1, <1>3, <2>1 DEF LoopTypes
  <2> QED BY <1>1, <2>1, <2>2 DEF LoopTypes, Frames
<1>6. IsFree'[e] = U_BOOL /\ \A f \in Elems \ {e} : IsFree'[f] = IsFree[f]
      BY <1>1 DEF FieldTypes, Drops
<1>7. Matched'
      BY <1>1, <1>2, <1>3, <1>6, Flags DEF Matched, Drops
<1> QED BY <1>4, <1>5, <1>7, StructureParts, PTL

(* What merging does to the elements.                                      *)
Merges(e, next) ==
    /\ at + 1 \in 1 .. Len(FreeBlocks)
    /\ e = FreeBlocks[at] /\ next = FreeBlocks[at + 1]
    /\ e \in Elems /\ next \in Elems /\ e # next
    /\ IsFree[e] = "TRUE" /\ IsFree[next] = "TRUE"
    /\ Address[e] + Size[e] = Address[next]
    /\ FieldsOf(e)' = <<Address[e], Size[e] + Size[next], "TRUE">>
    /\ FieldsOf(next)' = <<NULL, 0, U_BOOL>>
    /\ OthersUnchanged({e, next})
    /\ UNCHANGED <<frameVars, OccupiedBlocks, consolePages, shortage>>

(* MergeBlocks joins two elements of the list of free blocks, and the      *)
(* second one goes back to the pool.                                       *)
LEMMA MergeFacts ==
    ASSUME HeapStructure, MergeBlocks
    PROVE  HeapStructure' /\ \E e, next : Merges(e, next) /\ Drops(next, at + 1)
<1>1. FramesTypeOK /\ FieldTypes /\ LoopTypes /\ Matched
      BY StructureParts
<1>2. at \in 1 .. Len(FreeBlocks) /\ at + 1 \in 1 .. Len(FreeBlocks)
      BY <1>1 DEF MergeBlocks, MergesWithNext, LoopTypes, FieldTypes
<1>3. PICK e \in Elems : e = FreeBlocks[at]
      BY <1>1, <1>2 DEF FieldTypes
<1>4. PICK next \in Elems : next = FreeBlocks[at + 1]
      BY <1>1, <1>2 DEF FieldTypes
<1>5. /\ Address' = [Address EXCEPT ![next] = NULL]
      /\ Size' = [Size EXCEPT ![e] = @ + Size[next], ![next] = 0]
      /\ IsFree' = [IsFree EXCEPT ![next] = U_BOOL]
      /\ FreeBlocks' = ListRemove(FreeBlocks, at + 1)
      /\ Address[e] + Size[e] = Address[next]
      /\ UNCHANGED <<frameVars, OccupiedBlocks, loopVars, consolePages, shortage>>
      BY <1>3, <1>4 DEF MergeBlocks, MergesWithNext, EndOf
<1>6. e # next
  <2>1. at # at + 1
        BY <1>2
  <2> QED BY <1>1, <1>2, <1>3, <1>4, <2>1 DEF Matched, Distinct, FieldTypes
<1>7. IsFree[e] = "TRUE" /\ IsFree[next] = "TRUE"
      BY <1>1, <1>2, <1>3, <1>4 DEF Matched, Listed, FieldTypes
<1>8. /\ Address'[e] = Address[e] /\ Size'[e] = Size[e] + Size[next]
      /\ IsFree'[e] = "TRUE"
      /\ Address'[next] = NULL /\ Size'[next] = 0 /\ IsFree'[next] = U_BOOL
      /\ \A f \in Elems \ {e, next} :
            Address'[f] = Address[f] /\ Size'[f] = Size[f] /\ IsFree'[f] = IsFree[f]
      BY <1>1, <1>5, <1>6, <1>7 DEF FieldTypes
<1>9. Address' \in [Elems -> Nat] /\ Size' \in [Elems -> Nat]
  <2>1. Address' \in [Elems -> Nat]
        BY <1>1, <1>5 DEF FieldTypes, NULL
  <2>2. Size[e] + Size[next] \in Nat
        BY <1>1 DEF FieldTypes
  <2>3. Size' \in [Elems -> Nat]
        BY <1>1, <1>5, <1>6, <2>2 DEF FieldTypes
  <2> QED BY <2>1, <2>3
<1>10. Merges(e, next)
      BY <1>2, <1>3, <1>4, <1>5, <1>6, <1>7, <1>8
         DEF Merges, FieldsOf, OthersUnchanged
<1>11. Drops(next, at + 1)
      BY <1>2, <1>4, <1>5, <1>7, <1>8, <1>9, Flags DEF Drops
<1>12. HeapStructure'
  <2>1. FramesTypeOK'
        BY <1>1, <1>5 DEF FramesTypeOK, frameVars
  <2>2. at <= Len(FreeBlocks)
        BY <1>1, <1>2 DEF FieldTypes
  <2> QED BY <1>11, <2>1, <2>2, DropKeepsStructure
<1> QED BY <1>10, <1>11, <1>12

(* The block that gives up its first page, wholly or in part.              *)
Covered(e) ==
    /\ at \in 1 .. Len(FreeBlocks) /\ e = FreeBlocks[at]
    /\ e \in Elems /\ IsFree[e] = "TRUE"
    /\ IsAlligned(Address[e]) /\ Size[e] >= PAGE_SIZE
    /\ ReleasePage(PageOf(Address[e]))
    /\ UNCHANGED <<OccupiedBlocks, consolePages, shortage>>
    /\ OthersUnchanged({e})

(* ReleaseOnePageBlock gives a page back, and the element with it.         *)
LEMMA ReleaseOneFacts ==
    ASSUME HeapStructure, ReleaseOnePageBlock
    PROVE  /\ HeapStructure'
           /\ \E e : /\ Covered(e) /\ Size[e] = PAGE_SIZE
                     /\ FieldsOf(e)' = <<NULL, 0, U_BOOL>>
                     /\ FreeBlocks' = ListRemove(FreeBlocks, at)
<1>1. FramesTypeOK /\ FieldTypes /\ LoopTypes /\ Matched
      BY StructureParts
<1>2. at \in 1 .. Len(FreeBlocks)
      BY <1>1 DEF ReleaseOnePageBlock, LoopTypes, FieldTypes
<1>3. PICK e \in Elems : e = FreeBlocks[at]
      BY <1>1, <1>2 DEF FieldTypes
<1>4. /\ Address' = [Address EXCEPT ![e] = NULL]
      /\ Size' = [Size EXCEPT ![e] = 0]
      /\ IsFree' = [IsFree EXCEPT ![e] = U_BOOL]
      /\ FreeBlocks' = ListRemove(FreeBlocks, at)
      /\ IsAlligned(Address[e]) /\ Size[e] = PAGE_SIZE
      /\ ReleasePage(PageOf(Address[e]))
      /\ UNCHANGED <<OccupiedBlocks, loopVars, consolePages, shortage>>
      BY <1>3 DEF ReleaseOnePageBlock, CoversPage
<1>5. IsFree[e] = "TRUE"
      BY <1>1, <1>2, <1>3 DEF Matched, Listed, FieldTypes
<1>6. /\ Address'[e] = NULL /\ Size'[e] = 0 /\ IsFree'[e] = U_BOOL
      /\ \A f \in Elems \ {e} :
            Address'[f] = Address[f] /\ Size'[f] = Size[f] /\ IsFree'[f] = IsFree[f]
      BY <1>1, <1>4 DEF FieldTypes
<1>7. Address' \in [Elems -> Nat] /\ Size' \in [Elems -> Nat]
      BY <1>1, <1>4 DEF FieldTypes, NULL
<1>8. Drops(e, at)
      BY <1>2, <1>3, <1>4, <1>5, <1>6, <1>7, Flags DEF Drops
<1>9. HeapStructure'
  <2>1. FramesTypeOK'
        BY <1>1, <1>4, ReleasePageKeepsTables DEF FramesTypeOK
  <2>2. at <= Len(FreeBlocks)
        BY <1>1, <1>2 DEF FieldTypes
  <2> QED BY <1>8, <2>1, <2>2, DropKeepsStructure
<1>10. Covered(e) /\ FieldsOf(e)' = <<NULL, 0, U_BOOL>>
  <2>1. Size[e] >= PAGE_SIZE
        BY <1>4, Constants
  <2> QED BY <1>2, <1>3, <1>4, <1>5, <1>6, <2>1 DEF Covered, FieldsOf, OthersUnchanged
<1> QED BY <1>4, <1>9, <1>10

(* ReleaseFirstPage gives a page back and moves the block up.              *)
LEMMA ReleaseFirstFacts ==
    ASSUME HeapStructure, ReleaseFirstPage
    PROVE  /\ HeapStructure'
           /\ \E e : /\ Covered(e) /\ Size[e] > PAGE_SIZE
                     /\ FieldsOf(e)' =
                          <<Address[e] + PAGE_SIZE, Size[e] - PAGE_SIZE, "TRUE">>
                     /\ FreeBlocks' = FreeBlocks
<1>1. FramesTypeOK /\ FieldTypes /\ LoopTypes /\ Matched
      BY StructureParts
<1>2. at \in 1 .. Len(FreeBlocks)
      BY <1>1 DEF ReleaseFirstPage, LoopTypes, FieldTypes
<1>3. PICK e \in Elems : e = FreeBlocks[at]
      BY <1>1, <1>2 DEF FieldTypes
<1>4. /\ Address' = [Address EXCEPT ![e] = @ + PAGE_SIZE]
      /\ Size' = [Size EXCEPT ![e] = @ - PAGE_SIZE]
      /\ IsAlligned(Address[e]) /\ Size[e] > PAGE_SIZE
      /\ ReleasePage(PageOf(Address[e]))
      /\ UNCHANGED <<IsFree, FreeBlocks, OccupiedBlocks, loopVars, consolePages,
                     shortage>>
      BY <1>3 DEF ReleaseFirstPage, CoversPage
<1>5. IsFree[e] = "TRUE"
      BY <1>1, <1>2, <1>3 DEF Matched, Listed, FieldTypes
<1>6. /\ Address'[e] = Address[e] + PAGE_SIZE /\ Size'[e] = Size[e] - PAGE_SIZE
      /\ \A f \in Elems \ {e} : Address'[f] = Address[f] /\ Size'[f] = Size[f]
      BY <1>1, <1>4 DEF FieldTypes
<1>7. Address' \in [Elems -> Nat] /\ Size' \in [Elems -> Nat]
  <2>1. Address[e] + PAGE_SIZE \in Nat /\ Size[e] - PAGE_SIZE \in Nat
        BY <1>1, <1>4, Constants DEF FieldTypes
  <2> QED BY <1>1, <1>4, <2>1 DEF FieldTypes
<1>8. FramesTypeOK'
      BY <1>1, <1>4, ReleasePageKeepsTables DEF FramesTypeOK
<1>9. FieldTypes'
      BY <1>1, <1>4, <1>7 DEF FieldTypes
<1>10. LoopTypes'
      BY <1>1, <1>4 DEF LoopTypes, loopVars, Frames
<1>11. Matched'
      BY <1>1, <1>4, <1>5, <1>6, Flags DEF Matched
<1>12. HeapStructure'
      BY <1>8, <1>9, <1>10, <1>11, StructureParts, PTL
<1>13. Covered(e)
  <2>1. Size[e] >= PAGE_SIZE
        BY <1>1, <1>4, Constants DEF FieldTypes
  <2> QED BY <1>2, <1>3, <1>4, <1>5, <1>6, <2>1 DEF Covered, FieldsOf, OthersUnchanged
<1>14. FieldsOf(e)' = <<Address[e] + PAGE_SIZE, Size[e] - PAGE_SIZE, "TRUE">>
      BY <1>4, <1>5, <1>6 DEF FieldsOf
<1> QED BY <1>4, <1>12, <1>13, <1>14

(* Steps that leave the elements and the lists alone.                      *)
LEMMA BlocksUntouchedKeepsStructure ==
    ASSUME HeapStructure, UNCHANGED blockVars, FramesTypeOK', LoopTypes'
    PROVE  HeapStructure'
<1>1. FieldTypes /\ Matched
      BY StructureParts
<1>2. FieldTypes' /\ Matched'
      BY <1>1 DEF FieldTypes, Matched, blockVars, Listed, Distinct
<1> QED BY <1>2, StructureParts, PTL

(* Steps that only move a loop of MemBlockFree.                            *)
LEMMA OnlyLoopMoves ==
    ASSUME HeapStructure, UNCHANGED <<frameVars, blockVars, consolePages, shortage>>,
           pc' \in {"idle", "scan", "merge", "release"}, target' \in Nat,
           scanAt' \in 1 .. Len(OccupiedBlocks) + 1, at' \in 1 .. Len(FreeBlocks) + 1
    PROVE  HeapStructure'
<1>1. FramesTypeOK /\ LoopTypes
      BY StructureParts
<1>2. FramesTypeOK'
      BY <1>1 DEF FramesTypeOK, frameVars
<1>3. LoopTypes'
      BY <1>1 DEF LoopTypes, blockVars, Frames
<1> QED BY <1>2, <1>3, BlocksUntouchedKeepsStructure

(* The steps of MemBlockFree that only move its loops, and its call.       *)
LEMMA MovesOfMemBlockFree ==
    ASSUME HeapStructure,
           \/ \E address \in Addresses : MemBlockFree(address)
           \/ ScanNextBlock \/ MemBlockFreeReturns \/ MergeNextBlock \/ MergeEnds
           \/ ReleaseNextBlock \/ ReleaseEnds
    PROVE  /\ HeapStructure'
           /\ UNCHANGED <<frameVars, blockVars, consolePages, shortage>>
<1>1. LoopTypes /\ Len(OccupiedBlocks) \in Nat /\ Len(FreeBlocks) \in Nat
      BY StructureParts DEF FieldTypes
<1>2. \A address \in Addresses : address \in Nat
  <2>1. MEMORY_MAP_ADDRESS + Pages * PAGE_SIZE \in Int
        BY Constants
  <2> QED BY <2>1 DEF Addresses
<1>3. DOMAIN OccupiedBlocks = 1 .. Len(OccupiedBlocks)
      /\ DOMAIN FreeBlocks = 1 .. Len(FreeBlocks)
      BY StructureParts DEF FieldTypes
<1>4. /\ UNCHANGED <<frameVars, blockVars, consolePages, shortage>>
      /\ pc' \in {"idle", "scan", "merge", "release"} /\ target' \in Nat
      /\ scanAt' \in 1 .. Len(OccupiedBlocks) + 1
      /\ at' \in 1 .. Len(FreeBlocks) + 1
  <2>1. ASSUME NEW address \in Addresses, MemBlockFree(address)
        PROVE  <1>4!:
        BY <1>1, <1>2, <2>1 DEF MemBlockFree, LoopTypes
  <2>2. CASE ScanNextBlock
        BY <1>1, <1>3, <2>2 DEF ScanNextBlock, LoopTypes
  <2>3. CASE MemBlockFreeReturns
        BY <1>1, <2>3 DEF MemBlockFreeReturns, LoopTypes, NULL
  <2>4. CASE MergeNextBlock
        BY <1>1, <1>3, <2>4 DEF MergeNextBlock, LoopTypes
  <2>5. CASE MergeEnds
        BY <1>1, <2>5 DEF MergeEnds, LoopTypes
  <2>6. CASE ReleaseNextBlock
        BY <1>1, <1>3, <2>6 DEF ReleaseNextBlock, LoopTypes
  <2>7. CASE ReleaseEnds
        BY <1>1, <2>7 DEF ReleaseEnds, LoopTypes
  <2> QED BY <2>1, <2>2, <2>3, <2>4, <2>5, <2>6, <2>7
<1> QED BY <1>4, OnlyLoopMoves

(* The console takes pages.                                                *)
LEMMA ConsoleAllocKeepsStructure ==
    ASSUME HeapStructure, NEW n, ConsolePageAlloc(n)
    PROVE  HeapStructure'
<1>1. FramesTypeOK /\ LoopTypes
      BY StructureParts
<1>2. PICK first \in Answers(n) :
         /\ TakePages(first, n)
         /\ consolePages' = IF first = NoPage THEN consolePages
                            ELSE consolePages \cup (Frames \cap first .. first + n - 1)
      BY DEF ConsolePageAlloc
<1>3. FramesTypeOK'
      BY <1>1, <1>2, TakePagesKeepsTables DEF FramesTypeOK
<1>4. UNCHANGED <<blockVars, loopVars, shortage>>
      BY DEF ConsolePageAlloc
<1>5. consolePages' \subseteq Frames
      BY <1>1, <1>2 DEF LoopTypes
<1>6. LoopTypes'
      BY <1>1, <1>4, <1>5 DEF LoopTypes, loopVars, blockVars, Frames
<1> QED BY <1>3, <1>4, <1>6, BlocksUntouchedKeepsStructure

(* The console gives a page back.                                          *)
LEMMA ConsoleFreeKeepsStructure ==
    ASSUME HeapStructure, NEW page, ConsolePageFree(page)
    PROVE  HeapStructure'
<1>1. FramesTypeOK /\ LoopTypes
      BY StructureParts
<1>2. FramesTypeOK'
      BY <1>1, ReleasePageKeepsTables DEF FramesTypeOK, ConsolePageFree
<1>3. UNCHANGED <<blockVars, loopVars, shortage>> /\ consolePages' = consolePages \ {page}
      BY DEF ConsolePageFree
<1>4. LoopTypes'
      BY <1>1, <1>3 DEF LoopTypes, loopVars, blockVars, Frames
<1> QED BY <1>2, <1>3, <1>4, BlocksUntouchedKeepsStructure

(* MemBlockAlloc, when the pool is empty: it breaks the heap, not the      *)
(* lists.                                                                  *)
LEMMA PoolExhaustedFacts ==
    ASSUME HeapStructure, NEW size, PoolExhausted(size),
           UNCHANGED <<loopVars, consolePages>>
    PROVE  HeapStructure' /\ status' = "corrupted"
<1>1. FramesTypeOK /\ LoopTypes
      BY StructureParts
<1>2. /\ status' = "corrupted"
      /\ UNCHANGED <<bits, blockVars, shortage, loopVars, consolePages>>
      BY DEF PoolExhausted
<1>3. FramesTypeOK'
      BY <1>1, <1>2 DEF FramesTypeOK
<1>4. LoopTypes'
      BY <1>1, <1>2 DEF LoopTypes, loopVars, blockVars, Frames
<1> QED BY <1>2, <1>3, <1>4, BlocksUntouchedKeepsStructure

(* MemBlockAlloc, in all its cases.                                        *)
LEMMA AllocKeepsStructure ==
    ASSUME HeapStructure, NEW size \in 0 .. MaxSize, MemBlockAlloc(size)
    PROVE  HeapStructure'
<1>1. size \in Nat /\ UNCHANGED <<loopVars, consolePages>>
      BY DEF MemBlockAlloc
<1>2. CASE SplitBlock(size)
      BY <1>1, <1>2, SplitFacts, SplitKeepsStructure
<1>3. CASE ExactBlock(size)
      BY <1>1, <1>3, ExactFacts, ExactKeepsStructure
<1>4. CASE BlockAndRest(size)
      BY <1>1, <1>4, RestFacts, RestKeepsStructure
<1>5. CASE PoolExhausted(size)
      BY <1>1, <1>5, PoolExhaustedFacts
<1> QED BY <1>2, <1>3, <1>4, <1>5 DEF MemBlockAlloc

(* Every step of the heap.                                                 *)
LEMMA StepKeepsStructure ==
    ASSUME HeapStructure, [HeapNext]_heapVars
    PROVE  HeapStructure'
<1>1. ASSUME NEW size \in 0 .. MaxSize, MemBlockAlloc(size)
      PROVE  HeapStructure'
      BY <1>1, AllocKeepsStructure
<1>2. ASSUME NEW n \in 0 .. MaxRequest, ConsolePageAlloc(n)
      PROVE  HeapStructure'
      BY <1>2, ConsoleAllocKeepsStructure
<1>3. ASSUME NEW page \in Frames, ConsolePageFree(page)
      PROVE  HeapStructure'
      BY <1>3, ConsoleFreeKeepsStructure
<1>4. CASE \/ \E address \in Addresses : MemBlockFree(address)
           \/ ScanNextBlock \/ MemBlockFreeReturns \/ MergeNextBlock \/ MergeEnds
           \/ ReleaseNextBlock \/ ReleaseEnds
      BY <1>4, MovesOfMemBlockFree
<1>5. CASE FreeFoundBlock
      BY <1>5, FreeFoundKeepsStructure
<1>6. CASE MergeBlocks
      BY <1>6, MergeFacts
<1>7. CASE ReleaseOnePageBlock
      BY <1>7, ReleaseOneFacts
<1>8. CASE ReleaseFirstPage
      BY <1>8, ReleaseFirstFacts
<1>9. CASE UNCHANGED heapVars
  <2>1. LoopTypes
        BY StructureParts
  <2>2. /\ UNCHANGED <<frameVars, blockVars, consolePages, shortage>>
        /\ pc' = pc /\ target' = target /\ scanAt' = scanAt /\ at' = at
        BY <1>9 DEF heapVars, loopVars
  <2> QED BY <2>1, <2>2, OnlyLoopMoves DEF LoopTypes
<1> QED BY <1>1, <1>2, <1>3, <1>4, <1>5, <1>6, <1>7, <1>8, <1>9
           DEF HeapNext, FreeStep

(* The state that InitMemory leaves.                                       *)
LEMMA InitIsStructured == HeapInit => HeapStructure
<1> SUFFICES ASSUME HeapInit PROVE HeapStructure
    OBVIOUS
<1>1. FramesTypeOK
      BY DEF HeapInit, FramesInit, FramesTypeOK, Frames
<1>2. FieldTypes /\ LoopTypes
  <2>1. FreeBlocks \in Seq(Elems) /\ OccupiedBlocks \in Seq(Elems)
        /\ Len(FreeBlocks) = 0 /\ Len(OccupiedBlocks) = 0
        BY DEF HeapInit
  <2>2. Address \in [Elems -> Nat] /\ Size \in [Elems -> Nat]
        /\ IsFree \in [Elems -> {"TRUE", "FALSE", U_BOOL}]
        BY DEF HeapInit, NULL
  <2>3. LoopTypes
    <3>1. /\ pc = "idle" /\ target = 0 /\ scanAt = 1 /\ at = 1
          /\ consolePages \subseteq Frames
          BY DEF HeapInit, NULL
    <3>2. shortage \in BOOLEAN
          BY DEF HeapInit
    <3>3. scanAt \in 1 .. Len(OccupiedBlocks) + 1 /\ at \in 1 .. Len(FreeBlocks) + 1
          BY <2>1, <3>1
    <3>4. pc \in {"idle", "scan", "merge", "release"} /\ target \in Nat
          /\ consolePages \subseteq Frames
          BY <3>1
    <3> QED BY <3>2, <3>3, <3>4 DEF LoopTypes
  <2> QED BY <2>1, <2>2, <2>3 DEF FieldTypes
<1>3. Matched
      BY Flags DEF HeapInit, Matched, Listed, Distinct
<1> QED BY <1>1, <1>2, <1>3, StructureParts

(* HeapStructure is inductive as it stands: no step of the allocator needs *)
(* more to keep the lists, the flags and the page tables in agreement, and *)
(* it does so also after a shortage of pages.                              *)
THEOREM HeapIsStructured == HeapSpec => []HeapStructure
BY InitIsStructured, StepKeepsStructure, PTL DEF HeapSpec

(* Every element of the pool is in the one place that its flag says, in    *)
(* every state that the block allocator reaches, for any pool and any      *)
(* arena.                                                                  *)
THEOREM HeapListsMatchFlags == HeapSpec => []ListsMatchFlags
<1>1. HeapStructure => ListsMatchFlags
      BY DEF HeapStructure
<1> QED BY <1>1, HeapIsStructured, PTL
=============================================================================
