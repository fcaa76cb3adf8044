---------------------------- MODULE ScreenProofs -----------------------------
(***************************************************************************)
(* Lemmas about the screen (Screen), and about division and steps, for a   *)
(* screen of any size.                                                     *)
(*                                                                         *)
(* Strings are put on the screen one character after the other; what holds *)
(* after all of them is proved from a first character after which it would *)
(* not.                                                                    *)
(***************************************************************************)
EXTENDS Screen, SequenceTheorems, WellFoundedInduction, TLAPS

-----------------------------------------------------------------------------
(***************************************************************************)
(* Numbers and steps.                                                      *)
(***************************************************************************)
(* The least of some positions is one of them.  This is what every         *)
(* induction below rests on.                                               *)
LEMMA LeastPosition ==
    ASSUME NEW S \in SUBSET Nat, S # {}
    PROVE  Min(S) \in S /\ \A x \in S : Min(S) <= x
<1>1. PICK x \in S : \A y \in S : <<y, x>> \notin OpToRel(<, Nat)
      BY NatLessThanWellFounded, WFMin
<1>2. \A y \in S : ~(y < x)
      BY <1>1 DEF OpToRel
<1>3. \A y \in S : x <= y
      BY <1>2
<1> QED BY <1>3 DEF Min

LEMMA Division ==
    ASSUME NEW x \in Int, NEW d \in Nat \ {0}
    PROVE  /\ x \div d \in Int /\ x % d \in 0 .. d - 1
           /\ x = (x \div d) * d + (x % d)
OBVIOUS

LEMMA QuotientAndRest ==
    ASSUME NEW d \in Nat \ {0}, NEW q \in Int, NEW r \in 0 .. d - 1
    PROVE  (q * d + r) \div d = q /\ (q * d + r) % d = r
<1>1. PICK x \in Int : x = q * d + r
      OBVIOUS
<1>2. PICK q2, r2 \in Int : q2 = x \div d /\ r2 = x % d /\ r2 \in 0 .. d - 1
          /\ x = q2 * d + r2
      BY Division
<1>3. PICK e \in Int : e = q - q2
      BY <1>2
<1>4. e * d = q * d - q2 * d
      BY <1>2, <1>3
<1>5. e * d = r2 - r
      BY <1>1, <1>2, <1>4
<1>6. ~(e >= 1)
  <2>1. ASSUME e >= 1 PROVE FALSE
    <3>1. e * d >= d
          BY <2>1
    <3> QED BY <1>2, <1>5, <3>1
  <2> QED BY <2>1
<1>7. ~(e <= -1)
  <2>1. ASSUME e <= -1 PROVE FALSE
    <3>1. e * d <= -d
          BY <2>1
    <3> QED BY <1>2, <1>5, <3>1
  <2> QED BY <2>1
<1>8. e = 0
      BY <1>6, <1>7
<1>9. q2 = q /\ r2 = r
      BY <1>2, <1>3, <1>5, <1>8
<1>10. x \div d = q /\ x % d = r
      BY <1>2, <1>9
<1> QED BY <1>1, <1>10, Zenon

LEMMA SmallRest ==
    ASSUME NEW x \in Nat, NEW d \in Nat, x < d
    PROVE  x % d = x
<1>1. d \in Nat \ {0} /\ x \in 0 .. d - 1 /\ x = 0 * d + x
      OBVIOUS
<1>2. (0 * d + x) % d = x
      BY <1>1, QuotientAndRest
<1> QED BY <1>1, <1>2, Zenon

(* What a rest leaves out is a multiple: it may be left out at any step.   *)
LEMMA RestOfSum ==
    ASSUME NEW a \in Nat, NEW d \in Nat, NEW w \in Nat \ {0},
           NEW b \in {10, 16}
    PROVE  ((a % w) * b + d) % w = (a * b + d) % w
<1>1. a \div w \in Int /\ a % w \in 0 .. w - 1 /\ a = (a \div w) * w + (a % w)
  <2>1. a \in Int
        OBVIOUS
  <2> QED BY <2>1, Division, Zenon
<1>2. PICK q \in Int, r \in 0 .. w - 1 : r = a % w /\ a = q * w + r
      BY <1>1
<1>3. PICK x \in Int : x = r * b + d
      BY <1>2
<1>4. x \div w \in Int /\ x % w \in 0 .. w - 1 /\ x = (x \div w) * w + (x % w)
      BY Division, Zenon
<1>5. PICK q1 \in Int, r1 \in 0 .. w - 1 : r1 = x % w /\ x = q1 * w + r1
      BY <1>4
<1>6. a * b + d = (q * b + q1) * w + r1
  <2>1. a * b = (q * b) * w + r * b
        BY <1>2
  <2>2. (q * b + q1) * w = (q * b) * w + q1 * w
        BY <1>2, <1>5
  <2>3. PICK u \in Int, v \in Int, z \in Int : u = (q * b) * w /\ v = q1 * w /\ z = r * b
        BY <1>2, <1>5
  <2>4. a * b = u + z /\ (q * b + q1) * w = u + v
        BY <2>1, <2>2, <2>3
  <2>5. x = z + d /\ x = v + r1
        BY <1>3, <1>5, <2>3
  <2>6. z + d = v + r1
        BY <2>5
  <2> QED BY <2>3, <2>4, <2>6
<1>7. q * b + q1 \in Int
      BY <1>2, <1>5
<1>8. ((q * b + q1) * w + r1) % w = r1
      BY <1>7, <1>5, QuotientAndRest
<1>9. (a * b + d) % w = r1
      BY <1>6, <1>8, Zenon
<1>10. (r * b + d) % w = r1
      BY <1>3, <1>5, Zenon
<1> QED BY <1>2, <1>9, <1>10, Zenon

(* Step by step: what a number of steps makes of a first value.            *)
Stepwise(f, S, first, n, step) ==
    /\ f \in [0 .. n -> S] /\ f[0] = first
    /\ \A k \in 1 .. n : f[k] = step[k][f[k - 1]]

LEMMA StepByStep ==
    ASSUME NEW S, NEW first \in S, NEW n \in Nat,
           NEW step \in [1 .. n -> [S -> S]]
    PROVE  \E f : Stepwise(f, S, first, n, step)
<1> DEFINE Runs(f, m) ==
              f[0] = first /\ \A k \in 1 .. m : f[k] = step[k][f[k - 1]]
           none == {m \in 0 .. n : ~ \E f \in [0 .. m -> S] : Runs(f, m)}
<1>1. none = {}
  <2> SUFFICES ASSUME none # {} PROVE FALSE
      OBVIOUS
  <2>0. none \subseteq Nat
        OBVIOUS
  <2>1. PICK m \in none : \A l \in none : m <= l
    <3> HIDE DEF none
    <3> QED BY <2>0, LeastPosition
  <2>2. m # 0
    <3>1. [k \in 0 .. 0 |-> first] \in [0 .. 0 -> S] /\ Runs([k \in 0 .. 0 |-> first], 0)
          OBVIOUS
    <3>2. \E f \in [0 .. 0 -> S] : Runs(f, 0)
      <4> HIDE DEF Runs
      <4> QED BY <3>1
    <3>3. 0 \notin none
      <4> HIDE DEF Runs
      <4> QED BY <3>2
    <3> QED BY <2>1, <3>3
  <2>3. m \in 1 .. n /\ m - 1 \in 0 .. n /\ m - 1 \notin none
    <3>1. m \in 0 .. n
          OBVIOUS
    <3> HIDE DEF none
    <3> QED BY <2>1, <2>2, <3>1
  <2>4. PICK g \in [0 .. m - 1 -> S] : Runs(g, m - 1)
        BY <2>3
  <2> DEFINE h == [k \in 0 .. m |-> IF k = m THEN step[m][g[m - 1]] ELSE g[k]]
  <2>5. step[m][g[m - 1]] \in S
        BY <2>3, <2>4
  <2>6. h \in [0 .. m -> S]
        BY <2>3, <2>4, <2>5
  <2>7. Runs(h, m)
    <3>1. h[0] = first
          BY <2>3, <2>4
    <3>2. ASSUME NEW k \in 1 .. m PROVE h[k] = step[k][h[k - 1]]
          BY <2>3, <2>4, <3>2
    <3> QED BY <3>1, <3>2
  <2> QED BY <2>1, <2>6, <2>7
<1>2. \E f \in [0 .. n -> S] : Runs(f, n)
      BY <1>1
<1> QED BY <1>2 DEF Stepwise

(* What every step leaves in a set is in it at the end.                    *)
LEMMA StepsStay ==
    ASSUME NEW S, NEW n \in Nat, NEW f, f[0] \in S,
           \A k \in 1 .. n : f[k - 1] \in S => f[k] \in S
    PROVE  \A k \in 0 .. n : f[k] \in S
<1> DEFINE none == {m \in 0 .. n : f[m] \notin S}
<1>1. none = {}
  <2> SUFFICES ASSUME none # {} PROVE FALSE
      OBVIOUS
  <2>0. none \subseteq Nat
        OBVIOUS
  <2>1. PICK m \in none : \A l \in none : m <= l
    <3> HIDE DEF none
    <3> QED BY <2>0, LeastPosition
  <2>2. m \in 1 .. n /\ f[m] \notin S
        OBVIOUS
  <2>3. m - 1 \in 0 .. n /\ m - 1 \notin none
    <3> HIDE DEF none
    <3> QED BY <2>1, <2>2
  <2> QED BY <2>2, <2>3
<1> QED BY <1>1

(* What is the same before and after every step is the same.               *)
Agree(f, g, k) == f[k] = g[k]

LEMMA StepsAgree ==
    ASSUME NEW n \in Nat, NEW f, NEW g, Agree(f, g, 0),
           \A k \in 1 .. n : Agree(f, g, k - 1) => Agree(f, g, k)
    PROVE  \A k \in 0 .. n : Agree(f, g, k)
<1> USE DEF Agree
<1> DEFINE none == {m \in 0 .. n : f[m] # g[m]}
<1>1. none = {}
  <2> SUFFICES ASSUME none # {} PROVE FALSE
      OBVIOUS
  <2>0. none \subseteq Nat
        OBVIOUS
  <2>1. PICK m \in none : \A l \in none : m <= l
    <3> HIDE DEF none
    <3> QED BY <2>0, LeastPosition
  <2>2. m \in 1 .. n /\ f[m] # g[m]
        OBVIOUS
  <2>3. m - 1 \in 0 .. n /\ m - 1 \notin none
    <3> HIDE DEF none
    <3> QED BY <2>1, <2>2
  <2> QED BY <2>2, <2>3
<1> QED BY <1>1

-----------------------------------------------------------------------------
(***************************************************************************)
(* Cells and the cursor.                                                   *)
(***************************************************************************)

Cells == 0 .. MAX_OFFSET - 1

(* What a screen is, whatever it shows.                                    *)
IsScreen(s) ==
    /\ s = [cells |-> s.cells, cursor |-> s.cursor]
    /\ s.cells = [pos \in Cells |-> s.cells[pos]]
    /\ s.cursor \in 0 .. LOCATIONS - 1

(* The size of the screen.                                                 *)
LEMMA ScreenSize ==
    /\ MAX_COLUMNS \in Nat \ {0} /\ MAX_OFFSET \in Nat \ {0}
    /\ LOCATIONS \in Nat /\ MAX_OFFSET < LOCATIONS
    /\ MAX_OFFSET <= MAX_COLUMNS * MAX_COLUMNS
<1>1. PICK c, l \in Nat \ {0} : c = MAX_COLUMNS /\ l = MAX_LINES /\ l <= c
      BY ScreenAssumption
<1>2. l * c \in Nat \ {0} /\ l * c <= c * c
      BY <1>1
<1> QED BY <1>1, <1>2, ScreenAssumption DEF MAX_OFFSET, LOCATIONS

(* Moving the cursor leaves the cells alone, and it goes where it is told  *)
(* to, if that is on the screen or the first place behind it.              *)
LEMMA CursorMoves ==
    ASSUME NEW s, IsScreen(s), NEW pos \in Int
    PROVE  /\ IsScreen(CursorPosition(s, pos))
           /\ CursorPosition(s, pos).cells = s.cells
           /\ pos \in 0 .. MAX_OFFSET => CursorPosition(s, pos).cursor = pos
<1>1. PICK p \in Int : p = IF pos > MAX_OFFSET THEN pos % MAX_OFFSET ELSE pos
  <2>1. pos % MAX_OFFSET \in Int
        BY ScreenSize, Division
  <2> QED BY <2>1
<1>2. PICK q : q = (p \div MAX_COLUMNS) * MAX_COLUMNS + (p % MAX_COLUMNS)
      OBVIOUS
<1>3. q = p
  <2>1. PICK d \in Nat \ {0} : d = MAX_COLUMNS
        BY ScreenSize
  <2>2. p = (p \div d) * d + (p % d)
        BY <1>1, <2>1, Division
  <2> QED BY <1>2, <2>1, <2>2, Zenon
<1>4. q % LOCATIONS \in 0 .. LOCATIONS - 1
      BY <1>3, ScreenSize, Division DEF LOCATIONS
<1>5. pos \in 0 .. MAX_OFFSET => q % LOCATIONS = pos
  <2>1. ASSUME pos \in 0 .. MAX_OFFSET PROVE q % LOCATIONS = pos
    <3>1. PICK m, l \in Nat : m = MAX_OFFSET /\ l = LOCATIONS /\ m < l
          BY ScreenSize
    <3>2. pos \in Nat /\ pos < l /\ ~(pos > m)
          BY <2>1, <3>1
    <3>3. pos % l = pos
          BY <3>1, <3>2, SmallRest
    <3>4. q = pos
          BY <1>1, <1>3, <3>1, <3>2
    <3> QED BY <3>1, <3>3, <3>4, Zenon
  <2> QED BY <2>1
<1>6. CursorPosition(s, pos) = [s EXCEPT !.cursor = q % LOCATIONS]
      BY <1>1, <1>2 DEF CursorPosition, CursorMove
<1>7. CursorPosition(s, pos) = [cells |-> s.cells, cursor |-> q % LOCATIONS]
      BY <1>6 DEF IsScreen
<1> QED BY <1>4, <1>5, <1>7 DEF IsScreen

(* From no place behind the beginning of the screen it leaves the screen.  *)
LEMMA CursorStaysOnScreen ==
    ASSUME NEW s, IsScreen(s), NEW pos \in Nat
    PROVE  CursorPosition(s, pos).cursor \in 0 .. MAX_OFFSET
<1>1. PICK max \in Nat \ {0} : max = MAX_OFFSET
      BY ScreenSize
<1>2. CASE pos <= max
      BY <1>1, <1>2, CursorMoves
<1>3. CASE pos > max
  <2>1. PICK p \in Int : p = pos % max /\ p \in 0 .. max - 1
    <3>1. pos % max \in 0 .. max - 1
          BY Division
    <3> QED BY <3>1
  <2>2. p \in 0 .. max /\ ~(p > max)
        BY <2>1
  <2>3. CursorPosition(s, pos) = CursorPosition(s, p)
    <3>1. (IF pos > MAX_OFFSET THEN pos % MAX_OFFSET ELSE pos) = p
          BY <1>1, <1>3, <2>1, Zenon
    <3>2. (IF p > MAX_OFFSET THEN p % MAX_OFFSET ELSE p) = p
          BY <1>1, <2>2, Zenon
    <3> QED BY <3>1, <3>2, Zenon DEF CursorPosition
  <2>4. CursorPosition(s, p).cursor = p
        BY <1>1, <2>2, CursorMoves
  <2> QED BY <1>1, <2>2, <2>3, <2>4
<1> QED BY <1>2, <1>3

(* A character that is no end of a line is written where the cursor is.    *)
LEMMA CharIsPut ==
    ASSUME NEW s, IsScreen(s), NEW c
    PROVE  /\ IsScreen(PutChar(s, c))
           /\ c # EndOfLine /\ s.cursor < MAX_OFFSET =>
                /\ PutChar(s, c).cursor = s.cursor + 1
                /\ PutChar(s, c).cells =
                     [pos \in Cells |-> IF pos = s.cursor THEN c
                         ELSE s.cells[pos]]
<1>1. s.cursor \in Nat
      BY ScreenSize DEF IsScreen
<1>2. CASE c = EndOfLine
  <2>1. (s.cursor \div MAX_COLUMNS + 1) * MAX_COLUMNS \in Int
    <3>1. s.cursor \div MAX_COLUMNS \in Int
          BY <1>1, ScreenSize, Division
    <3> QED BY <3>1, ScreenSize
  <2>2. PutChar(s, c) = CursorPosition(s, (s.cursor \div MAX_COLUMNS + 1) * MAX_COLUMNS)
        BY <1>2 DEF PutChar, NewLine
  <2> QED BY <1>2, <2>1, <2>2, CursorMoves
<1>3. CASE c # EndOfLine
  <2>1. PICK t : t = Put(s, c, s.cursor)
        OBVIOUS
  <2>2. IsScreen(t) /\ t.cursor = s.cursor
    <3>1. CASE s.cursor \in Cells
      <4>1. t = [s EXCEPT !.cells[s.cursor] = c]
            BY <2>1, <3>1 DEF Put, Cells
      <4>2. t = [cells |-> [s.cells EXCEPT ![s.cursor] = c], cursor |-> s.cursor]
            BY <4>1 DEF IsScreen
      <4> QED BY <4>2 DEF IsScreen
    <3>2. CASE s.cursor \notin Cells
          BY <2>1, <3>2 DEF Put, Cells
    <3> QED BY <3>1, <3>2
  <2>3. s.cursor < MAX_OFFSET =>
          t.cells = [pos \in Cells |-> IF pos = s.cursor THEN c
              ELSE s.cells[pos]]
    <3>1. ASSUME s.cursor < MAX_OFFSET
          PROVE  t.cells = [pos \in Cells |-> IF pos = s.cursor THEN c
              ELSE s.cells[pos]]
      <4>1. s.cursor \in Cells
            BY <1>1, <3>1, ScreenSize DEF Cells
      <4>2. t.cells = [s.cells EXCEPT ![s.cursor] = c]
            BY <2>1, <4>1 DEF Put, Cells, IsScreen
      <4> QED BY <4>1, <4>2 DEF IsScreen
    <3> QED BY <3>1
  <2>4. PutChar(s, c) = CursorPosition(t, s.cursor + 1)
        BY <1>3, <2>1 DEF PutChar, PutCharAtPos
  <2>5. s.cursor + 1 \in Int /\ (s.cursor < MAX_OFFSET
            => s.cursor + 1 \in 0 .. MAX_OFFSET)
        BY <1>1, ScreenSize
  <2> QED BY <2>2, <2>3, <2>4, <2>5, CursorMoves
<1> QED BY <1>2, <1>3

(* One character after the other: a screen for each of them, from a first  *)
(* one that the next follow from.                                          *)
PutOneByOne(f, s, str) ==
    /\ f[0] = s
    /\ \A k \in 1 .. Len(str) : f[k] = PutChar(f[k - 1], str[k])
    /\ PutString(s, str) = f[Len(str)]

LEMMA StringIsPut ==
    ASSUME NEW s, NEW str, Len(str) \in Nat
    PROVE  \E f : PutOneByOne(f, s, str)
<1> DEFINE Puts(f, n) == /\ f[0] = s
                         /\ \A k \in 1 .. n : f[k] = PutChar(f[k - 1], str[k])
           Solves(f) == f = [k \in 0 .. Len(str) |->
                               IF k = 0 THEN s ELSE PutChar(f[k - 1], str[k])]
           after == CHOOSE f : Solves(f)
           none == {n \in Nat : ~ \E f : Puts(f, n)}
<1>1. none = {}
  <2> SUFFICES ASSUME none # {} PROVE FALSE
      OBVIOUS
  <2>1. PICK n \in none : \A m \in none : n <= m
        BY LeastPosition
  <2>2. n # 0
    <3>1. Puts([k \in {0} |-> s], 0)
          OBVIOUS
    <3> QED BY <2>1, <3>1
  <2>3. n - 1 \in Nat /\ n - 1 \notin none
        BY <2>1, <2>2
  <2>4. PICK g : Puts(g, n - 1)
        BY <2>3
  <2> DEFINE h == [k \in 0 .. n |-> IF k = n THEN PutChar(g[n - 1], str[n])
          ELSE g[k]]
  <2>5. Puts(h, n)
    <3>1. h[0] = s
          BY <2>2, <2>3, <2>4
    <3>2. ASSUME NEW k \in 1 .. n PROVE h[k] = PutChar(h[k - 1], str[k])
          BY <2>3, <2>4, <3>2
    <3> QED BY <3>1, <3>2
  <2> QED BY <2>1, <2>5
<1>2. PICK g : Puts(g, Len(str))
      BY <1>1
<1>3. Solves([k \in 0 .. Len(str) |-> g[k]])
      BY <1>2
<1> HIDE DEF Solves
<1>4. Solves(after)
      BY <1>3
<1>5. PutString(s, str) = after[Len(str)]
      BY DEF PutString, Solves
<1> HIDE DEF after
<1>6. Puts(after, Len(str))
      BY <1>4 DEF Solves
<1> QED BY <1>5, <1>6 DEF PutOneByOne

(* A string leaves a screen behind.                                        *)
LEMMA StringKeepsScreen ==
    ASSUME NEW s, IsScreen(s), NEW str, Len(str) \in Nat
    PROVE  IsScreen(PutString(s, str))
<1>0. PICK f : PutOneByOne(f, s, str)
      BY StringIsPut
<1>1. /\ f[0] = s
      /\ \A k \in 1 .. Len(str) : f[k] = PutChar(f[k - 1], str[k])
      /\ PutString(s, str) = f[Len(str)]
      BY <1>0 DEF PutOneByOne
<1> DEFINE wrong == {k \in Nat : k <= Len(str) /\ ~IsScreen(f[k])}
<1>2. wrong = {}
  <2> SUFFICES ASSUME wrong # {} PROVE FALSE
      OBVIOUS
  <2>1. PICK k \in wrong : \A m \in wrong : k <= m
        BY LeastPosition
  <2>2. k # 0 /\ k \in Nat /\ k <= Len(str) /\ ~IsScreen(f[k])
        BY <1>1, <2>1
  <2>3. k - 1 \in Nat /\ k - 1 <= Len(str) /\ k - 1 \notin wrong
            /\ k \in 1 .. Len(str)
        BY <2>1, <2>2
  <2>4. PICK t, c : t = f[k - 1] /\ c = str[k]
        OBVIOUS
  <2>5. IsScreen(t) /\ f[k] = PutChar(t, c)
        BY <1>1, <2>3, <2>4
  <2>6. IsScreen(PutChar(t, c))
        BY <2>5, CharIsPut
  <2> QED BY <2>2, <2>5, <2>6
<1>3. IsScreen(f[Len(str)])
      BY <1>2
<1> QED BY <1>1, <1>3

(* A string without ends of lines that does not go over the end of the     *)
(* screen stands in the cells from the cursor on, and the cursor behind it.*)
Written(s, str, n) ==
    [pos \in Cells |->
        IF pos \in s.cursor .. s.cursor + n - 1 THEN str[pos - s.cursor + 1]
        ELSE s.cells[pos]]

LEMMA StringIsWritten ==
    ASSUME NEW s, IsScreen(s), NEW str, Len(str) \in Nat,
           \A k \in 1 .. Len(str) : str[k] # EndOfLine,
           s.cursor + Len(str) <= MAX_OFFSET
    PROVE  /\ PutString(s, str).cursor = s.cursor + Len(str)
           /\ PutString(s, str).cells = Written(s, str, Len(str))
<1>0. PICK f : PutOneByOne(f, s, str)
      BY StringIsPut
<1>1. /\ f[0] = s
      /\ \A k \in 1 .. Len(str) : f[k] = PutChar(f[k - 1], str[k])
      /\ PutString(s, str) = f[Len(str)]
      BY <1>0 DEF PutOneByOne
<1>2. PICK c, n, max \in Nat : c = s.cursor /\ n = Len(str) /\ max = MAX_OFFSET
      BY ScreenSize DEF IsScreen
<1>3. c + n <= max
      BY <1>2
<1> DEFINE Fits(k) == /\ IsScreen(f[k]) /\ f[k].cursor = c + k
                        /\ f[k].cells = Written(s, str, k)
           wrong == {k \in Nat : k <= n /\ ~Fits(k)}
<1>4. Fits(0)
  <2>1. Written(s, str, 0) = s.cells
    <3>1. \A pos \in Cells : pos \notin c .. c + 0 - 1
          BY <1>2
    <3> QED BY <1>2, <3>1 DEF Written, IsScreen
  <2> QED BY <1>1, <1>2, <2>1
<1>5. ASSUME NEW k \in 1 .. n, Fits(k - 1) PROVE Fits(k)
  <2>1. PICK t : t = f[k - 1]
        OBVIOUS
  <2>2. /\ IsScreen(t) /\ t.cursor = c + (k - 1)
            /\ t.cells = Written(s, str, k - 1)
        BY <1>5, <2>1
  <2>3. f[k] = PutChar(t, str[k]) /\ str[k] # EndOfLine
        BY <1>1, <1>2, <2>1
  <2>4. c + (k - 1) < max /\ (c + (k - 1)) + 1 = c + k
        BY <1>3
  <2>5. /\ IsScreen(f[k]) /\ f[k].cursor = c + k
        /\ f[k].cells = [pos \in Cells |-> IF pos = t.cursor THEN str[k]
            ELSE t.cells[pos]]
        BY <1>2, <2>2, <2>3, <2>4, CharIsPut
  <2>6. \A pos \in Cells :
           (IF pos = t.cursor THEN str[k]
               ELSE t.cells[pos]) = Written(s, str, k)[pos]
    <3> SUFFICES ASSUME NEW pos \in Cells
                 PROVE  (IF pos = t.cursor THEN str[k] ELSE t.cells[pos])
                           = Written(s, str, k)[pos]
        OBVIOUS
    <3>1. pos \in Int
          BY ScreenSize DEF Cells
    <3>2. /\ Written(s, str, k)[pos] =
                IF pos \in c .. c + k - 1 THEN str[pos - c + 1]
                    ELSE s.cells[pos]
          /\ t.cells[pos] =
                IF pos \in c .. c + (k - 1) - 1 THEN str[pos - c + 1]
                    ELSE s.cells[pos]
          BY <1>2, <2>2 DEF Written
    <3>3. CASE pos = c + (k - 1)
      <4>1. pos \in c .. c + k - 1 /\ pos - c + 1 = k
            BY <3>1, <3>3
      <4> QED BY <2>2, <3>2, <3>3, <4>1
    <3>4. CASE pos # c + (k - 1)
      <4>1. pos \in c .. c + k - 1 <=> pos \in c .. c + (k - 1) - 1
            BY <3>1, <3>4
      <4> QED BY <2>2, <3>2, <3>4, <4>1
    <3> QED BY <3>3, <3>4
  <2>7. f[k].cells = Written(s, str, k)
        BY <2>5, <2>6 DEF Written
  <2> QED BY <2>5, <2>7
<1>6. wrong = {}
  <2> SUFFICES ASSUME wrong # {} PROVE FALSE
      OBVIOUS
  <2>1. PICK k \in wrong : \A m \in wrong : k <= m
        BY LeastPosition
  <2>2. k \in Nat /\ k <= n /\ ~Fits(k)
        BY <2>1
  <2> HIDE DEF Fits
  <2>3. k # 0
        BY <1>4, <2>2
  <2>4. k - 1 \in Nat /\ k - 1 <= n /\ k - 1 \notin wrong /\ k \in 1 .. n
        BY <2>1, <2>2, <2>3
  <2> QED BY <1>5, <2>2, <2>4
<1>7. Fits(n)
      BY <1>6
<1> QED BY <1>1, <1>2, <1>7

(* Behind the last row a character is lost, and the cursor is then behind  *)
(* the first cell.                                                         *)
LEMMA CharIsLost ==
    ASSUME NEW s, IsScreen(s), s.cursor = MAX_OFFSET, 1 < MAX_OFFSET,
           NEW c, c # EndOfLine
    PROVE  /\ IsScreen(PutChar(s, c)) /\ PutChar(s, c).cells = s.cells
           /\ PutChar(s, c).cursor = 1
<1>1. PICK max \in Nat \ {0} : max = MAX_OFFSET /\ 1 < max
      BY ScreenSize
<1>2. max \notin 0 .. MAX_OFFSET - 1
      BY <1>1
<1>3. Put(s, c, max) = s
      BY <1>2, Zenon DEF Put
<1>4. PutChar(s, c) = CursorPosition(s, max + 1)
      BY <1>1, <1>3, Zenon DEF PutChar, PutCharAtPos
<1>5. (max + 1) % max = 1
  <2>1. 1 \in Int /\ 1 \in 0 .. max - 1 /\ 1 * max + 1 = max + 1
        BY <1>1
  <2>2. (1 * max + 1) % max = 1
        BY <2>1, QuotientAndRest
  <2> QED BY <2>1, <2>2, Zenon
<1>6. CursorPosition(s, max + 1) = CursorPosition(s, 1)
  <2>1. (IF max + 1 > MAX_OFFSET THEN (max + 1) % MAX_OFFSET ELSE max + 1) = 1
    <3>1. max + 1 > max
          BY <1>1
    <3> QED BY <1>1, <1>5, <3>1, Zenon
  <2>2. (IF 1 > MAX_OFFSET THEN 1 % MAX_OFFSET ELSE 1) = 1
    <3>1. ~(1 > max)
          BY <1>1
    <3> QED BY <1>1, <3>1, Zenon
  <2> QED BY <2>1, <2>2, Zenon DEF CursorPosition
<1>7. 1 \in Int /\ 1 \in 0 .. MAX_OFFSET
      BY <1>1
<1> QED BY <1>4, <1>6, <1>7, CursorMoves

(* So a string that is printed there loses the first character, and the    *)
(* others go to the first row, each one cell after the place it would have *)
(* had.                                                                    *)
WrittenFromTheTop(s, str, n) ==
    [pos \in Cells |-> IF pos \in 1 .. n - 1 THEN str[pos + 1] ELSE s.cells[pos]]

LEMMA StringIsWrittenFromTheTop ==
    ASSUME NEW s, IsScreen(s), s.cursor = MAX_OFFSET,
           NEW str, Len(str) \in 1 .. MAX_OFFSET - 1,
           \A k \in 1 .. Len(str) : str[k] # EndOfLine
    PROVE  PutString(s, str).cells = WrittenFromTheTop(s, str, Len(str))
<1>0. PICK f : PutOneByOne(f, s, str)
      BY ScreenSize, StringIsPut
<1>1. /\ f[0] = s
      /\ \A k \in 1 .. Len(str) : f[k] = PutChar(f[k - 1], str[k])
      /\ PutString(s, str) = f[Len(str)]
      BY <1>0 DEF PutOneByOne
<1>2. PICK n, max \in Nat : n = Len(str) /\ max = MAX_OFFSET /\ n \in 1 .. max - 1
      BY ScreenSize
<1> DEFINE Fits(k) == /\ IsScreen(f[k]) /\ f[k].cursor = k
                        /\ f[k].cells = WrittenFromTheTop(s, str, k)
           wrong == {k \in Nat : k \in 1 .. n /\ ~Fits(k)}
<1>4. Fits(1)
  <2>1. 1 < MAX_OFFSET /\ 1 \in 1 .. n
        BY <1>2
  <2>2. f[1] = PutChar(s, str[1]) /\ str[1] # EndOfLine
        BY <1>1, <1>2, <2>1
  <2>3. IsScreen(f[1]) /\ f[1].cells = s.cells /\ f[1].cursor = 1
        BY <2>1, <2>2, CharIsLost
  <2>4. WrittenFromTheTop(s, str, 1) = s.cells
    <3>1. \A pos \in Cells : pos \notin 1 .. 1 - 1
          OBVIOUS
    <3> QED BY <3>1 DEF WrittenFromTheTop, IsScreen
  <2> QED BY <2>3, <2>4
<1>5. ASSUME NEW k \in 2 .. n, Fits(k - 1) PROVE Fits(k)
  <2>1. PICK t : t = f[k - 1]
        OBVIOUS
  <2>2. /\ IsScreen(t) /\ t.cursor = k - 1
        /\ t.cells = WrittenFromTheTop(s, str, k - 1)
        BY <1>5, <2>1
  <2>3. f[k] = PutChar(t, str[k]) /\ str[k] # EndOfLine
        BY <1>1, <1>2, <2>1
  <2>4. k - 1 < max /\ (k - 1) + 1 = k
        BY <1>2
  <2>5. /\ IsScreen(f[k]) /\ f[k].cursor = k
        /\ f[k].cells = [pos \in Cells |-> IF pos = k - 1 THEN str[k] ELSE t.cells[pos]]
        BY <1>2, <2>2, <2>3, <2>4, CharIsPut
  <2>6. \A pos \in Cells :
           (IF pos = k - 1 THEN str[k] ELSE t.cells[pos])
              = WrittenFromTheTop(s, str, k)[pos]
    <3> SUFFICES ASSUME NEW pos \in Cells
                 PROVE  (IF pos = k - 1 THEN str[k] ELSE t.cells[pos])
                           = WrittenFromTheTop(s, str, k)[pos]
        OBVIOUS
    <3>1. pos \in Int
          BY ScreenSize DEF Cells
    <3>2. /\ WrittenFromTheTop(s, str, k)[pos] =
                IF pos \in 1 .. k - 1 THEN str[pos + 1] ELSE s.cells[pos]
          /\ t.cells[pos] =
                IF pos \in 1 .. (k - 1) - 1 THEN str[pos + 1] ELSE s.cells[pos]
          BY <2>2 DEF WrittenFromTheTop
    <3>3. CASE pos = k - 1
      <4>1. pos \in 1 .. k - 1 /\ pos + 1 = k
            BY <3>1, <3>3
      <4> QED BY <3>2, <3>3, <4>1
    <3>4. CASE pos # k - 1
      <4>1. pos \in 1 .. k - 1 <=> pos \in 1 .. (k - 1) - 1
            BY <3>1, <3>4
      <4> QED BY <3>2, <3>4, <4>1
    <3> QED BY <3>3, <3>4
  <2>7. f[k].cells = WrittenFromTheTop(s, str, k)
        BY <2>5, <2>6 DEF WrittenFromTheTop
  <2> QED BY <2>5, <2>7
<1>6. wrong = {}
  <2> SUFFICES ASSUME wrong # {} PROVE FALSE
      OBVIOUS
  <2>1. PICK k \in wrong : \A m \in wrong : k <= m
        BY LeastPosition
  <2>2. k \in Nat /\ k \in 1 .. n /\ ~Fits(k)
        BY <2>1
  <2> HIDE DEF Fits
  <2>3. k # 1
        BY <1>4, <2>2
  <2>4. k - 1 \in Nat /\ k - 1 \in 1 .. n /\ k - 1 \notin wrong /\ k \in 2 .. n
        BY <2>1, <2>2, <2>3
  <2> QED BY <1>5, <2>2, <2>4
<1>7. Fits(n)
  <2> HIDE DEF Fits
  <2>1. n \in Nat /\ n \in 1 .. n /\ n \notin wrong
        BY <1>2, <1>6
  <2> QED BY <2>1
<1> QED BY <1>1, <1>2, <1>7

(* Clearing the screen leaves a screen behind.                             *)
LEMMA ScreenIsCleared ==
    ASSUME NEW s, s = [cells |-> s.cells, cursor |-> s.cursor], DOMAIN s.cells = Cells
    PROVE  IsScreen(ClearScreen(s))
<1>1. PICK z \in Int : z = 0 * MAX_COLUMNS + 0 /\ z = 0
      BY ScreenSize
<1>2. z % LOCATIONS \in 0 .. LOCATIONS - 1
  <2>1. PICK l \in Nat \ {0} : l = LOCATIONS
        BY ScreenSize
  <2>2. z % l \in 0 .. l - 1
        BY Division
  <2> QED BY <2>1, <2>2, Zenon
<1>3. PICK c : c = ClearScreen(s)
      OBVIOUS
<1>4. PICK cells, cursor : s = [cells |-> cells, cursor |-> cursor]
          /\ DOMAIN cells = Cells
      OBVIOUS
<1>5. c = [cells |-> [pos \in Cells |-> Nothing], cursor |-> z % LOCATIONS]
      BY <1>1, <1>3, <1>4 DEF ClearScreen, CursorMove
<1> QED BY <1>2, <1>3, <1>5 DEF IsScreen

(* So does a new line.                                                     *)
LEMMA NewLineIsScreen ==
    ASSUME NEW s, IsScreen(s)
    PROVE  IsScreen(NewLine(s))
<1>1. s.cursor \in Int
      BY ScreenSize DEF IsScreen
<1>2. s.cursor \div MAX_COLUMNS \in Int
      BY <1>1, ScreenSize, Division
<1>3. (s.cursor \div MAX_COLUMNS + 1) * MAX_COLUMNS \in Int
      BY <1>2, ScreenSize
<1> QED BY <1>3, CursorMoves DEF NewLine

(* What can be read on the screen is what stands there up to the first     *)
(* empty cell.                                                             *)
StandsAt(s, p, len, line) ==
    /\ line = [k \in 1 .. len |-> line[k]] /\ p + len <= MAX_OFFSET
    /\ \A k \in 1 .. len : s.cells[p + k - 1] = line[k] /\ line[k] # Nothing
    /\ p + len < MAX_OFFSET => s.cells[p + len] = Nothing

LEMMA TextIsRead ==
    ASSUME NEW s, NEW p \in Nat, NEW len \in Nat, NEW line,
           StandsAt(s, p, len, line)
    PROVE  TextAt(s, p) = line
<1> USE DEF StandsAt
<1>2. PICK max \in Nat : max = MAX_OFFSET /\ p + len <= max
      BY ScreenSize
<1>3. \A k \in 1 .. len : line[k] # Nothing
      OBVIOUS
<1>4. /\ \A k \in 1 .. len : s.cells[p + k - 1] = line[k]
      /\ p + len < max => s.cells[p + len] = Nothing
      BY <1>2
<1> DEFINE ends == {q \in p .. MAX_OFFSET - 1 : s.cells[q] = Nothing} \cup {MAX_OFFSET}
           end == CHOOSE q \in ends : \A o \in ends : q <= o
<1>5. \A q \in ends : q \in Nat /\ p + len <= q
  <2> SUFFICES ASSUME NEW q \in ends PROVE q \in Nat /\ p + len <= q
      OBVIOUS
  <2>1. CASE q = max
        BY <1>2, <2>1
  <2>2. CASE q # max
    <3>1. q \in p .. max - 1 /\ s.cells[q] = Nothing
          BY <1>2, <2>2
    <3>2. q \in Nat
          BY <1>2, <3>1
    <3>3. ASSUME q < p + len PROVE FALSE
      <4>1. PICK k \in Nat : k = q - p + 1
            BY <1>2, <3>1, <3>2
      <4>2. k \in 1 .. len /\ p + k - 1 = q
            BY <1>2, <3>1, <3>2, <3>3, <4>1
      <4> QED BY <1>3, <1>4, <3>1, <4>2
    <3> QED BY <1>2, <3>2, <3>3
  <2> QED BY <2>1, <2>2
<1>6. p + len \in ends
  <2>1. CASE p + len = max
        BY <1>2, <2>1
  <2>2. CASE p + len # max
    <3>1. p + len < max /\ p + len \in p .. max - 1
          BY <1>2, <2>2
    <3> QED BY <1>2, <1>4, <3>1
  <2> QED BY <2>1, <2>2
<1>7. end = p + len
  <2> HIDE DEF ends
  <2>1. end \in ends /\ \A o \in ends : end <= o
        BY <1>5, <1>6
  <2>2. end <= p + len /\ p + len <= end /\ end \in Nat
        BY <1>5, <1>6, <2>1
  <2> QED BY <1>2, <2>2
<1>8. TextAt(s, p) = [k \in 1 .. end - p |-> s.cells[p + k - 1]]
      BY DEF TextAt
<1>9. end - p = len
  <2> HIDE DEF end
  <2> QED BY <1>2, <1>7
<1>10. TextAt(s, p) = [k \in 1 .. len |-> line[k]]
  <2> HIDE DEF end
  <2> QED BY <1>4, <1>8, <1>9
<1> QED BY <1>10
=============================================================================
