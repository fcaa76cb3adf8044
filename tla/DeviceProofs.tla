---------------------------- MODULE DeviceProofs ----------------------------
(***************************************************************************)
(* Proofs about the devices that the kernel reads and that do not wait for *)
(* it, the clock (Clock) and the keyboard (Keyboard), and about the numbers*)
(* that the commands read and print (Numbers, Commands).                   *)
(***************************************************************************)
EXTENDS Commands, Keyboard, ScreenProofs, FiniteSetTheorems

(***************************************************************************)
(* The clock: digits and dates.                                            *)
(***************************************************************************)
(* A register of two decimal digits is read as the number it shows.        *)
LEMMA DigitsAreRead ==
    ASSUME NEW n \in 0 .. 99
    PROVE  BCDToDec(BCD(n)) = n
<1>1. PICK t \in Nat, o \in Nat : t = n \div 10 /\ o = n % 10 /\ n = 10 * t + o /\ o < 10
      OBVIOUS
<1>2. t <= 9
      BY <1>1
<1>3. BCD(n) = 16 * t + o
      BY <1>1 DEF BCD
<1>4. PICK b \in Nat : b = 16 * t + o
      BY <1>1
<1>5. b % 16 = o /\ b \div 16 = t
      BY <1>1, <1>4
<1> QED BY <1>1, <1>3, <1>4, <1>5 DEF BCDToDec

(* A month has between 28 and 31 days.                                     *)
LEMMA MonthsHaveDays ==
    ASSUME NEW m \in 1 .. 12, NEW y \in 0 .. 99
    PROVE  DaysIn(m, y) \in 28 .. 31
BY DEF DaysIn

(* A second later the clock shows another date of the calendar, with the   *)
(* next second.                                                            *)
LEMMA SecondsGoOn ==
    ASSUME NEW d \in Calendar
    PROVE  /\ OneSecondOn(d) \in Calendar
           /\ OneSecondOn(d).second = (d.second + 1) % 60
<1>1. /\ d \in DATE /\ d.second \in 0 .. 59 /\ d.minute \in 0 .. 59
      /\ d.hour \in 0 .. 23 /\ d.day \in 1 .. 31 /\ d.month \in 1 .. 12
      /\ d.year \in 0 .. 99 /\ d.day <= DaysIn(d.month, d.year)
      BY DEF Calendar, DATE
<1>2. PICK n : n = DaysIn(d.month, d.year)
      OBVIOUS
<1>3. n \in 28 .. 31
      BY <1>1, <1>2, MonthsHaveDays
<1> DEFINE e == OneSecondOn(d)
<1>4. /\ e.second = (d.second + 1) % 60 /\ e.second \in 0 .. 59
      /\ e.minute \in 0 .. 59 /\ e.hour \in 0 .. 23
      BY <1>1 DEF OneSecondOn
<1>5. /\ e.month \in 1 .. 12 /\ e.year \in 0 .. 99
      BY <1>1 DEF OneSecondOn
<1>6. PICK N : N = DaysIn(e.month, e.year)
      OBVIOUS
<1>7. N \in 28 .. 31
      BY <1>5, <1>6, MonthsHaveDays
<1>8. e.day \in 1 .. 31 /\ e.day <= N
  <2>1. CASE d.day = n
    <3>1. CASE d.second = 59 /\ d.minute = 59 /\ d.hour = 23
          BY <1>2, <1>7, <2>1, <3>1 DEF OneSecondOn
    <3>2. CASE ~(d.second = 59 /\ d.minute = 59 /\ d.hour = 23)
      <4>1. e.month = d.month /\ e.year = d.year /\ e.day = d.day
            BY <3>2 DEF OneSecondOn
      <4> QED BY <1>1, <1>2, <1>6, <4>1
    <3> QED BY <3>1, <3>2
  <2>2. CASE d.day # n
    <3>1. e.month = d.month /\ e.year = d.year /\ e.day \in {d.day, d.day + 1}
          BY <1>2, <2>2 DEF OneSecondOn
    <3>2. N = n
          BY <1>2, <1>6, <3>1
    <3> QED BY <1>1, <1>2, <1>3, <2>2, <3>1, <3>2
  <2> QED BY <2>1, <2>2
<1>9. e \in DATE
      BY <1>4, <1>5, <1>8 DEF DATE, OneSecondOn
<1> QED BY <1>4, <1>6, <1>8, <1>9 DEF Calendar

-----------------------------------------------------------------------------
(***************************************************************************)
(* The clock: what has been read, completed with what the clock shows.     *)
(***************************************************************************)
(* The registers below n from what was read, the others from the clock.    *)
Completed(n, d, b) ==
    [second |-> IF n > 1 THEN d.second ELSE b.second,
     minute |-> IF n > 2 THEN d.minute ELSE b.minute,
     hour   |-> IF n > 3 THEN d.hour ELSE b.hour,
     day    |-> IF n > 4 THEN d.day ELSE b.day,
     month  |-> IF n > 5 THEN d.month ELSE b.month,
     year   |-> IF n > 6 THEN d.year ELSE b.year]

Parts == [second : Nat, minute : Nat, hour : Nat,
          day : Nat, month : Nat, year : Nat]

(* At the start it is what the clock shows, at the end what was read.      *)
LEMMA CompletedEnds ==
    ASSUME NEW d \in Parts, NEW b \in DATE
    PROVE  Completed(1, d, b) = b /\ Completed(7, d, b) = d
<1>1. Completed(1, d, b) = b
      BY DEF Completed, DATE
<1>2. Completed(7, d, b) = d
      BY DEF Completed, Parts
<1> QED BY <1>1, <1>2

(* It is a date of some kind, whatever the clock shows next.               *)
LEMMA CompletedIsDate ==
    ASSUME NEW n \in 1 .. 7, NEW d \in Parts, NEW b \in DATE, NEW c \in DATE,
           Completed(n, d, b) \in DATE
    PROVE  Completed(n, d, c) \in DATE
BY DEF Completed, DATE, Parts

(* Reading a register of a clock that is not changing leaves it as it is.  *)
LEMMA ReadingCompletes ==
    ASSUME NEW n \in 1 .. 6, NEW d \in Parts, NEW b \in DATE,
           NEW e, e = [d EXCEPT ![Registers[n]] = b[Registers[n]]]
    PROVE  e \in Parts /\ Completed(n + 1, e, b) = Completed(n, d, b)
<1>0. n \in {1, 2, 3, 4, 5, 6}
      OBVIOUS
<1>1. CASE n = 1
  <2>1. e = [d EXCEPT !.second = b.second]
        BY <1>1 DEF Registers
  <2> QED BY <1>1, <2>1 DEF Completed, DATE, Parts
<1>2. CASE n = 2
  <2>1. e = [d EXCEPT !.minute = b.minute]
        BY <1>2 DEF Registers
  <2> QED BY <1>2, <2>1 DEF Completed, DATE, Parts
<1>3. CASE n = 3
  <2>1. e = [d EXCEPT !.hour = b.hour]
        BY <1>3 DEF Registers
  <2> QED BY <1>3, <2>1 DEF Completed, DATE, Parts
<1>4. CASE n = 4
  <2>1. e = [d EXCEPT !.day = b.day]
        BY <1>4 DEF Registers
  <2> QED BY <1>4, <2>1 DEF Completed, DATE, Parts
<1>5. CASE n = 5
  <2>1. e = [d EXCEPT !.month = b.month]
        BY <1>5 DEF Registers
  <2> QED BY <1>5, <2>1 DEF Completed, DATE, Parts
<1>6. CASE n = 6
  <2>1. e = [d EXCEPT !.year = b.year]
        BY <1>6 DEF Registers
  <2> QED BY <1>6, <2>1 DEF Completed, DATE, Parts
<1> QED BY <1>0, <1>1, <1>2, <1>3, <1>4, <1>5, <1>6

(* What ReadRegister reads from a clock of two dates, one of them shown.   *)
LEMMA RegisterIsRead ==
    ASSUME NEW n \in 1 .. 6, NEW b \in DATE
    PROVE  /\ BCDToDec(BCD(b[Registers[n]])) = b[Registers[n]]
           /\ b[Registers[n]] \in 0 .. 99
<1>0. n \in {1, 2, 3, 4, 5, 6}
      OBVIOUS
<1>1. b[Registers[n]] \in 0 .. 99
      BY <1>0 DEF Registers, DATE
<1> QED BY <1>1, DigitsAreRead

-----------------------------------------------------------------------------
(***************************************************************************)
(* The clock: days and seconds.                                            *)
(***************************************************************************)
(* The days to the end of each month, without leap days.                   *)
DaysToEnd == <<31, 59, 90, 120, 151, 181, 212, 243, 273, 304, 334, 365>>

(* A recursive function is what its equation says as soon as some function *)
(* solves the equation: a table does.                                      *)
LEMMA DaysToIsTable ==
    \A m \in 1 .. 12 : DaysTo[m] = DaysToEnd[m]
<1> DEFINE Solves(f) == f = [m \in 0 .. 12 |->
                               IF m = 0 THEN 0 ELSE f[m - 1] + days_per_month[m]]
           table == [m \in 0 .. 12 |-> IF m = 0 THEN 0 ELSE DaysToEnd[m]]
<1>1. \A m \in 1 .. 12 : table[m] = table[m - 1] + days_per_month[m]
  <2> SUFFICES ASSUME NEW m \in 1 .. 12
               PROVE  table[m] = table[m - 1] + days_per_month[m]
      OBVIOUS
  <2>1. table[m] = DaysToEnd[m] /\ table[m - 1] = IF m = 1 THEN 0 ELSE DaysToEnd[m - 1]
        OBVIOUS
  <2>2. m \in {1, 2, 3, 4, 5, 6, 7, 8, 9, 10, 11, 12}
        OBVIOUS
  <2> HIDE DEF table
  <2> QED BY <2>1, <2>2 DEF DaysToEnd, days_per_month
<1>2. \A m \in 0 .. 12 : table[m] = IF m = 0 THEN 0 ELSE table[m - 1] + days_per_month[m]
      BY <1>1
<1>3. Solves(table)
  <2>1. table = [m \in 0 .. 12 |-> table[m]]
        OBVIOUS
  <2> HIDE DEF table
  <2> QED BY <1>2, <2>1
<1>4. DaysTo = CHOOSE f : Solves(f)
      BY DEF DaysTo
<1> HIDE DEF Solves
<1>5. Solves(DaysTo)
      BY <1>3, <1>4
<1>6. \A m \in 0 .. 12 : DaysTo[m] = IF m = 0 THEN 0 ELSE DaysTo[m - 1] + days_per_month[m]
      BY <1>5 DEF Solves
<1>7. /\ DaysTo[0] = 0
      /\ DaysTo[1] = DaysTo[0] + 31 /\ DaysTo[2] = DaysTo[1] + 28
      /\ DaysTo[3] = DaysTo[2] + 31 /\ DaysTo[4] = DaysTo[3] + 30
      /\ DaysTo[5] = DaysTo[4] + 31 /\ DaysTo[6] = DaysTo[5] + 30
      /\ DaysTo[7] = DaysTo[6] + 31 /\ DaysTo[8] = DaysTo[7] + 31
      /\ DaysTo[9] = DaysTo[8] + 30 /\ DaysTo[10] = DaysTo[9] + 31
      /\ DaysTo[11] = DaysTo[10] + 30 /\ DaysTo[12] = DaysTo[11] + 31
      BY <1>6 DEF days_per_month
<1>8. \A m \in {1, 2, 3, 4, 5, 6, 7, 8, 9, 10, 11, 12} : DaysTo[m] = DaysToEnd[m]
      BY <1>7 DEF DaysToEnd
<1> QED BY <1>8

LeapDay(y) == IF y % 4 = 0 THEN 1 ELSE 0

(* The days before a month, by the table.                                  *)
DaysFrom(y, m) ==
    (IF m = 1 THEN 0 ELSE DaysToEnd[m - 1]) + (IF m > 2 THEN LeapDay(y) ELSE 0)

LEMMA DaysFromGrows ==
    ASSUME NEW y \in 0 .. 99, NEW m \in 1 .. 12
    PROVE  DaysFrom(y, m) =
             IF m = 1 THEN 0 ELSE DaysFrom(y, m - 1) + DaysIn(m - 1, y)
<1>1. m \in {1, 2, 3, 4, 5, 6, 7, 8, 9, 10, 11, 12}
      OBVIOUS
<1>2. PICK l : l = LeapDay(y)
      OBVIOUS
<1>3. /\ l \in {0, 1}
      /\ DaysIn(1, y) = 31 /\ DaysIn(2, y) = 28 + l /\ DaysIn(3, y) = 31
      /\ DaysIn(4, y) = 30 /\ DaysIn(5, y) = 31 /\ DaysIn(6, y) = 30
      /\ DaysIn(7, y) = 31 /\ DaysIn(8, y) = 31 /\ DaysIn(9, y) = 30
      /\ DaysIn(10, y) = 31 /\ DaysIn(11, y) = 30
      BY <1>2 DEF DaysIn, LeapDay
<1>4. /\ DaysFrom(y, 1) = 0 /\ DaysFrom(y, 2) = 31
      /\ DaysFrom(y, 3) = 59 + l /\ DaysFrom(y, 4) = 90 + l
      /\ DaysFrom(y, 5) = 120 + l /\ DaysFrom(y, 6) = 151 + l
      /\ DaysFrom(y, 7) = 181 + l /\ DaysFrom(y, 8) = 212 + l
      /\ DaysFrom(y, 9) = 243 + l /\ DaysFrom(y, 10) = 273 + l
      /\ DaysFrom(y, 11) = 304 + l /\ DaysFrom(y, 12) = 334 + l
      BY <1>2, <1>3 DEF DaysFrom, DaysToEnd
<1> QED BY <1>1, <1>3, <1>4

LEMMA DaysBeforeIsTable ==
    ASSUME NEW y \in 0 .. 99, NEW month \in 1 .. 12
    PROVE  DaysBefore(month, y) = DaysFrom(y, month)
<1> DEFINE Solves(f) == f = [m \in 1 .. 12 |->
                               IF m = 1 THEN 0 ELSE f[m - 1] + DaysIn(m - 1, y)]
           table == [m \in 1 .. 12 |-> DaysFrom(y, m)]
           days == CHOOSE f : Solves(f)
<1>1. Solves(table)
  <2>1. \A m \in 1 .. 12 :
           table[m] = IF m = 1 THEN 0 ELSE table[m - 1] + DaysIn(m - 1, y)
        BY DaysFromGrows
  <2>2. table = [m \in 1 .. 12 |-> table[m]]
        OBVIOUS
  <2> HIDE DEF table
  <2> QED BY <2>1, <2>2
<1>2. DaysBefore(month, y) = days[month]
      BY DEF DaysBefore
<1>3. Solves(days)
  <2> HIDE DEF Solves
  <2> QED BY <1>1
<1> HIDE DEF days
<1>4. \A m \in 1 .. 12 : days[m] = IF m = 1 THEN 0 ELSE days[m - 1] + DaysIn(m - 1, y)
      BY <1>3
<1> DEFINE Same(m) == days[m] = DaysFrom(y, m)
<1>5. Same(1)
      BY <1>4, DaysFromGrows
<1>6. ASSUME NEW m \in 2 .. 12, Same(m - 1)
      PROVE  Same(m)
  <2>1. days[m] = days[m - 1] + DaysIn(m - 1, y)
        BY <1>4
  <2>2. DaysFrom(y, m) = DaysFrom(y, m - 1) + DaysIn(m - 1, y)
        BY DaysFromGrows
  <2> QED BY <1>6, <2>1, <2>2
<1> HIDE DEF Same
<1>7. Same(2) /\ Same(3)
       BY <1>5, <1>6
<1>8. Same(4) /\ Same(5) /\ Same(6)
       BY <1>7, <1>6
<1>9. Same(7) /\ Same(8) /\ Same(9)
       BY <1>8, <1>6
<1>10. Same(10) /\ Same(11) /\ Same(12)
       BY <1>9, <1>6
<1>11. Same(month)
  <2>1. month \in {1, 2, 3, 4, 5, 6, 7, 8, 9, 10, 11, 12}
        OBVIOUS
  <2> QED BY <1>5, <1>7, <1>8, <1>9, <1>10, <2>1
<1> QED BY <1>2, <1>11 DEF Same

(* The leap years before a year are 0, 4, 8 and so on.                     *)
LEMMA LeapYearsCounted ==
    ASSUME NEW y \in 0 .. 99
    PROVE  Cardinality({x \in 0 .. y - 1 : x % 4 = 0}) = (y + 3) \div 4
<1> DEFINE Leap == {x \in 0 .. y - 1 : x % 4 = 0}
<1>1. PICK q \in Nat, r \in 0 .. 3 : q = (y + 3) \div 4 /\ y + 3 = 4 * q + r
      OBVIOUS
<1> DEFINE f == [i \in 1 .. q |-> 4 * (i - 1)]
<1>2. \A i \in 1 .. q : f[i] \in Leap
  <2> SUFFICES ASSUME NEW i \in 1 .. q
               PROVE  f[i] \in Leap
      OBVIOUS
  <2>1. PICK x \in Nat : x = 4 * (i - 1)
        OBVIOUS
  <2>2. x % 4 = 0 /\ x \in 0 .. y - 1
        BY <1>1, <2>1
  <2> QED BY <2>1, <2>2
<1>3. \A i, j \in 1 .. q : f[i] = f[j] => i = j
      OBVIOUS
<1>4. ASSUME NEW x \in Leap
      PROVE  \E i \in 1 .. q : f[i] = x
  <2>1. PICK k \in Nat : x = 4 * k
    <3>1. x \in Nat /\ x % 4 = 0
          OBVIOUS
    <3>2. x = 4 * (x \div 4) /\ x \div 4 \in Nat
          BY <3>1
    <3> QED BY <3>2
  <2>2. k + 1 \in 1 .. q
        BY <1>1, <2>1
  <2> QED BY <2>1, <2>2
<1>5. f \in Bijection(1 .. q, Leap)
  <2>1. f \in [1 .. q -> Leap]
        BY <1>2
  <2>2. f \in Injection(1 .. q, Leap)
        BY <1>3, <2>1 DEF Injection, IsInjective
  <2>3. f \in Surjection(1 .. q, Leap)
        BY <1>4, <2>1 DEF Surjection
  <2> QED BY <2>2, <2>3 DEF Bijection
<1>6. IsFiniteSet(1 .. q) /\ Cardinality(1 .. q) = q
      BY FS_Interval
<1> HIDE DEF Leap, f
<1>7. Cardinality(Leap) = q
      BY <1>5, <1>6, FS_Bijection DEF ExistsBijection
<1> QED BY <1>1, <1>7 DEF Leap

(* The days since the start of the year 2000.                              *)
DayNumber(y, m, day) == 365 * y + ((y + 3) \div 4) + DaysFrom(y, m) + day - 1

LEMMA DaysAreNumbers ==
    ASSUME NEW y \in 0 .. 99, NEW m \in 1 .. 12
    PROVE  DaysFrom(y, m) \in 0 .. 335 /\ ((y + 3) \div 4) \in 0 .. 25
<1>1. DaysFrom(y, m) \in 0 .. 335
  <2>1. m \in {1, 2, 3, 4, 5, 6, 7, 8, 9, 10, 11, 12} /\ LeapDay(y) \in {0, 1}
        BY DEF LeapDay
  <2> QED BY <2>1 DEF DaysFrom, DaysToEnd
<1> QED BY <1>1

LEMMA DaysAreNatural ==
    ASSUME NEW y \in 0 .. 99, NEW m \in 1 .. 12
    PROVE  DaysFrom(y, m) \in Nat /\ 365 * y + ((y + 3) \div 4) \in Nat
<1>1. PICK q : q = (y + 3) \div 4
      OBVIOUS
<1>2. q \in 0 .. 25 /\ DaysFrom(y, m) \in 0 .. 335
      BY <1>1, DaysAreNumbers
<1>3. DaysFrom(y, m) \in Nat
      BY <1>2
<1>4. 365 * y + q \in Nat
      BY <1>2
<1> QED BY <1>1, <1>3, <1>4

(* A date in seconds.                                                      *)
LEMMA SecondsCounted ==
    ASSUME NEW d \in DATE, NEW n, n = DayNumber(d.year, d.month, d.day)
    PROVE  /\ n \in Nat
           /\ SecondsSince2000(d) =
                n * 86400 + d.hour * 3600 + d.minute * 60 + d.second
<1>1. /\ d.second \in 0 .. 59 /\ d.minute \in 0 .. 59
      /\ d.hour \in 0 .. 23 /\ d.day \in 1 .. 31 /\ d.month \in 1 .. 12
      /\ d.year \in 0 .. 99
      BY DEF DATE
<1>2. /\ Cardinality({y \in 0 .. d.year - 1 : y % 4 = 0}) = (d.year + 3) \div 4
      /\ DaysBefore(d.month, d.year) = DaysFrom(d.year, d.month)
      BY <1>1, LeapYearsCounted, DaysBeforeIsTable
<1>3. PICK l, b : l = (d.year + 3) \div 4 /\ b = DaysFrom(d.year, d.month)
      OBVIOUS
<1>4. l \in 0 .. 25 /\ b \in 0 .. 335
      BY <1>1, <1>3, DaysAreNumbers
<1>5. n = 365 * d.year + l + b + d.day - 1
      BY <1>3 DEF DayNumber
<1>6. n \in Nat
      BY <1>1, <1>4, <1>5
<1>7. SecondsSince2000(d) = n * DAY + (d.hour * 60 + d.minute) * 60 + d.second
      BY <1>2, <1>3, <1>5 DEF SecondsSince2000
<1>8. DAY = 86400
      BY SMT DEF DAY
<1> QED BY <1>1, <1>6, <1>7, <1>8, SMT

LEMMA SecondsAreNatural ==
    ASSUME NEW d \in DATE
    PROVE  SecondsSince2000(d) \in Nat
<1>1. PICK n : n = DayNumber(d.year, d.month, d.day)
      OBVIOUS
<1>2. /\ n \in Nat
      /\ SecondsSince2000(d) =
           n * 86400 + d.hour * 3600 + d.minute * 60 + d.second
      BY <1>1, SecondsCounted
<1>3. d.hour \in Nat /\ d.minute \in Nat /\ d.second \in Nat
      BY DEF DATE
<1> QED BY <1>2, <1>3, SMT

(* What SysGetTime makes of a date.                                        *)
LEMMA TimeCounted ==
    ASSUME NEW d \in DATE
    PROVE  TimeOf(d) = SecondsSince2000(d) + DAY * days_per_month[d.month]
                         - (IF d.year = 0 THEN 0 ELSE DAY)
<1>1. /\ d.second \in 0 .. 59 /\ d.minute \in 0 .. 59
      /\ d.hour \in 0 .. 23 /\ d.day \in 1 .. 31 /\ d.month \in 1 .. 12
      /\ d.year \in 0 .. 99
      BY DEF DATE
<1>2. PICK n : n = DayNumber(d.year, d.month, d.day)
      OBVIOUS
<1>3. /\ n \in Nat
      /\ SecondsSince2000(d) =
           n * 86400 + d.hour * 3600 + d.minute * 60 + d.second
      BY <1>2, SecondsCounted
<1>4. PICK L, l, b, leap, t, p :
         /\ L = IF d.year = 0 THEN 0 ELSE (d.year - 1) \div 4
         /\ l = (d.year + 3) \div 4
         /\ b = DaysFrom(d.year, d.month)
         /\ leap = IF d.month > 2 /\ d.year % 4 = 0 THEN 1 ELSE 0
         /\ t = DaysTo[d.month] /\ p = days_per_month[d.month]
      OBVIOUS
<1>5. L = IF d.year = 0 THEN l ELSE l - 1
      BY <1>1, <1>4
<1>6. t = DaysToEnd[d.month] /\ t \in Nat
      BY <1>1, <1>4, DaysToIsTable DEF DaysToEnd
<1>6a. leap \in {0, 1}
       BY <1>4
<1>7. p \in 28 .. 31 /\ t + leap = b + p
  <2>1. d.month \in {1, 2, 3, 4, 5, 6, 7, 8, 9, 10, 11, 12}
        BY <1>1
  <2>2. b = (IF d.month = 1 THEN 0 ELSE DaysToEnd[d.month - 1]) + leap
        BY <1>1, <1>4 DEF DaysFrom, LeapDay
  <2>3. PICK m : m = d.month
        OBVIOUS
  <2>4. p = days_per_month[m] /\ t = DaysToEnd[m]
        BY <1>4, <1>6, <2>3
  <2>5. b = (IF m = 1 THEN 0 ELSE DaysToEnd[m - 1]) + leap
        BY <2>2, <2>3
  <2>6. m \in {1, 2, 3, 4, 5, 6, 7, 8, 9, 10, 11, 12}
        BY <2>1, <2>3
  <2>7. p \in 28 .. 31
        BY <2>4, <2>6 DEF days_per_month
  <2>8. t = (IF m = 1 THEN 0 ELSE DaysToEnd[m - 1]) + p
        BY <2>4, <2>6 DEF days_per_month, DaysToEnd
  <2>9. PICK e : e = IF m = 1 THEN 0 ELSE DaysToEnd[m - 1]
        OBVIOUS
  <2>10. e \in Nat
         BY <2>6, <2>9 DEF DaysToEnd
  <2>11. b = e + leap
         BY <2>5, <2>9
  <2>12. t = e + p
         BY <2>8, <2>9
  <2>13. p \in Nat /\ leap \in Nat
         BY <1>6a, <2>7
  <2>14. t + leap = b + p
         BY <2>10, <2>11, <2>12, <2>13
  <2> QED BY <2>7, <2>14
<1>8. l \in Nat /\ b \in Nat
  <2>1. /\ DaysFrom(d.year, d.month) \in 0 .. 335
        /\ ((d.year + 3) \div 4) \in 0 .. 25
        BY <1>1, DaysAreNumbers
  <2>2. b \in 0 .. 335 /\ l \in 0 .. 25
        BY <1>4, <2>1
  <2> QED BY <2>2
<1>9. n = 365 * d.year + l + b + d.day - 1
      BY <1>2, <1>4 DEF DayNumber
<1>10. DAY = 86400
       BY SMT DEF DAY
<1>11. TimeOf(d) = (d.year * 365 + L) * DAY + t * DAY
                     + (IF d.month > 2 /\ d.year % 4 = 0 THEN DAY ELSE 0)
                     + (d.day - 1) * DAY + d.hour * 60 * 60 + d.minute * 60 + d.second
       BY <1>4 DEF TimeOf
<1>12. PICK x : x = IF d.month > 2 /\ d.year % 4 = 0 THEN DAY ELSE 0
       OBVIOUS
<1>13. x = leap * 86400
  <2>1. CASE d.month > 2 /\ d.year % 4 = 0
    <3>1. x = DAY /\ leap = 1
          BY <1>4, <1>12, <2>1
    <3> QED BY <1>10, <3>1, SMT
  <2>2. CASE ~(d.month > 2 /\ d.year % 4 = 0)
    <3>1. x = 0 /\ leap = 0
          BY <1>4, <1>12, <2>2
    <3> QED BY <3>1, SMT
  <2> QED BY <2>1, <2>2
<1>14. PICK y, day, h, min, sec :
         /\ y = d.year /\ day = d.day /\ h = d.hour /\ min = d.minute
         /\ sec = d.second
       OBVIOUS
<1>14a. /\ y \in Nat /\ day \in Nat /\ h \in Nat /\ min \in Nat /\ sec \in Nat
        BY <1>1, <1>14
<1>15. L = IF y = 0 THEN l ELSE l - 1
       BY <1>5, <1>14
<1>16. TimeOf(d) = (y * 365 + L) * 86400 + t * 86400 + leap * 86400
                     + (day - 1) * 86400 + h * 60 * 60 + min * 60 + sec
       BY <1>10, <1>11, <1>12, <1>13, <1>14, SMT
<1>17. n = 365 * y + l + b + day - 1
       BY <1>9, <1>14
<1>18. SecondsSince2000(d) = n * 86400 + h * 3600 + min * 60 + sec
       BY <1>3, <1>14
<1>19. PICK back : back = IF d.year = 0 THEN 0 ELSE DAY
       OBVIOUS
<1>20. back = IF y = 0 THEN 0 ELSE 86400
       BY <1>10, <1>14, <1>19, SMT
<1>21. TimeOf(d) = SecondsSince2000(d) + 86400 * p - back
       BY <1>3, <1>6, <1>6a, <1>7, <1>8, <1>14a, <1>15, <1>16, <1>17, <1>18, <1>20, SMT
<1> QED BY <1>4, <1>10, <1>19, <1>21

(* Days are counted one by one, months and years forwards.                 *)
LEMMA MonthsGoOn ==
    ASSUME NEW y \in 0 .. 99, NEW m \in 1 .. 11
    PROVE  DaysFrom(y, m + 1) = DaysFrom(y, m) + DaysIn(m, y)
<1>1. m + 1 \in 1 .. 12 /\ m + 1 # 1 /\ (m + 1) - 1 = m
      OBVIOUS
<1> QED BY <1>1, DaysFromGrows

LEMMA YearsGoOn ==
    ASSUME NEW y \in 0 .. 98, NEW m \in 1 .. 12
    PROVE  /\ DaysFrom(y + 1, 1) = 0
           /\ 365 * (y + 1) + ((y + 4) \div 4) =
                365 * y + ((y + 3) \div 4) + DaysFrom(y, 12) + 31
           /\ 365 * (y + 1) + ((y + 4) \div 4) + DaysFrom(y + 1, m) >=
                365 * y + ((y + 3) \div 4) + DaysFrom(y, m)
<1>1. PICK l, k : l = LeapDay(y) /\ k = LeapDay(y + 1)
      OBVIOUS
<1>2. l \in {0, 1} /\ k \in {0, 1}
      BY <1>1 DEF LeapDay
<1>3. (y + 4) \div 4 = ((y + 3) \div 4) + l
      BY <1>1 DEF LeapDay
<1>4. DaysFrom(y, 12) = 334 + l /\ DaysFrom(y + 1, 1) = 0
      BY <1>1, <1>2 DEF DaysFrom, DaysToEnd
<1>5. PICK e : e = IF m = 1 THEN 0 ELSE DaysToEnd[m - 1]
      OBVIOUS
<1>6. e \in Nat
  <2>1. m \in {1, 2, 3, 4, 5, 6, 7, 8, 9, 10, 11, 12}
        OBVIOUS
  <2> QED BY <1>5, <2>1 DEF DaysToEnd
<1>7. /\ DaysFrom(y, m) = e + (IF m > 2 THEN l ELSE 0)
      /\ DaysFrom(y + 1, m) = e + (IF m > 2 THEN k ELSE 0)
      BY <1>1, <1>5 DEF DaysFrom
<1>8. PICK f, g : f = DaysFrom(y, m) /\ g = DaysFrom(y + 1, m)
      OBVIOUS
<1>9. f \in Nat /\ g \in Nat /\ g + 1 >= f
      BY <1>2, <1>6, <1>7, <1>8
<1>10. PICK q : q = (y + 3) \div 4
       OBVIOUS
<1>11. q \in Nat
       BY <1>10
<1> QED BY <1>2, <1>3, <1>4, <1>8, <1>9, <1>10, <1>11

(* When the clock's registers settle, the date completed with them is not  *)
(* before the one completed with the registers of before, or not before    *)
(* what the clock shows now: the turn of the century.                      *)
LEMMA SettlingDoesNotGoBack ==
    ASSUME NEW n \in 1 .. 7, NEW d \in Parts, NEW b \in Calendar,
           Completed(n, d, b) \in DATE
    PROVE  LET c == OneSecondOn(b)
               now == SecondsSince2000(Completed(n, d, c))
           IN  \/ now >= SecondsSince2000(Completed(n, d, b))
               \/ now >= SecondsSince2000(c)
<1>1. PICK c, E, F : /\ c = OneSecondOn(b) /\ E = Completed(n, d, b)
                     /\ F = Completed(n, d, c)
      OBVIOUS
<1>2. b \in DATE /\ b.day <= DaysIn(b.month, b.year)
      BY DEF Calendar
<1>3. c \in DATE
      BY <1>1, SecondsGoOn DEF Calendar
<1>4. E \in DATE /\ F \in DATE
      BY <1>1, <1>2, <1>3, CompletedIsDate
<1>5. /\ b.second \in 0 .. 59 /\ b.minute \in 0 .. 59
      /\ b.hour \in 0 .. 23 /\ b.day \in 1 .. 31 /\ b.month \in 1 .. 12
      /\ b.year \in 0 .. 99
      BY <1>2 DEF DATE
<1>6. PICK bs, bm, bh, bd, bo, by :
        /\ bs = b.second /\ bm = b.minute /\ bh = b.hour
        /\ bd = b.day /\ bo = b.month /\ by = b.year
      OBVIOUS
<1>7. PICK es, em, eh, ed, eo, ey :
        /\ es = E.second /\ em = E.minute /\ eh = E.hour
        /\ ed = E.day /\ eo = E.month /\ ey = E.year
      OBVIOUS
<1>8. PICK fs, fm, fh, fd, fo, fy :
        /\ fs = F.second /\ fm = F.minute /\ fh = F.hour
        /\ fd = F.day /\ fo = F.month /\ fy = F.year
      OBVIOUS
<1>9. /\ bs \in 0 .. 59 /\ bm \in 0 .. 59 /\ bh \in 0 .. 23
      /\ bd \in 1 .. 31 /\ bo \in 1 .. 12 /\ by \in 0 .. 99
      BY <1>5, <1>6
<1>10. /\ es \in 0 .. 59 /\ em \in 0 .. 59 /\ eh \in 0 .. 23
       /\ ed \in 1 .. 31 /\ eo \in 1 .. 12 /\ ey \in 0 .. 99
       BY <1>4, <1>7 DEF DATE
<1>11. /\ fs \in 0 .. 59 /\ fm \in 0 .. 59 /\ fh \in 0 .. 23
       /\ fd \in 1 .. 31 /\ fo \in 1 .. 12 /\ fy \in 0 .. 99
       BY <1>4, <1>8 DEF DATE
<1>12. PICK M : M = DaysIn(bo, by)
       OBVIOUS
<1>13. M \in 28 .. 31 /\ bd <= M
       BY <1>2, <1>6, <1>9, <1>12, MonthsHaveDays
<1>14. PICK N, P : N = DayNumber(ey, eo, ed) /\ P = DayNumber(fy, fo, fd)
       OBVIOUS
<1>15. /\ N \in Nat /\ P \in Nat
       /\ SecondsSince2000(E) = N * 86400 + eh * 3600 + em * 60 + es
       /\ SecondsSince2000(F) = P * 86400 + fh * 3600 + fm * 60 + fs
       BY <1>4, <1>7, <1>8, <1>14, SecondsCounted
(* What the clock changes reaches F where it was not read yet.             *)
<1>16. /\ n > 1 => fs = es
       /\ n > 2 => fm = em
       /\ n > 3 => fh = eh
       /\ n > 4 => fd = ed
       /\ n > 5 => fo = eo
       /\ n > 6 => fy = ey
       BY <1>1, <1>7, <1>8 DEF Completed
<1>17. /\ ~(n > 1) => es = bs /\ fs = c.second
       /\ ~(n > 2) => em = bm /\ fm = c.minute
       /\ ~(n > 3) => eh = bh /\ fh = c.hour
       /\ ~(n > 4) => ed = bd /\ fd = c.day
       /\ ~(n > 5) => eo = bo /\ fo = c.month
       /\ ~(n > 6) => ey = by /\ fy = c.year
       BY <1>1, <1>6, <1>7, <1>8 DEF Completed
<1> HIDE DEF Completed
<1> SUFFICES \/ SecondsSince2000(F) >= SecondsSince2000(E)
             \/ SecondsSince2000(F) >= SecondsSince2000(c)
    BY <1>1
<1>18. CASE ~(bs = 59 /\ bm = 59 /\ bh = 23)
  <2>1. c.day = bd /\ c.month = bo /\ c.year = by
        BY <1>1, <1>6, <1>18 DEF OneSecondOn
  <2>2. fd = ed /\ fo = eo /\ fy = ey
        BY <1>16, <1>17, <2>1
  <2>3. P = N
        BY <1>14, <2>2
  <2>4. /\ c.second = (bs + 1) % 60
        /\ c.minute = IF bs = 59 THEN (bm + 1) % 60 ELSE bm
        /\ c.hour = IF bs = 59 /\ bm = 59 THEN (bh + 1) % 24 ELSE bh
        BY <1>1, <1>6 DEF OneSecondOn
  <2>5. PICK cs, cm, ch : cs = c.second /\ cm = c.minute /\ ch = c.hour
        OBVIOUS
  <2>6. /\ bs # 59 => cs = bs + 1 /\ cm = bm /\ ch = bh
        /\ bs = 59 /\ bm # 59 => cs = 0 /\ cm = bm + 1 /\ ch = bh
        /\ bs = 59 /\ bm = 59 => cs = 0 /\ cm = 0 /\ ch = bh + 1
        BY <1>9, <1>18, <2>4, <2>5
  <2>7. /\ ~(n > 1) => es = bs /\ fs = cs
        /\ ~(n > 2) => em = bm /\ fm = cm
        /\ ~(n > 3) => eh = bh /\ fh = ch
        BY <1>17, <2>5
  <2>8. fh * 3600 + fm * 60 + fs >= eh * 3600 + em * 60 + es
        BY <1>9, <1>10, <1>11, <1>16, <1>18, <2>6, <2>7
  <2> QED BY <1>10, <1>11, <1>15, <2>3, <2>8, SMT
<1>19. CASE bs = 59 /\ bm = 59 /\ bh = 23
  <2>1. /\ c.second = 0 /\ c.minute = 0 /\ c.hour = 0
        /\ c.day = IF bd = M THEN 1 ELSE bd + 1
        /\ c.month = IF bd = M THEN IF bo = 12 THEN 1 ELSE bo + 1 ELSE bo
        /\ c.year = IF bd = M /\ bo = 12 THEN (by + 1) % 100 ELSE by
        BY <1>1, <1>6, <1>12, <1>19 DEF OneSecondOn
  <2>2. CASE bd = M /\ bo = 12 /\ by = 99
    <3>1. c.day = 1 /\ c.month = 1 /\ c.year = 0
          BY <2>1, <2>2
    <3>2. DayNumber(0, 1, 1) = 0
          BY DEF DayNumber, DaysFrom
    <3>3. SecondsSince2000(c) = 0 * 86400 + 0 * 3600 + 0 * 60 + 0
      <4>1. 0 = DayNumber(c.year, c.month, c.day)
            BY <3>1, <3>2
      <4>2. SecondsSince2000(c) =
              0 * 86400 + c.hour * 3600 + c.minute * 60 + c.second
            BY <1>3, <4>1, SecondsCounted
      <4> QED BY <2>1, <4>2
    <3>4. SecondsSince2000(c) = 0
          BY <3>3
    <3> QED BY <1>11, <1>15, <3>4, SMT
  <2>3. CASE ~(bd = M /\ bo = 12 /\ by = 99)
    <3>1. /\ bd = M /\ bo = 12 => c.year = by + 1
          /\ ~(bd = M /\ bo = 12) => c.year = by
          BY <1>9, <2>1, <2>3
    <3>2. P >= N /\ (~(n > 4) => P >= N + 1)
      <4>1. CASE bd # M
        <5>1. fo = eo /\ fy = ey
              BY <1>16, <1>17, <2>1, <3>1, <4>1
        <5>2. fd = IF n > 4 THEN ed ELSE ed + 1
              BY <1>16, <1>17, <2>1, <4>1
        <5>3. PICK x : x = 365 * ey + ((ey + 3) \div 4) + DaysFrom(ey, eo)
              OBVIOUS
        <5>4. N = x + ed - 1 /\ P = x + fd - 1
              BY <1>14, <5>1, <5>3 DEF DayNumber
        <5>5. x \in Nat
          <6>1. /\ DaysFrom(ey, eo) \in Nat
                /\ 365 * ey + ((ey + 3) \div 4) \in Nat
                BY <1>10, DaysAreNatural
          <6> QED BY <5>3, <6>1
        <5> QED BY <1>10, <5>2, <5>4, <5>5
      <4>2. CASE bd = M /\ bo # 12
        <5>1. fy = ey /\ (n > 4 => fd = ed) /\ (n > 5 => fo = eo)
              BY <1>16, <1>17, <3>1, <4>2
        <5>2. PICK x, u, v : /\ x = 365 * ey + ((ey + 3) \div 4)
                             /\ u = DaysFrom(ey, eo) /\ v = DaysFrom(ey, fo)
              OBVIOUS
        <5>3. x \in Nat /\ u \in Nat /\ v \in Nat
          <6>1. /\ DaysFrom(ey, eo) \in Nat /\ DaysFrom(ey, fo) \in Nat
                /\ 365 * ey + ((ey + 3) \div 4) \in Nat
                BY <1>10, <1>11, DaysAreNatural
          <6> QED BY <5>2, <6>1
        <5>4. N = x + u + ed - 1 /\ P = x + v + fd - 1
              BY <1>14, <5>1, <5>2 DEF DayNumber
        <5>5. CASE n > 5
              BY <1>10, <5>1, <5>2, <5>3, <5>4, <5>5
        <5>6. CASE ~(n > 5)
          <6>1. ey = by /\ eo = bo /\ fo = bo + 1
                BY <1>17, <2>1, <4>2, <5>6
          <6>2. v = u + M
                BY <1>9, <1>12, <4>2, <5>2, <6>1, MonthsGoOn
          <6>3. ~(n > 4) => ed = M /\ fd = 1
                BY <1>17, <2>1, <4>2
          <6> QED BY <1>10, <1>13, <5>1, <5>3, <5>4, <6>2, <6>3
        <5> QED BY <5>5, <5>6
      <4>3. CASE bd = M /\ bo = 12
        <5>1. by \in 0 .. 98 /\ c.year = by + 1 /\ M = 31
              BY <1>9, <1>12, <2>3, <3>1, <4>3 DEF DaysIn
        <5>2. CASE n > 6
          <6>1. fd = ed /\ fo = eo /\ fy = ey
                BY <1>16, <5>2
          <6> QED BY <1>14, <1>15, <5>2, <6>1
        <5>3. CASE ~(n > 6)
          <6>1. ey = by /\ fy = by + 1
                BY <1>17, <5>1, <5>3
          <6>2. PICK p, q, u, v, w :
                  /\ p = 365 * by + ((by + 3) \div 4)
                  /\ q = 365 * (by + 1) + ((by + 4) \div 4)
                  /\ u = DaysFrom(by, eo) /\ v = DaysFrom(by + 1, fo)
                  /\ w = DaysFrom(by + 1, eo)
                OBVIOUS
          <6>3. /\ p \in Nat /\ q \in Nat /\ u \in Nat /\ v \in Nat /\ w \in Nat
            <7>1. /\ DaysFrom(by, eo) \in Nat
                  /\ 365 * by + ((by + 3) \div 4) \in Nat
                  BY <1>9, <1>10, DaysAreNatural
            <7>2. by + 1 \in 0 .. 99 /\ (by + 1) + 3 = by + 4
                  BY <5>1
            <7>3. /\ DaysFrom(by + 1, eo) \in Nat /\ DaysFrom(by + 1, fo) \in Nat
                  /\ 365 * (by + 1) + (((by + 1) + 3) \div 4) \in Nat
                  BY <1>10, <1>11, <7>2, DaysAreNatural
            <7> QED BY <6>2, <7>1, <7>2, <7>3
          <6>4. (by + 1) + 3 = by + 4
                BY <5>1
          <6>5. N = p + u + ed - 1 /\ P = q + v + fd - 1
                BY <1>14, <6>1, <6>2, <6>4 DEF DayNumber
          <6>6. CASE n > 5
            <7>1. q + w >= p + u
                  BY <1>10, <5>1, <6>2, YearsGoOn
            <7>2. fo = eo /\ fd = ed /\ v = w
                  BY <1>16, <6>2, <6>6
            <7> QED BY <1>10, <6>3, <6>5, <6>6, <7>1, <7>2
          <6>7. CASE ~(n > 5)
            <7>1. eo = 12 /\ fo = 1
                  BY <1>17, <2>1, <4>3, <6>7
            <7>2. q = p + u + 31 /\ v = 0
                  BY <5>1, <6>2, <7>1, YearsGoOn
            <7>3. /\ ~(n > 4) => ed = 31 /\ fd = 1
                  /\ n > 4 => fd = ed
                  BY <1>16, <1>17, <2>1, <4>3, <5>1
            <7> QED BY <1>10, <6>3, <6>5, <7>2, <7>3
          <6> QED BY <6>6, <6>7
        <5> QED BY <5>2, <5>3
      <4> QED BY <4>1, <4>2, <4>3
    <3>3. CASE n > 4
      <4>1. fs = es /\ fm = em /\ fh = eh
            BY <1>16, <3>3
      <4> QED BY <1>10, <1>15, <3>2, <4>1, SMT
    <3>4. CASE ~(n > 4)
      <4>1. P >= N + 1
            BY <3>2, <3>4
      <4> QED BY <1>10, <1>11, <1>15, <4>1, SMT
    <3> QED BY <3>3, <3>4
  <2> QED BY <2>2, <2>3
<1> QED BY <1>18, <1>19

-----------------------------------------------------------------------------
(***************************************************************************)
(* The clock: the inductive invariant.                                     *)
(***************************************************************************)
ClockTypeOK ==
    /\ clock \in Calendar /\ before \in Calendar
    /\ passed \in Nat /\ next \in 1 .. 7 /\ date \in Parts
    /\ at \in {"idle", "SysGetDate", "SysGetTime", "date", "time"}
    /\ moments \subseteq Calendar /\ torn \in BOOLEAN

(* While the clock changes its registers, it does so to the next second.   *)
ClockTicks == before # clock => clock = OneSecondOn(before)

MomentsKept == at # "idle" => clock \in moments /\ before \in moments

ReadInTime == Reads => passed <= MaxSeconds

ReadsADate == Reads => Completed(next, date, before) \in DATE

(* Of the seconds that have passed, k were settled since the seconds were  *)
(* read; when none was, what has been read is still what the clock shows.  *)
SettledSince(k, p, c, b, d) ==
    /\ k = 0 => d = b
    /\ b.second = (d.second + k) % 60
    /\ b # c => k + 1 <= p

SecondsTell ==
    Reads /\ ~torn /\ next > 1 =>
        \E k \in 0 .. passed :
            SettledSince(k, passed, clock, before, Completed(next, date, before))

(* What has been read, completed, is not before the start of the call.     *)
NotBehind(d, seen) == \E m \in seen : SecondsSince2000(d) >= SecondsSince2000(m)

ReadsForwards ==
    Reads /\ ~torn => NotBehind(Completed(next, date, before), moments)

ClockInv ==
    /\ ClockTypeOK /\ ClockTicks /\ MomentsKept /\ ReadInTime
    /\ ReadsADate /\ SecondsTell /\ ReadsForwards
    /\ DateIsAMoment /\ TimeIsNotBehind

LEMMA ClockInvInit == ClockInit => ClockInv
<1> SUFFICES ASSUME ClockInit
             PROVE  ClockInv
    OBVIOUS
<1>1. clock \in Calendar /\ before = clock
      BY ClockAssumption DEF ClockInit
<1>2. ClockTypeOK
  <2>1. date \in Parts
        BY DEF ClockInit, Parts
  <2>2. passed = 0 /\ next = 1 /\ at = "idle" /\ moments = {} /\ torn = FALSE
        BY DEF ClockInit
  <2>3. moments \subseteq Calendar
        BY <2>2
  <2>4. torn \in BOOLEAN
        BY <2>2
  <2>5. /\ passed \in Nat /\ next \in 1 .. 7
        /\ at \in {"idle", "SysGetDate", "SysGetTime", "date", "time"}
        BY <2>2
  <2> QED BY <1>1, <2>1, <2>3, <2>4, <2>5 DEF ClockTypeOK
<1>3. ~Reads /\ at = "idle"
      BY DEF ClockInit, Reads
<1> QED BY <1>1, <1>2, <1>3 DEF ClockInv, ClockTicks, MomentsKept, ReadInTime,
             ReadsADate, SecondsTell, ReadsForwards, DateIsAMoment, TimeIsNotBehind

(* An answer stays right as long as it is there.                           *)
LEMMA AnswersStay ==
    ASSUME DateIsAMoment, TimeIsNotBehind, moments \subseteq moments',
           UNCHANGED <<at, date, time, torn>>
    PROVE  DateIsAMoment' /\ TimeIsNotBehind'
<1>1. DateIsAMoment'
      BY DEF DateIsAMoment
<1>2. TimeIsNotBehind'
  <2>1. PICK s, t : /\ s = SecondsSince2000(date)
                    /\ t = DAY * days_per_month[date.month]
                              - (IF date.year = 0 THEN 0 ELSE DAY)
        OBVIOUS
  <2> QED BY <2>1 DEF TimeIsNotBehind
<1> QED BY <1>1, <1>2

(* A second passes: one more of them, and one more moment.                 *)
LEMMA ClockInvPasses == ClockInv /\ SecondPasses => ClockInv'
<1> SUFFICES ASSUME ClockInv, SecondPasses
             PROVE  ClockInv'
    OBVIOUS
<1> USE DEF ClockInv
<1>1. /\ Reads => passed < MaxSeconds
      /\ before = clock /\ before' = before /\ passed' = passed + 1
      /\ clock' = OneSecondOn(clock) /\ moments' = moments \cup {clock'}
      /\ UNCHANGED <<at, next, date, time, torn>>
      BY DEF SecondPasses
<1>2. ClockTypeOK'
      BY <1>1, SecondsGoOn DEF ClockTypeOK
<1>3. ClockTicks'
      BY <1>1 DEF ClockTicks
<1>4. MomentsKept'
      BY <1>1 DEF MomentsKept
<1>5. ReadInTime'
      BY <1>1, ClockAssumption DEF ReadInTime, ClockTypeOK, Reads
<1>6. PICK E : E = Completed(next, date, before)
      OBVIOUS
<1>7. E = Completed(next', date', before')
      BY <1>1, <1>6
<1>8. ReadsADate'
      BY <1>1, <1>6, <1>7 DEF ReadsADate, Reads
<1>9. SecondsTell'
  <2> SUFFICES ASSUME Reads, ~torn, next > 1
               PROVE  \E k \in 0 .. passed' : SettledSince(k, passed', clock', before', E)
      BY <1>1, <1>7 DEF SecondsTell, Reads
  <2>1. PICK k \in 0 .. passed : SettledSince(k, passed, clock, before, E)
        BY <1>6 DEF SecondsTell
  <2>2. k \in 0 .. passed' /\ k + 1 <= passed'
        BY <1>1 DEF ClockTypeOK
  <2>3. SettledSince(k, passed', clock', before', E)
        BY <1>1, <2>1, <2>2 DEF SettledSince
  <2> QED BY <2>2, <2>3
<1>10. ReadsForwards'
  <2> SUFFICES ASSUME Reads, ~torn
               PROVE  NotBehind(E, moments')
      BY <1>1, <1>7 DEF ReadsForwards, Reads
  <2>1. NotBehind(E, moments)
        BY <1>6 DEF ReadsForwards
  <2> QED BY <1>1, <2>1 DEF NotBehind
<1>11. DateIsAMoment' /\ TimeIsNotBehind'
       BY <1>1, AnswersStay
<1> QED BY <1>2, <1>3, <1>4, <1>5, <1>8, <1>9, <1>10, <1>11

(* The registers settle: one more second that was settled.                 *)
LEMMA ClockInvSettles == ClockInv /\ RegistersSettle => ClockInv'
<1> SUFFICES ASSUME ClockInv, RegistersSettle
             PROVE  ClockInv'
    OBVIOUS
<1> USE DEF ClockInv
<1>1. /\ before # clock /\ before' = clock /\ clock' = clock
      /\ UNCHANGED <<passed, at, next, date, time, moments, torn>>
      BY DEF RegistersSettle, reading
<1>2. clock = OneSecondOn(before) /\ clock \in Calendar /\ before \in Calendar
      BY <1>1 DEF ClockTicks, ClockTypeOK
<1>3. ClockTypeOK'
      BY <1>1 DEF ClockTypeOK
<1>4. ClockTicks' /\ MomentsKept' /\ ReadInTime'
      BY <1>1 DEF ClockTicks, MomentsKept, ReadInTime, Reads
<1>5. PICK E, F : /\ E = Completed(next, date, before)
                  /\ F = Completed(next, date, clock)
      OBVIOUS
<1>6. F = Completed(next', date', before')
      BY <1>1, <1>5
<1>7. before \in DATE /\ clock \in DATE /\ next \in 1 .. 7 /\ date \in Parts
      BY <1>2 DEF Calendar, ClockTypeOK
<1>8. ReadsADate'
  <2> SUFFICES ASSUME Reads
               PROVE  F \in DATE
      BY <1>1, <1>6 DEF ReadsADate, Reads
  <2>1. E \in DATE
        BY <1>5 DEF ReadsADate
  <2> QED BY <1>5, <1>7, <2>1, CompletedIsDate
<1>9. SecondsTell'
  <2> SUFFICES ASSUME Reads, ~torn, next > 1
               PROVE  \E k \in 0 .. passed' : SettledSince(k, passed', clock', before', F)
      BY <1>1, <1>6 DEF SecondsTell, Reads
  <2>1. PICK k \in 0 .. passed : SettledSince(k, passed, clock, before, E)
        BY <1>5 DEF SecondsTell
  <2>2. k + 1 \in 0 .. passed /\ k + 1 # 0 /\ passed \in Nat
        BY <1>1, <2>1 DEF SettledSince, ClockTypeOK
  <2>3. E.second = F.second
        BY <1>5 DEF Completed
  <2>4. clock.second = (E.second + (k + 1)) % 60
    <3>1. E \in DATE
          BY <1>5 DEF ReadsADate
    <3>2. PICK e, b : e = E.second /\ b = before.second
          OBVIOUS
    <3>3. e \in 0 .. 59 /\ b \in 0 .. 59
          BY <1>7, <3>1, <3>2 DEF DATE
    <3>4. b = (e + k) % 60
          BY <2>1, <3>2 DEF SettledSince
    <3>5. clock.second = (b + 1) % 60
          BY <1>2, <3>2, SecondsGoOn
    <3>6. (b + 1) % 60 = (e + (k + 1)) % 60
      <4>1. PICK x \in Nat : x = e + k
            BY <2>1, <3>3
      <4>2. PICK q \in Nat : x = 60 * q + b
        <5>1. x = 60 * (x \div 60) + (x % 60) /\ x \div 60 \in Nat
              OBVIOUS
        <5> QED BY <3>4, <4>1, <5>1
      <4>3. (x + 1) % 60 = (b + 1) % 60
            BY <3>3, <4>2
      <4> QED BY <3>3, <4>1, <4>3
    <3> QED BY <3>2, <3>5, <3>6
  <2>5. SettledSince(k + 1, passed', clock', before', F)
        BY <1>1, <2>2, <2>3, <2>4 DEF SettledSince
  <2> QED BY <1>1, <2>2, <2>5
<1>10. ReadsForwards'
  <2> SUFFICES ASSUME Reads, ~torn
               PROVE  NotBehind(F, moments)
      BY <1>1, <1>6 DEF ReadsForwards, Reads
  <2>1. NotBehind(E, moments) /\ E \in DATE /\ clock \in moments
        BY <1>5 DEF ReadsForwards, ReadsADate, MomentsKept, Reads
  <2>2. F \in DATE
        BY <1>5, <1>7, <2>1, CompletedIsDate
  <2>3. \/ SecondsSince2000(F) >= SecondsSince2000(E)
        \/ SecondsSince2000(F) >= SecondsSince2000(clock)
        BY <1>2, <1>5, <1>7, <2>1, SettlingDoesNotGoBack
  <2>4. CASE SecondsSince2000(F) >= SecondsSince2000(clock)
        BY <2>1, <2>4 DEF NotBehind
  <2>5. CASE SecondsSince2000(F) >= SecondsSince2000(E)
    <3>1. PICK m \in moments : SecondsSince2000(E) >= SecondsSince2000(m)
          BY <2>1 DEF NotBehind
    <3>2. m \in DATE
          BY DEF ClockTypeOK, Calendar
    <3>3. /\ SecondsSince2000(E) \in Nat /\ SecondsSince2000(F) \in Nat
          /\ SecondsSince2000(m) \in Nat
          BY <2>1, <2>2, <3>2, SecondsAreNatural
    <3>4. SecondsSince2000(F) >= SecondsSince2000(m)
          BY <2>5, <3>1, <3>3
    <3> QED BY <3>4 DEF NotBehind
  <2> QED BY <2>3, <2>4, <2>5
<1>11. DateIsAMoment' /\ TimeIsNotBehind'
       BY <1>1, AnswersStay
<1> QED BY <1>3, <1>4, <1>8, <1>9, <1>10, <1>11

(* The function begins.                                                    *)
LEMMA ClockInvBegins ==
    ASSUME NEW function \in {"SysGetDate", "SysGetTime"}
    PROVE  ClockInv /\ Begin(function) => ClockInv'
<1> SUFFICES ASSUME ClockInv, Begin(function)
             PROVE  ClockInv'
    OBVIOUS
<1> USE DEF ClockInv
<1>1. /\ at' = function /\ next' = 1 /\ passed' = 0
      /\ moments' = {clock, before} /\ torn' = FALSE
      /\ UNCHANGED <<clock, before, date, time>>
      BY DEF Begin, chip
<1>2. clock \in Calendar /\ before \in Calendar /\ before \in DATE /\ date \in Parts
      BY DEF ClockTypeOK, Calendar
<1>3. ClockTypeOK'
  <2>1. torn' \in BOOLEAN
        BY <1>1
  <2>2. passed' \in Nat /\ next' \in 1 .. 7
        BY <1>1
  <2>3. at' \in {"idle", "SysGetDate", "SysGetTime", "date", "time"}
        BY <1>1
  <2>4. moments' \subseteq Calendar
        BY <1>1, <1>2
  <2> QED BY <1>1, <1>2, <2>1, <2>2, <2>3, <2>4 DEF ClockTypeOK
<1>4. ClockTicks' /\ MomentsKept'
      BY <1>1 DEF ClockTicks, MomentsKept
<1>5. ReadInTime'
      BY <1>1, ClockAssumption DEF ReadInTime
<1>6. Completed(next', date', before') = before
      BY <1>1, <1>2, CompletedEnds
<1>7. ReadsADate'
      BY <1>2, <1>6 DEF ReadsADate
<1>8. SecondsTell'
      BY <1>1 DEF SecondsTell
<1>9. ReadsForwards'
  <2>1. SecondsSince2000(before) \in Nat
        BY <1>2, SecondsAreNatural
  <2>2. SecondsSince2000(before) >= SecondsSince2000(before)
        BY <2>1
  <2>3. NotBehind(before, moments')
        BY <1>1, <2>2 DEF NotBehind
  <2> QED BY <1>6, <2>3 DEF ReadsForwards
<1>10. DateIsAMoment' /\ TimeIsNotBehind'
       BY <1>1 DEF DateIsAMoment, TimeIsNotBehind
<1> QED BY <1>3, <1>4, <1>5, <1>7, <1>8, <1>9, <1>10

(* A register is read, of a date or of the one before.                     *)
LEMMA ClockInvReads == ClockInv /\ ReadRegister => ClockInv'
<1> SUFFICES ASSUME ClockInv, ReadRegister
             PROVE  ClockInv'
    OBVIOUS
<1> USE DEF ClockInv
<1>1. /\ Reads /\ next <= 6 /\ next' = next + 1
      /\ torn' = (torn \/ before # clock)
      /\ UNCHANGED <<clock, before, passed, at, time, moments>>
      BY DEF ReadRegister, chip
<1>2. PICK shown \in {clock, before} :
        date' = [date EXCEPT ![Registers[next]] =
                               BCDToDec(BCD(shown[Registers[next]]))]
      BY DEF ReadRegister, Register
<1>3. /\ clock \in DATE /\ before \in DATE /\ date \in Parts /\ next \in 1 .. 6
      /\ shown \in DATE
      BY <1>1 DEF ClockTypeOK, Calendar
<1>4. date' = [date EXCEPT ![Registers[next]] = shown[Registers[next]]]
      BY <1>2, <1>3, RegisterIsRead
<1>5. /\ date' \in Parts
      /\ Completed(next + 1, date', shown) = Completed(next, date, shown)
      BY <1>3, <1>4, ReadingCompletes
<1>6. PICK E : E = Completed(next, date, before)
      OBVIOUS
<1>7. E \in DATE
      BY <1>1, <1>6 DEF ReadsADate
<1>8. ClockTypeOK'
      BY <1>1, <1>3, <1>5 DEF ClockTypeOK
<1>9. ClockTicks' /\ MomentsKept' /\ ReadInTime'
      BY <1>1 DEF ClockTicks, MomentsKept, ReadInTime, Reads
<1>10. ReadsADate'
  <2>1. Completed(next, date, shown) \in DATE
        BY <1>3, <1>6, <1>7, CompletedIsDate
  <2>2. Completed(next + 1, date', shown) \in DATE /\ next + 1 \in 1 .. 7
        BY <1>3, <1>5, <2>1
  <2>3. Completed(next + 1, date', before) \in DATE
        BY <1>3, <1>5, <2>2, CompletedIsDate
  <2> QED BY <1>1, <2>3 DEF ReadsADate
<1>11. ~torn' => /\ ~torn /\ before = clock
                 /\ Completed(next', date', before') = E
  <2> SUFFICES ASSUME ~torn'
               PROVE  /\ ~torn /\ before = clock
                      /\ Completed(next', date', before') = E
      OBVIOUS
  <2>1. ~torn /\ before = clock
        BY <1>1
  <2>2. shown = before
        BY <2>1
  <2> QED BY <1>1, <1>5, <1>6, <2>1, <2>2
<1>12. SecondsTell'
  <2> SUFFICES ASSUME ~torn'
               PROVE  \E k \in 0 .. passed' : SettledSince(k, passed', clock', before', E)
      BY <1>11 DEF SecondsTell
  <2>1. CASE next > 1
    <3>1. \E k \in 0 .. passed : SettledSince(k, passed, clock, before, E)
          BY <1>1, <1>6, <1>11, <2>1 DEF SecondsTell
    <3> QED BY <1>1, <3>1
  <2>2. CASE ~(next > 1)
    <3>1. next = 1
          BY <1>3, <2>2
    <3>2. E = before
          BY <1>3, <1>6, <3>1, CompletedEnds
    <3>3. before.second \in 0 .. 59
          BY <1>3 DEF DATE
    <3>4. before.second = (before.second + 0) % 60
          BY <3>3
    <3>5. SettledSince(0, passed', clock', before', E)
          BY <1>1, <1>11, <3>2, <3>4 DEF SettledSince
    <3>6. 0 \in 0 .. passed'
          BY <1>1 DEF ClockTypeOK
    <3> QED BY <3>5, <3>6
  <2> QED BY <2>1, <2>2
<1>13. ReadsForwards'
  <2> SUFFICES ASSUME ~torn'
               PROVE  NotBehind(E, moments')
      BY <1>11 DEF ReadsForwards
  <2>1. NotBehind(E, moments)
        BY <1>1, <1>6, <1>11 DEF ReadsForwards
  <2> QED BY <1>1, <2>1
<1>14. DateIsAMoment' /\ TimeIsNotBehind'
       BY <1>1 DEF DateIsAMoment, TimeIsNotBehind, Reads
<1> QED BY <1>8, <1>9, <1>10, <1>12, <1>13, <1>14

(* The seconds are read again: when they are the same, no second has been  *)
(* settled since they were read, and what was read is what the clock shows.*)
LEMMA ClockInvReadsAgain == ClockInv /\ ReadSecondsAgain => ClockInv'
<1> SUFFICES ASSUME ClockInv, ReadSecondsAgain
             PROVE  ClockInv'
    OBVIOUS
<1> USE DEF ClockInv
<1>1. /\ at = "SysGetDate" /\ Reads /\ next = 7 /\ next' = 1
      /\ UNCHANGED <<clock, before, passed, date, time, moments>>
      BY DEF ReadSecondsAgain, chip, Reads
<1>2. PICK shown \in {clock, before} :
        IF date.second # BCDToDec(BCD(shown.second))
        THEN at' = at /\ torn' = FALSE
        ELSE at' = "date" /\ UNCHANGED torn
      BY DEF ReadSecondsAgain, Register
<1>3. /\ clock \in DATE /\ before \in DATE /\ date \in Parts
      /\ before \in Calendar /\ passed \in Nat
      BY DEF ClockTypeOK, Calendar
<1>4. shown.second \in 0 .. 59 /\ BCDToDec(BCD(shown.second)) = shown.second
  <2>1. shown.second \in 0 .. 59
        BY <1>3 DEF DATE
  <2> QED BY <2>1, DigitsAreRead
<1>5. date \in DATE
  <2>1. Completed(7, date, before) = date
        BY <1>3, CompletedEnds
  <2> QED BY <1>1, <2>1 DEF ReadsADate
<1>6. ClockTypeOK' /\ ClockTicks' /\ MomentsKept'
  <2>1. at' \in {"SysGetDate", "date"} /\ torn' \in {torn, FALSE}
        BY <1>1, <1>2
  <2>2. torn' \in BOOLEAN
        BY <2>1 DEF ClockTypeOK
  <2>3. next' \in 1 .. 7
        BY <1>1
  <2> QED BY <1>1, <2>1, <2>2, <2>3 DEF ClockTypeOK, ClockTicks, MomentsKept
<1>7. CASE date.second # shown.second
  <2>1. at' = at /\ torn' = FALSE
        BY <1>2, <1>4, <1>7
  <2>2. ReadInTime'
        BY <1>1, <2>1 DEF ReadInTime, Reads
  <2>3. Completed(next', date', before') = before
        BY <1>1, <1>3, CompletedEnds
  <2>4. ReadsADate' /\ SecondsTell'
        BY <1>1, <1>3, <2>3 DEF ReadsADate, SecondsTell
  <2>5. ReadsForwards'
    <3>1. before \in moments'
          BY <1>1 DEF MomentsKept
    <3>2. SecondsSince2000(before) \in Nat
          BY <1>3, SecondsAreNatural
    <3>3. NotBehind(before, moments')
          BY <3>1, <3>2 DEF NotBehind
    <3> QED BY <2>3, <3>3 DEF ReadsForwards
  <2>6. DateIsAMoment' /\ TimeIsNotBehind'
        BY <1>1, <2>1 DEF DateIsAMoment, TimeIsNotBehind
  <2> QED BY <1>6, <2>2, <2>4, <2>5, <2>6
<1>8. CASE date.second = shown.second
  <2>1. at' = "date" /\ torn' = torn
        BY <1>2, <1>4, <1>8
  <2>2. ~Reads'
        BY <2>1 DEF Reads
  <2>3. TimeIsNotBehind'
        BY <2>1 DEF TimeIsNotBehind
  <2>4. ASSUME ~torn
        PROVE  date = before
    <3>1. Completed(next, date, before) = date
          BY <1>1, <1>3, CompletedEnds
    <3>2. PICK k \in 0 .. passed : SettledSince(k, passed, clock, before, date)
          BY <1>1, <2>4, <3>1 DEF SecondsTell
    <3>3. passed <= 59
          BY <1>1, <1>3, ClockAssumption DEF ReadInTime
    <3>4. PICK s, b, c : s = date.second /\ b = before.second /\ c = clock.second
          OBVIOUS
    <3>5. s \in 0 .. 59 /\ b \in 0 .. 59 /\ b = (s + k) % 60
          BY <1>3, <1>5, <3>2, <3>4 DEF SettledSince, DATE
    <3>6. before = clock \/ (k + 1 <= 59 /\ c = (b + 1) % 60)
          BY <1>3, <3>2, <3>3, <3>4, SecondsGoOn DEF SettledSince, ClockTicks
    <3>7. k \in 0 .. 59
          BY <1>3, <3>3
    <3>8. s = b \/ (s = c /\ before # clock)
          BY <1>8, <3>4
    <3>9. CASE s = b
      <4>1. k = 0
            BY <3>5, <3>7, <3>9
      <4> QED BY <3>2, <4>1 DEF SettledSince
    <3>10. CASE s = c /\ before # clock
      <4>1. k + 1 <= 59 /\ c = (b + 1) % 60
            BY <3>6, <3>10
      <4> QED BY <3>5, <3>7, <3>10, <4>1
    <3> QED BY <3>8, <3>9, <3>10
  <2>5. DateIsAMoment'
    <3>1. before \in moments'
          BY <1>1 DEF MomentsKept
    <3> QED BY <1>1, <2>1, <2>4, <3>1 DEF DateIsAMoment
  <2> QED BY <1>6, <2>2, <2>3, <2>5 DEF ReadInTime, ReadsADate, SecondsTell, ReadsForwards
<1> QED BY <1>7, <1>8

(* The time is computed from what was read.                                *)
LEMMA ClockInvComputes == ClockInv /\ ComputeTime => ClockInv'
<1> SUFFICES ASSUME ClockInv, ComputeTime
             PROVE  ClockInv'
    OBVIOUS
<1> USE DEF ClockInv
<1>1. /\ at = "SysGetTime" /\ Reads /\ next = 7 /\ at' = "time" /\ next' = 1
      /\ time' = TimeOf(date)
      /\ UNCHANGED <<clock, before, passed, date, moments, torn>>
      BY DEF ComputeTime, chip, Reads
<1>2. before \in DATE /\ date \in Parts
      BY DEF ClockTypeOK, Calendar
<1>3. Completed(next, date, before) = date
      BY <1>1, <1>2, CompletedEnds
<1>4. date \in DATE
      BY <1>1, <1>3 DEF ReadsADate
<1>5. ClockTypeOK' /\ ClockTicks' /\ MomentsKept'
      BY <1>1 DEF ClockTypeOK, ClockTicks, MomentsKept
<1>6. ~Reads'
      BY <1>1 DEF Reads
<1>7. DateIsAMoment'
      BY <1>1 DEF DateIsAMoment
<1>8. TimeIsNotBehind'
  <2>1. ~torn => \E m \in moments : SecondsSince2000(date) >= SecondsSince2000(m)
        BY <1>1, <1>3 DEF ReadsForwards, NotBehind
  <2>2. PICK s, t, u : /\ s = SecondsSince2000(date) /\ t = TimeOf(date)
                       /\ u = DAY * days_per_month[date.month]
        OBVIOUS
  <2>3. t = s + u - (IF date.year = 0 THEN 0 ELSE DAY)
        BY <1>4, <2>2, TimeCounted
  <2> QED BY <1>1, <2>1, <2>2, <2>3 DEF TimeIsNotBehind
<1> QED BY <1>5, <1>6, <1>7, <1>8 DEF ReadInTime, ReadsADate, SecondsTell, ReadsForwards

(* The caller goes on, or nothing happens.                                 *)
LEMMA ClockInvReturns == ClockInv /\ Return => ClockInv'
<1> SUFFICES ASSUME ClockInv, Return
             PROVE  ClockInv'
    OBVIOUS
<1> USE DEF ClockInv
<1>1. /\ at' = "idle" /\ moments' = {} /\ torn' = FALSE
      /\ UNCHANGED <<clock, before, passed, next, date, time>>
      BY DEF Return, chip
<1>2. ClockTypeOK'
      BY <1>1 DEF ClockTypeOK
<1>3. ~Reads'
      BY <1>1 DEF Reads
<1> QED BY <1>1, <1>2, <1>3 DEF ClockTicks, MomentsKept, ReadInTime, ReadsADate,
             SecondsTell, ReadsForwards, DateIsAMoment, TimeIsNotBehind

LEMMA ClockInvStutters == ClockInv /\ UNCHANGED clockVars => ClockInv'
<1> SUFFICES ASSUME ClockInv, UNCHANGED clockVars
             PROVE  ClockInv'
    OBVIOUS
<1> USE DEF ClockInv
<1>1. UNCHANGED <<clock, before, passed, at, next, date, time, moments, torn>>
      BY DEF clockVars, chip, reading
<1>2. ClockTypeOK' /\ ClockTicks' /\ MomentsKept' /\ ReadInTime'
      BY <1>1 DEF ClockTypeOK, ClockTicks, MomentsKept, ReadInTime, Reads
<1>3. PICK E : E = Completed(next, date, before)
      OBVIOUS
<1>4. E = Completed(next', date', before')
      BY <1>1, <1>3
<1>5. ReadsADate'
      BY <1>1, <1>3, <1>4 DEF ReadsADate, Reads
<1>6. SecondsTell'
  <2> SUFFICES ASSUME Reads, ~torn, next > 1
               PROVE  \E k \in 0 .. passed' : SettledSince(k, passed', clock', before', E)
      BY <1>1, <1>4 DEF SecondsTell, Reads
  <2>1. \E k \in 0 .. passed : SettledSince(k, passed, clock, before, E)
        BY <1>3 DEF SecondsTell
  <2> QED BY <1>1, <2>1
<1>7. ReadsForwards'
      BY <1>1, <1>3, <1>4 DEF ReadsForwards, Reads
<1>8. DateIsAMoment' /\ TimeIsNotBehind'
      BY <1>1, AnswersStay
<1> QED BY <1>2, <1>5, <1>6, <1>7, <1>8

LEMMA ClockInvHolds == ClockSpec => []ClockInv
<1>1. ClockInv /\ [ClockNext]_clockVars => ClockInv'
  <2> SUFFICES ASSUME ClockInv, [ClockNext]_clockVars
               PROVE  ClockInv'
      OBVIOUS
  <2>1. ASSUME NEW function \in {"SysGetDate", "SysGetTime"}, Begin(function)
        PROVE  ClockInv'
        BY <2>1, ClockInvBegins
  <2> QED BY <2>1, ClockInvPasses, ClockInvSettles, ClockInvReads,
             ClockInvReadsAgain, ClockInvComputes, ClockInvReturns,
             ClockInvStutters DEF ClockNext
<1> QED BY <1>1, ClockInvInit, PTL DEF ClockSpec

(* Whatever second ends while SysGetDate reads, and whatever it carries    *)
(* over, the date it returns is one that the clock showed while it read,   *)
(* unless a register was read while the clock changed.                     *)
THEOREM SysGetDateReadsAMoment == ClockSpec => []DateIsAMoment
<1>1. ClockInv => DateIsAMoment
      BY DEF ClockInv
<1> QED BY <1>1, ClockInvHolds, PTL

(* What SysGetTime reads is not before the moment it was called at, and the*)
(* time it returns counts every second of that, with the month's length too*)
(* many and, but for the year 2000, a day missing.                         *)
THEOREM SysGetTimeIsNotBehind == ClockSpec => []TimeIsNotBehind
<1>1. ClockInv => TimeIsNotBehind
      BY DEF ClockInv
<1> QED BY <1>1, ClockInvHolds, PTL

-----------------------------------------------------------------------------
(***************************************************************************)
(* Numbers and their texts.                                                *)
(***************************************************************************)
LEMMA Figures ==
    /\ \A d \in 0 .. 15 : Bits(Representation[d + 1]) = d
    /\ \A c : Bits(c) \in 0 .. 15
    /\ \A c : isDigit(c) => Bits(c) = Digit(c) /\ Digit(c) \in 0 .. 9
    /\ ~isDigit("x")
<1>1. \A i, j \in 1 .. 16 : Representation[i] = Representation[j] => i = j
  <2>1. \A i, j \in {1, 2, 3, 4, 5, 6, 7, 8, 9, 10, 11, 12, 13, 14, 15, 16} :
           Representation[i] = Representation[j] => i = j
        BY DEF Representation
  <2> QED BY <2>1
<1>2. \A i \in 1 .. 16, j \in 1 .. 6 : Representation[i] # LowerCase[j]
  <2>1. \A i \in {1, 2, 3, 4, 5, 6, 7, 8, 9, 10, 11, 12, 13, 14, 15, 16} :
           \A j \in {1, 2, 3, 4, 5, 6} : Representation[i] # LowerCase[j]
        BY DEF Representation, LowerCase
  <2> QED BY <2>1
<1>3. ASSUME NEW c, isDigit(c)
      PROVE  /\ Bits(c) = Digit(c) /\ Digit(c) \in 0 .. 9
             /\ Representation[Digit(c) + 1] = c
  <2>1. PICK n : n = CHOOSE d \in 1 .. 10 : Representation[d] = c
        OBVIOUS
  <2>2. n \in 1 .. 10 /\ Representation[n] = c
        BY <1>3, <2>1 DEF isDigit
  <2>3. Digit(c) = n - 1
        BY <2>1 DEF Digit
  <2>4. Bits(c) = Digit(c)
    <3>1. /\ ~ \E d \in 11 .. 16 : Representation[d] = c
          /\ ~ \E d \in 1 .. 6 : LowerCase[d] = c
          BY <1>1, <1>2, <2>2
    <3> QED BY <1>3, <3>1 DEF Bits
  <2>5. n - 1 \in 0 .. 9 /\ (n - 1) + 1 = n
        BY <2>2
  <2> QED BY <2>2, <2>3, <2>4, <2>5
<1>4. ASSUME NEW c
      PROVE  Bits(c) \in 0 .. 15
  <2>1. PICK n, m : /\ n = CHOOSE d \in 11 .. 16 : Representation[d] = c
                    /\ m = CHOOSE d \in 1 .. 6 : LowerCase[d] = c
        OBVIOUS
  <2>2. (\E d \in 11 .. 16 : Representation[d] = c) => n \in 11 .. 16
        BY <2>1
  <2>3. (\E d \in 1 .. 6 : LowerCase[d] = c) => m \in 1 .. 6
        BY <2>1
  <2>4. Bits(c) = CASE isDigit(c) -> Digit(c)
                    [] \E d \in 11 .. 16 : Representation[d] = c -> n - 1
                    [] \E d \in 1 .. 6 : LowerCase[d] = c -> m + 9
                    [] OTHER -> 8
        BY <2>1 DEF Bits
  <2>5. \/ isDigit(c) /\ Bits(c) = Digit(c)
        \/ (\E d \in 11 .. 16 : Representation[d] = c) /\ Bits(c) = n - 1
        \/ (\E d \in 1 .. 6 : LowerCase[d] = c) /\ Bits(c) = m + 9
        \/ Bits(c) = 8
        BY <2>4
  <2> QED BY <1>3, <2>2, <2>3, <2>5
<1>5. ASSUME NEW d \in 0 .. 15
      PROVE  Bits(Representation[d + 1]) = d
  <2>1. PICK c : c = Representation[d + 1]
        OBVIOUS
  <2>2. CASE d <= 9
    <3>1. d + 1 \in 1 .. 10 /\ isDigit(c)
          BY <2>1, <2>2 DEF isDigit
    <3>2. PICK e : e = Digit(c)
          OBVIOUS
    <3>3. e \in 0 .. 9 /\ Representation[e + 1] = c /\ Bits(c) = e
          BY <1>3, <3>1, <3>2
    <3>4. e + 1 = d + 1
          BY <1>1, <2>1, <3>1, <3>3
    <3> QED BY <2>1, <3>3, <3>4
  <2>3. CASE d > 9
    <3>1. ~isDigit(c)
      <4>1. ASSUME NEW i \in 1 .. 10 PROVE Representation[i] # c
            BY <1>1, <2>1, <2>3
      <4> QED BY <4>1 DEF isDigit
    <3>2. d + 1 \in 11 .. 16
          BY <2>3
    <3>3. PICK n : n = CHOOSE i \in 11 .. 16 : Representation[i] = c
          OBVIOUS
    <3>4. n \in 11 .. 16 /\ Representation[n] = c
          BY <2>1, <3>2, <3>3
    <3>5. n = d + 1
          BY <1>1, <2>1, <3>2, <3>4
    <3>6. Bits(c) = n - 1
      <4>1. /\ \E i \in 11 .. 16 : Representation[i] = c
            /\ ~ \E i \in 1 .. 6 : LowerCase[i] = c
            BY <1>2, <2>1, <3>2
      <4> QED BY <3>1, <3>3, <4>1 DEF Bits
    <3> QED BY <2>1, <3>5, <3>6
  <2> QED BY <2>2, <2>3
<1>6. ~isDigit("x")
  <2>1. \A i \in {1, 2, 3, 4, 5, 6, 7, 8, 9, 10} : Representation[i] # "x"
        BY DEF Representation
  <2> QED BY <2>1 DEF isDigit
<1> QED BY <1>3, <1>4, <1>5, <1>6
(* The loops that read a text, as functions of the place they have come to.*)
Follow(f, str, base, width) ==
    /\ f[0] = 0
    /\ \A k \in 1 .. Len(str) :
          f[k] = (f[k - 1] * base + Bits(str[k])) % width

Means(f, str, base) ==
    /\ f[0] = 0
    /\ \A k \in 1 .. Len(str) : f[k] = f[k - 1] * base + Bits(str[k])

LEMMA LoopStays ==
    ASSUME NEW c, NEW x \in Nat, NEW base \in Nat, NEW width \in Nat \ {0}
    PROVE  /\ x * base + Bits(c) \in Nat
           /\ (x * base + Bits(c)) % width \in Nat
<1>1. PICK b \in 0 .. 15 : b = Bits(c)
      BY Figures
<1>2. PICK y \in Nat : y = x * base
      OBVIOUS
<1>3. y + b \in Int /\ y + b \in Nat
      BY <1>2
<1>4. (y + b) % width \in 0 .. width - 1
      BY <1>3, Division, Zenon
<1>5. (y + b) % width \in Nat
      BY <1>4
<1> QED BY <1>1, <1>2, <1>3, <1>5, Zenon

LEMMA NumberIsRead ==
    ASSUME NEW str, Len(str) \in Nat, NEW base \in Nat, NEW width \in Nat \ {0}
    PROVE  \E f \in [0 .. Len(str) -> Nat] :
              Follow(f, str, base, width) /\ NumberIn(str, base, width) = f[Len(str)]
<1> DEFINE Solves(f) == f = [k \in 0 .. Len(str) |->
                               IF k = 0 THEN 0
                               ELSE (f[k - 1] * base + Bits(str[k])) % width]
           number == CHOOSE f : Solves(f)
           step == [k \in 1 .. Len(str) |->
                      [x \in Nat |-> (x * base + Bits(str[k])) % width]]
<1>1. step \in [1 .. Len(str) -> [Nat -> Nat]]
  <2>1. \A k \in 1 .. Len(str), x \in Nat :
           (x * base + Bits(str[k])) % width \in Nat
        BY LoopStays
  <2> QED BY <2>1
<1>2. PICK f : Stepwise(f, Nat, 0, Len(str), step)
  <2> HIDE DEF step
  <2>1. 0 \in Nat
        OBVIOUS
  <2> QED BY <1>1, <2>1, StepByStep
<1>3. \A k \in 1 .. Len(str) : f[k] = (f[k - 1] * base + Bits(str[k])) % width
  <2> SUFFICES ASSUME NEW k \in 1 .. Len(str)
               PROVE  f[k] = (f[k - 1] * base + Bits(str[k])) % width
      OBVIOUS
  <2>1. PICK x \in Nat : x = f[k - 1]
        BY <1>2 DEF Stepwise
  <2>2. f[k] = step[k][x]
        BY <1>2, <2>1 DEF Stepwise
  <2>3. step[k][x] = (x * base + Bits(str[k])) % width
        BY <2>1, Zenon
  <2> QED BY <2>1, <2>2, <2>3, Zenon
<1> HIDE DEF step
<1>4. Solves(f)
  <2> DEFINE value(k) == (f[k - 1] * base + Bits(str[k])) % width
  <2>1. \A k \in 1 .. Len(str) : f[k] = value(k)
        BY <1>3
  <2> HIDE DEF value
  <2>2. f = [k \in 0 .. Len(str) |-> IF k = 0 THEN 0 ELSE value(k)]
        BY <1>2, <2>1 DEF Stepwise
  <2> QED BY <2>2 DEF value
<1>5. NumberIn(str, base, width) = number[Len(str)]
      BY DEF NumberIn
<1> HIDE DEF Solves
<1>6. Solves(number)
      BY <1>4
<1> HIDE DEF number
<1>7. /\ DOMAIN number = 0 .. Len(str) /\ number[0] = 0
      /\ \A k \in 1 .. Len(str) :
            number[k] = (number[k - 1] * base + Bits(str[k])) % width
  <2>1. number = [k \in 0 .. Len(str) |->
                    IF k = 0 THEN 0
                    ELSE (number[k - 1] * base + Bits(str[k])) % width]
        BY <1>6 DEF Solves
  <2> DEFINE value(k) == (number[k - 1] * base + Bits(str[k])) % width
  <2>2. number = [k \in 0 .. Len(str) |-> IF k = 0 THEN 0 ELSE value(k)]
        BY <2>1
  <2> HIDE DEF value
  <2>3. DOMAIN number = 0 .. Len(str) /\ number[0] = 0
        BY <2>2
  <2>4. \A k \in 1 .. Len(str) : number[k] = value(k)
        BY <2>2
  <2> QED BY <2>3, <2>4 DEF value
<1>8. \A k \in 1 .. Len(str) : number[k - 1] \in Nat => number[k] \in Nat
      BY <1>7, LoopStays
<1>9. \A k \in 0 .. Len(str) : number[k] \in Nat
  <2>1. number[0] \in Nat
        BY <1>7
  <2> QED BY <1>8, <2>1, StepsStay, Zenon
<1>10. number \in [0 .. Len(str) -> Nat]
       BY <1>6, <1>7, <1>9 DEF Solves
<1> QED BY <1>5, <1>7, <1>10 DEF Follow

LEMMA TextMeans ==
    ASSUME NEW str, Len(str) \in Nat, NEW base \in Nat
    PROVE  \E f \in [0 .. Len(str) -> Nat] :
              Means(f, str, base) /\ Meaning(str, base) = f[Len(str)]
<1> DEFINE Solves(f) == f = [k \in 0 .. Len(str) |->
                               IF k = 0 THEN 0 ELSE f[k - 1] * base + Bits(str[k])]
           value == CHOOSE f : Solves(f)
           step == [k \in 1 .. Len(str) |-> [x \in Nat |-> x * base + Bits(str[k])]]
<1>0. 1 \in Nat \ {0}
      OBVIOUS
<1>1. step \in [1 .. Len(str) -> [Nat -> Nat]]
  <2>1. \A k \in 1 .. Len(str), x \in Nat : x * base + Bits(str[k]) \in Nat
        BY <1>0, LoopStays
  <2> QED BY <2>1
<1>2. PICK f : Stepwise(f, Nat, 0, Len(str), step)
  <2> HIDE DEF step
  <2>1. 0 \in Nat
        OBVIOUS
  <2> QED BY <1>1, <2>1, StepByStep
<1>3. \A k \in 1 .. Len(str) : f[k] = f[k - 1] * base + Bits(str[k])
  <2> SUFFICES ASSUME NEW k \in 1 .. Len(str)
               PROVE  f[k] = f[k - 1] * base + Bits(str[k])
      OBVIOUS
  <2>1. PICK x \in Nat : x = f[k - 1]
        BY <1>2 DEF Stepwise
  <2>2. f[k] = step[k][x]
        BY <1>2, <2>1 DEF Stepwise
  <2>3. step[k][x] = x * base + Bits(str[k])
        BY <2>1, Zenon
  <2> QED BY <2>1, <2>2, <2>3, Zenon
<1> HIDE DEF step
<1>4. Solves(f)
  <2> DEFINE after(k) == f[k - 1] * base + Bits(str[k])
  <2>1. \A k \in 1 .. Len(str) : f[k] = after(k)
        BY <1>3
  <2> HIDE DEF after
  <2>2. f = [k \in 0 .. Len(str) |-> IF k = 0 THEN 0 ELSE after(k)]
        BY <1>2, <2>1 DEF Stepwise
  <2> QED BY <2>2 DEF after
<1>5. Meaning(str, base) = value[Len(str)]
      BY DEF Meaning
<1> HIDE DEF Solves
<1>6. Solves(value)
      BY <1>4
<1> HIDE DEF value
<1>7. /\ DOMAIN value = 0 .. Len(str) /\ value[0] = 0
      /\ \A k \in 1 .. Len(str) : value[k] = value[k - 1] * base + Bits(str[k])
  <2>1. value = [k \in 0 .. Len(str) |->
                    IF k = 0 THEN 0 ELSE value[k - 1] * base + Bits(str[k])]
        BY <1>6 DEF Solves
  <2> DEFINE after(k) == value[k - 1] * base + Bits(str[k])
  <2>2. value = [k \in 0 .. Len(str) |-> IF k = 0 THEN 0 ELSE after(k)]
        BY <2>1
  <2> HIDE DEF after
  <2>3. DOMAIN value = 0 .. Len(str) /\ value[0] = 0
        BY <2>2
  <2>4. \A k \in 1 .. Len(str) : value[k] = after(k)
        BY <2>2
  <2> QED BY <2>3, <2>4 DEF after
<1>8. \A k \in 1 .. Len(str) : value[k - 1] \in Nat => value[k] \in Nat
      BY <1>0, <1>7, LoopStays
<1>9. \A k \in 0 .. Len(str) : value[k] \in Nat
  <2>1. value[0] \in Nat
        BY <1>7
  <2> QED BY <1>8, <2>1, StepsStay, Zenon
<1>10. value \in [0 .. Len(str) -> Nat]
       BY <1>6, <1>7, <1>9 DEF Solves
<1> QED BY <1>5, <1>7, <1>10 DEF Means

(* What does not fit is lost, and nothing else.                            *)
LEMMA NumberIsRest ==
    ASSUME NEW str, Len(str) \in Nat, NEW base \in {10, 16},
           NEW width \in Nat \ {0}
    PROVE  /\ Meaning(str, base) \in Nat
           /\ NumberIn(str, base, width) = Meaning(str, base) % width
<1>0. base \in Nat
      OBVIOUS
<1>1. PICK f \in [0 .. Len(str) -> Nat] :
         Follow(f, str, base, width) /\ NumberIn(str, base, width) = f[Len(str)]
      BY <1>0, NumberIsRead
<1>2. PICK g \in [0 .. Len(str) -> Nat] :
         Means(g, str, base) /\ Meaning(str, base) = g[Len(str)]
      BY <1>0, TextMeans
<1> DEFINE rest == [k \in 0 .. Len(str) |-> g[k] % width]
<1>3. f[0] = rest[0]
  <2>1. f[0] = 0 /\ g[0] = 0 /\ rest[0] = g[0] % width
        BY <1>1, <1>2 DEF Follow, Means
  <2>2. 0 % width = 0
        BY SmallRest
  <2> QED BY <2>1, <2>2, Zenon
<1>4. ASSUME NEW k \in 1 .. Len(str), f[k - 1] = rest[k - 1]
      PROVE  f[k] = rest[k]
  <2>1. PICK a \in Nat : a = g[k - 1]
        BY <1>2
  <2>2. PICK d \in Nat : d = Bits(str[k])
    <3>1. Bits(str[k]) \in 0 .. 15
          BY Figures
    <3> QED BY <3>1
  <2>3. rest[k - 1] = a % width /\ rest[k] = g[k] % width
    <3>1. k - 1 \in 0 .. Len(str) /\ k \in 0 .. Len(str)
          OBVIOUS
    <3> QED BY <2>1, <3>1, Zenon
  <2>4. f[k] = ((a % width) * base + d) % width
    <3>1. f[k] = (f[k - 1] * base + Bits(str[k])) % width
          BY <1>1 DEF Follow
    <3>2. f[k - 1] = a % width
          BY <1>4, <2>3
    <3> QED BY <2>2, <3>1, <3>2, Zenon
  <2>5. g[k] = a * base + d
        BY <1>2, <2>1, <2>2 DEF Means
  <2>6. ((a % width) * base + d) % width = (a * base + d) % width
        BY RestOfSum
  <2> QED BY <2>3, <2>4, <2>5, <2>6, Zenon
<1>5. \A k \in 0 .. Len(str) : f[k] = rest[k]
  <2> HIDE DEF rest
  <2>1. \A k \in 1 .. Len(str) : f[k - 1] = rest[k - 1] => f[k] = rest[k]
        BY <1>4
  <2>2. Agree(f, rest, 0)
        BY <1>3 DEF Agree
  <2>3. \A k \in 1 .. Len(str) : Agree(f, rest, k - 1) => Agree(f, rest, k)
        BY <2>1 DEF Agree
  <2>4. \A k \in 0 .. Len(str) : Agree(f, rest, k)
        BY <2>2, <2>3, StepsAgree
  <2> QED BY <2>4 DEF Agree
<1>6. Len(str) \in 0 .. Len(str)
      OBVIOUS
<1>7. f[Len(str)] = g[Len(str)] % width
      BY <1>5, <1>6, Zenon
<1>8. g[Len(str)] \in Nat
      BY <1>6
<1> QED BY <1>1, <1>2, <1>7, <1>8, Zenon

(* One more character.                                                     *)
LEMMA MeaningOfAppended ==
    ASSUME NEW C, NEW str \in Seq(C), NEW c \in C, NEW base \in Nat
    PROVE  /\ Meaning(str, base) \in Nat
           /\ Meaning(str \o <<c>>, base) = Meaning(str, base) * base + Bits(c)
<1>1. PICK n \in Nat : n = Len(str)
      OBVIOUS
<1>2. PICK long : long = str \o <<c>>
      OBVIOUS
<1>3. /\ Len(long) = n + 1 /\ long[n + 1] = c
      /\ \A k \in 1 .. n : long[k] = str[k]
      BY <1>1, <1>2
<1>4. PICK f \in [0 .. n -> Nat] :
         Means(f, str, base) /\ Meaning(str, base) = f[n]
      BY <1>1, TextMeans
<1>5. PICK g \in [0 .. n + 1 -> Nat] :
         Means(g, long, base) /\ Meaning(long, base) = g[n + 1]
  <2>1. Len(long) \in Nat
        BY <1>3
  <2>2. \E h \in [0 .. Len(long) -> Nat] :
           Means(h, long, base) /\ Meaning(long, base) = h[Len(long)]
        BY <2>1, TextMeans
  <2> QED BY <1>3, <2>2, Zenon
<1>6. f[0] = g[0]
      BY <1>4, <1>5 DEF Means
<1>7. ASSUME NEW k \in 1 .. n, f[k - 1] = g[k - 1]
      PROVE  f[k] = g[k]
  <2>1. f[k] = f[k - 1] * base + Bits(str[k])
        BY <1>1, <1>4 DEF Means
  <2>2. g[k] = g[k - 1] * base + Bits(long[k])
        BY <1>3, <1>5 DEF Means
  <2> QED BY <1>3, <1>7, <2>1, <2>2, Zenon
<1>8. \A k \in 0 .. n : f[k] = g[k]
  <2>1. \A k \in 1 .. n : f[k - 1] = g[k - 1] => f[k] = g[k]
        BY <1>7
  <2>2. Agree(f, g, 0)
        BY <1>6 DEF Agree
  <2>3. \A k \in 1 .. n : Agree(f, g, k - 1) => Agree(f, g, k)
        BY <2>1 DEF Agree
  <2>4. \A k \in 0 .. n : Agree(f, g, k)
        BY <2>2, <2>3, StepsAgree
  <2> QED BY <2>4 DEF Agree
<1>9. g[n + 1] = g[n] * base + Bits(c)
  <2>1. n + 1 \in 1 .. n + 1 /\ (n + 1) - 1 = n
        OBVIOUS
  <2>2. g[n + 1] = g[(n + 1) - 1] * base + Bits(long[n + 1])
        BY <1>3, <1>5, <2>1 DEF Means
  <2> QED BY <1>3, <2>1, <2>2, Zenon
<1>10. f[n] \in Nat /\ f[n] = g[n]
       BY <1>8
<1> QED BY <1>2, <1>4, <1>5, <1>9, <1>10, Zenon

(* What a byte becomes at a character; -1 when it is given up.             *)
ByteAfter(x, c) ==
    IF x < 0 \/ ~isDigit(c) \/ x * 10 + Digit(c) > BYTES - 1 THEN -1
    ELSE x * 10 + Digit(c)

LEMMA ByteIsRead ==
    ASSUME NEW str, Len(str) \in Nat
    PROVE  \E f : /\ f[0] = 0
                  /\ \A k \in 1 .. Len(str) : f[k] = ByteAfter(f[k - 1], str[k])
                  /\ convertToByte(str) = IF f[Len(str)] < 0 THEN 0 ELSE f[Len(str)]
<1> DEFINE Solves(f) == f = [k \in 0 .. Len(str) |->
                               IF k = 0 THEN 0 ELSE ByteAfter(f[k - 1], str[k])]
           number == CHOOSE f : Solves(f)
           step == [k \in 1 .. Len(str) |-> [x \in Int |-> ByteAfter(x, str[k])]]
<1>1. step \in [1 .. Len(str) -> [Int -> Int]]
  <2>1. ASSUME NEW x \in Int, NEW c
        PROVE  ByteAfter(x, c) \in Int
    <3>1. isDigit(c) => Digit(c) \in 0 .. 9
          BY Figures
    <3>2. CASE isDigit(c)
      <4>1. PICK d \in 0 .. 9 : d = Digit(c)
            BY <3>1, <3>2
      <4>2. x * 10 + d \in Int /\ -1 \in Int
            OBVIOUS
      <4> QED BY <4>1, <4>2 DEF ByteAfter
    <3>3. CASE ~isDigit(c)
          BY <3>3 DEF ByteAfter
    <3> QED BY <3>2, <3>3
  <2>2. \A k \in 1 .. Len(str), x \in Int : ByteAfter(x, str[k]) \in Int
        BY <2>1
  <2> QED BY <2>2
<1>2. PICK f : Stepwise(f, Int, 0, Len(str), step)
  <2> HIDE DEF step
  <2>1. 0 \in Int
        OBVIOUS
  <2> QED BY <1>1, <2>1, StepByStep
<1>3. \A k \in 1 .. Len(str) : f[k] = ByteAfter(f[k - 1], str[k])
  <2> SUFFICES ASSUME NEW k \in 1 .. Len(str)
               PROVE  f[k] = ByteAfter(f[k - 1], str[k])
      OBVIOUS
  <2>1. PICK x \in Int : x = f[k - 1]
        BY <1>2 DEF Stepwise
  <2>2. f[k] = step[k][x]
        BY <1>2, <2>1 DEF Stepwise
  <2>3. step[k][x] = ByteAfter(x, str[k])
        BY <2>1, Zenon
  <2> QED BY <2>1, <2>2, <2>3, Zenon
<1> HIDE DEF step
<1>4. Solves(f)
  <2> DEFINE after(k) == ByteAfter(f[k - 1], str[k])
  <2>1. \A k \in 1 .. Len(str) : f[k] = after(k)
        BY <1>3
  <2> HIDE DEF after
  <2>2. f = [k \in 0 .. Len(str) |-> IF k = 0 THEN 0 ELSE after(k)]
        BY <1>2, <2>1 DEF Stepwise
  <2> QED BY <2>2 DEF after
<1>5. convertToByte(str) = IF number[Len(str)] < 0 THEN 0 ELSE number[Len(str)]
      BY DEF convertToByte, ByteAfter
<1> HIDE DEF Solves
<1>6. Solves(number)
      BY <1>4
<1> HIDE DEF number
<1>7. number[0] = 0 /\ \A k \in 1 .. Len(str) : number[k] = ByteAfter(number[k - 1], str[k])
  <2>1. number = [k \in 0 .. Len(str) |->
                    IF k = 0 THEN 0 ELSE ByteAfter(number[k - 1], str[k])]
        BY <1>6 DEF Solves
  <2> DEFINE after(k) == ByteAfter(number[k - 1], str[k])
  <2>2. number = [k \in 0 .. Len(str) |-> IF k = 0 THEN 0 ELSE after(k)]
        BY <2>1
  <2> HIDE DEF after
  <2>3. number[0] = 0
        BY <2>2
  <2>4. \A k \in 1 .. Len(str) : number[k] = after(k)
        BY <2>2
  <2> QED BY <2>3, <2>4 DEF after
<1> QED BY <1>5, <1>7

(* A byte is the number typed when it is one and fits, and 0 otherwise.    *)
LEMMA ByteFits ==
    ASSUME NEW C, NEW str \in Seq(C)
    PROVE  convertToByte(str) = IF AllDigits(str) /\ Meaning(str, 10) < BYTES
                                THEN Meaning(str, 10) ELSE 0
<1>1. PICK n \in Nat : n = Len(str) /\ DOMAIN str = 1 .. n
      OBVIOUS
<1>2. PICK f : /\ f[0] = 0
               /\ \A k \in 1 .. n : f[k] = ByteAfter(f[k - 1], str[k])
               /\ convertToByte(str) = IF f[n] < 0 THEN 0 ELSE f[n]
      BY <1>1, ByteIsRead
<1>3. PICK g \in [0 .. n -> Nat] : Means(g, str, 10) /\ Meaning(str, 10) = g[n]
      BY <1>1, TextMeans
<1>4. CASE AllDigits(str)
  <2> DEFINE fits == [k \in 0 .. n |-> IF g[k] < BYTES THEN g[k] ELSE -1]
  <2>1. f[0] = fits[0]
        BY <1>2, <1>3, NumbersAssumption DEF Means
  <2>2. ASSUME NEW k \in 1 .. n, f[k - 1] = fits[k - 1]
        PROVE  f[k] = fits[k]
    <3>1. PICK c : c = str[k]
          OBVIOUS
    <3>2. isDigit(c)
          BY <1>1, <1>4, <3>1 DEF AllDigits
    <3>3. PICK d \in 0 .. 9 : d = Digit(c) /\ d = Bits(c)
          BY <3>2, Figures
    <3>4. PICK a \in Nat, b \in Nat : a = g[k - 1] /\ b = g[k]
          BY <1>3
    <3>5. b = a * 10 + d
          BY <1>1, <1>3, <3>1, <3>3, <3>4 DEF Means
    <3>6. PICK x : x = f[k - 1]
          OBVIOUS
    <3>7. x = (IF a < BYTES THEN a ELSE -1) /\ fits[k] = IF b < BYTES THEN b ELSE -1
          BY <2>2, <3>4, <3>6
    <3>8. f[k] = IF x < 0 \/ x * 10 + d > BYTES - 1 THEN -1 ELSE x * 10 + d
          BY <1>2, <3>1, <3>2, <3>3, <3>6 DEF ByteAfter
    <3> HIDE DEF fits
    <3>9. PICK w \in Nat : w = BYTES
          BY NumbersAssumption
    <3> QED BY <3>5, <3>7, <3>8, <3>9
  <2>3. \A k \in 0 .. n : f[k] = fits[k]
    <3> HIDE DEF fits
    <3>1. \A k \in 1 .. n : f[k - 1] = fits[k - 1] => f[k] = fits[k]
          BY <2>2
    <3>2. Agree(f, fits, 0)
          BY <2>1 DEF Agree
    <3>3. \A k \in 1 .. n : Agree(f, fits, k - 1) => Agree(f, fits, k)
          BY <3>1 DEF Agree
    <3>4. \A k \in 0 .. n : Agree(f, fits, k)
          BY <3>2, <3>3, StepsAgree
    <3> QED BY <3>4 DEF Agree
  <2>4. n \in 0 .. n
        OBVIOUS
  <2>5. f[n] = fits[n] /\ fits[n] = IF g[n] < BYTES THEN g[n] ELSE -1
        BY <2>3, <2>4, Zenon
  <2>6. PICK a \in Nat, x, w \in Nat : a = g[n] /\ x = f[n] /\ w = BYTES
        BY <2>4, NumbersAssumption
  <2>7. x = IF a < w THEN a ELSE -1
        BY <2>5, <2>6, Zenon
  <2>8. (IF x < 0 THEN 0 ELSE x) = IF a < w THEN a ELSE 0
        BY <2>6, <2>7
  <2> QED BY <1>2, <1>3, <1>4, <2>6, <2>8, Zenon
<1>5. CASE ~AllDigits(str)
  <2>1. PICK i \in 1 .. n : ~isDigit(str[i])
        BY <1>1, <1>5 DEF AllDigits
  <2>2. f[i] = -1
        BY <1>2, <2>1 DEF ByteAfter
  <2>3. ASSUME NEW k \in 1 .. n, f[k - 1] = -1
        PROVE  f[k] = -1
        BY <1>2, <2>3 DEF ByteAfter
  <2> DEFINE tail == [k \in 0 .. n |-> IF k < i THEN -1 ELSE f[k]]
  <2>4. \A k \in 1 .. n : tail[k - 1] \in {-1} => tail[k] \in {-1}
        BY <2>2, <2>3
  <2>5. tail[0] \in {-1}
        BY <2>1
  <2>6. \A k \in 0 .. n : tail[k] \in {-1}
    <3> HIDE DEF tail
    <3>1. n \in Nat
          OBVIOUS
    <3>2. PICK S : S = {-1}
          OBVIOUS
    <3>3. tail[0] \in S /\ \A k \in 1 .. n : tail[k - 1] \in S => tail[k] \in S
          BY <2>4, <2>5, <3>2, Zenon
    <3>4. \A k \in 0 .. n : tail[k] \in S
          BY <3>1, <3>3, StepsStay
    <3> QED BY <3>2, <3>4
  <2>7. f[n] = -1
        BY <2>1, <2>6
  <2> QED BY <1>2, <1>5, <2>7
<1> QED BY <1>4, <1>5

(* The characters that convert prints.                                     *)
Figure == {Representation[i] : i \in 1 .. 16}

LEMMA QuotientsFall ==
    ASSUME NEW n \in Nat, NEW base \in {10, 16}
    PROVE  /\ n % base \in 0 .. 15 /\ n \div base \in 0 .. n
           /\ n < base => n % base = n
           /\ n >= base => n \div base < n
           /\ n = (n \div base) * base + (n % base)
<1>1. CASE base = 10
      BY <1>1
<1>2. CASE base = 16
      BY <1>2
<1> QED BY <1>1, <1>2

(* A digit behind the digits of the quotient, if there are any.            *)
Extended(d, n, base) ==
    (IF n < base THEN <<>> ELSE d[n \div base]) \o <<Representation[(n % base) + 1]>>

LEMMA DigitsAreFigures ==
    ASSUME NEW n \in Nat, NEW base \in {10, 16}, NEW d,
           \A m \in 0 .. n - 1 : d[m] \in Seq(Figure)
    PROVE  Extended(d, n, base) \in Seq(Figure)
<1>1. PICK c : c = Representation[(n % base) + 1]
      OBVIOUS
<1>2. n % base \in 0 .. 15
      BY QuotientsFall
<1>3. (n % base) + 1 \in 1 .. 16
      BY <1>2
<1>4. c \in Figure
      BY <1>1, <1>3 DEF Figure
<1>5. PICK s : s = IF n < base THEN <<>> ELSE d[n \div base]
      OBVIOUS
<1>6. s \in Seq(Figure)
  <2>1. CASE n < base
        BY <1>5, <2>1
  <2>2. CASE ~(n < base)
    <3>1. n \div base \in 0 .. n /\ n \div base < n
          BY <2>2, QuotientsFall
    <3>2. n \div base \in 0 .. n - 1
          BY <3>1
    <3> QED BY <1>5, <2>2, <3>2, Zenon
  <2> QED BY <2>1, <2>2
<1>7. s \o <<c>> \in Seq(Figure)
      BY <1>4, <1>6
<1> QED BY <1>1, <1>5, <1>7 DEF Extended

LEMMA DigitsExist ==
    ASSUME NEW num \in Nat, NEW base \in {10, 16}
    PROVE  \E d \in [0 .. num -> Seq(Figure)] :
              \A n \in 0 .. num : d[n] = Extended(d, n, base)
<1> DEFINE Table(d, m) == /\ d \in [0 .. m -> Seq(Figure)]
                          /\ \A n \in 0 .. m : d[n] = Extended(d, n, base)
           none == {m \in 0 .. num : ~ \E d : Table(d, m)}
<1>1. none = {}
  <2> SUFFICES ASSUME none # {} PROVE FALSE
      OBVIOUS
  <2>0. none \subseteq Nat
        OBVIOUS
  <2>1. PICK m \in none : \A l \in none : m <= l
    <3> HIDE DEF none
    <3> QED BY <2>0, LeastPosition
  <2>2. m \in 0 .. num /\ ~ \E d : Table(d, m)
        OBVIOUS
  <2>3. PICK g : m > 0 => Table(g, m - 1)
    <3>1. CASE m = 0
          BY <3>1
    <3>2. CASE m > 0
      <4>1. m - 1 \in 0 .. num /\ m - 1 \notin none
        <5> HIDE DEF none
        <5> QED BY <2>1, <2>2, <3>2
      <4>2. \E d : Table(d, m - 1)
        <5> HIDE DEF Table
        <5> QED BY <4>1
      <4> HIDE DEF Table
      <4> QED BY <4>2
    <3> QED BY <2>2, <3>1, <3>2
  <2>4. \A l \in 0 .. m - 1 : g[l] \in Seq(Figure) /\ g[l] = Extended(g, l, base)
        BY <2>2, <2>3
  <2>5. PICK new : new = Extended(g, m, base)
        OBVIOUS
  <2>6. new \in Seq(Figure)
        BY <2>2, <2>4, <2>5, DigitsAreFigures
  <2> DEFINE h == [l \in 0 .. m |-> IF l = m THEN new ELSE g[l]]
  <2>7. h \in [0 .. m -> Seq(Figure)]
        BY <2>4, <2>6
  <2>8. ASSUME NEW l \in 0 .. m
        PROVE  h[l] = Extended(h, l, base)
    <3>1. l >= base => l \div base \in 0 .. m - 1
      <4>1. l \in Nat
            BY <2>2
      <4>2. /\ l \div base \in 0 .. l
            /\ l >= base => l \div base < l
            BY <4>1, QuotientsFall
      <4> QED BY <2>2, <4>1, <4>2
    <3>2. l >= base => h[l \div base] = g[l \div base]
          BY <3>1
    <3>3. Extended(h, l, base) = Extended(g, l, base)
      <4>1. l \in Nat /\ base \in Nat
            BY <2>2
      <4>2. PICK x, y : x = h[l \div base] /\ y = g[l \div base]
            OBVIOUS
      <4>3. l < base \/ x = y
            BY <3>2, <4>1, <4>2
      <4>4. (IF l < base THEN <<>> ELSE x) = IF l < base THEN <<>> ELSE y
            BY <4>3
      <4> QED BY <4>2, <4>4, Zenon DEF Extended
    <3>4. h[l] = Extended(g, l, base)
          BY <2>4, <2>5
    <3> QED BY <3>3, <3>4
  <2>9. Table(h, m)
        BY <2>7, <2>8
  <2> QED
    <3> HIDE DEF Table
    <3> QED BY <2>2, <2>9
<1>2. num \in 0 .. num
      OBVIOUS
<1>3. \E d : Table(d, num)
  <2> HIDE DEF Table
  <2> QED BY <1>1, <1>2
<1> QED BY <1>3

(* What convert prints is read as the number it was given.                 *)
LEMMA ConvertedIsRead ==
    ASSUME NEW num \in Nat, NEW base \in {10, 16}
    PROVE  /\ convert(num, base) \in Seq(Figure)
           /\ Meaning(convert(num, base), base) = num
<1> DEFINE Solves(d) == d = [n \in 0 .. num |->
              (IF n < base THEN <<>> ELSE d[n \div base])
                 \o <<Representation[(n % base) + 1]>>]
           digits == CHOOSE d : Solves(d)
<1>1. PICK t \in [0 .. num -> Seq(Figure)] :
              \A n \in 0 .. num : t[n] = Extended(t, n, base)
      BY DigitsExist
<1>2. Solves(t)
  <2>1. t = [n \in 0 .. num |-> Extended(t, n, base)]
        BY <1>1
  <2> QED BY <2>1 DEF Extended
<1>3. convert(num, base) = digits[num]
      BY DEF convert
<1> HIDE DEF Solves
<1>4. Solves(digits)
      BY <1>2
<1> HIDE DEF digits
<1>5. \A n \in 0 .. num : digits[n] = Extended(digits, n, base)
  <2>1. digits = [n \in 0 .. num |-> Extended(digits, n, base)]
        BY <1>4 DEF Solves, Extended
  <2> QED BY <2>1
<1> DEFINE Good(n) == digits[n] \in Seq(Figure) /\ Meaning(digits[n], base) = n
           bad == {n \in 0 .. num : ~Good(n)}
<1>6. bad = {}
  <2> SUFFICES ASSUME bad # {} PROVE FALSE
      OBVIOUS
  <2>0. bad \subseteq Nat
        OBVIOUS
  <2>1. PICK n \in bad : \A l \in bad : n <= l
    <3> HIDE DEF bad
    <3> QED BY <2>0, LeastPosition
  <2>2. n \in 0 .. num /\ n \in Nat /\ ~Good(n)
        OBVIOUS
  <2>3. ASSUME NEW l \in 0 .. n - 1 PROVE Good(l)
    <3>1. l \in 0 .. num /\ l \notin bad
      <4> HIDE DEF bad
      <4> QED BY <2>1, <2>2, <2>3
    <3> HIDE DEF Good
    <3> QED BY <3>1
  <2>4. digits[n] = Extended(digits, n, base)
        BY <1>5, <2>2
  <2>5. PICK q, r : q = n \div base /\ r = n % base
        OBVIOUS
  <2>6. /\ r \in 0 .. 15 /\ q \in 0 .. n /\ n = q * base + r
        /\ n < base => r = n
        /\ n >= base => q < n
        BY <2>2, <2>5, QuotientsFall
  <2>7. PICK c : c = Representation[r + 1]
        OBVIOUS
  <2>8. Bits(c) = r /\ c \in Figure
    <3>1. r + 1 \in 1 .. 16
          BY <2>6
    <3> QED BY <2>6, <2>7, <3>1, Figures DEF Figure
  <2>9. PICK s : s = IF n < base THEN <<>> ELSE digits[q]
        OBVIOUS
  <2>10. digits[n] = s \o <<c>>
         BY <2>4, <2>5, <2>7, <2>9 DEF Extended
  <2>11. s \in Seq(Figure) /\ Meaning(s, base) * base + r = n
    <3>1. CASE n < base
      <4>1. s = <<>> /\ s \in Seq(Figure) /\ Len(s) = 0
            BY <2>9, <3>1
      <4>2. PICK f \in [0 .. 0 -> Nat] : Means(f, s, base) /\ Meaning(s, base) = f[0]
        <5>1. base \in Nat /\ Len(s) \in Nat
              BY <4>1
        <5> QED BY <4>1, <5>1, TextMeans
      <4>3. Meaning(s, base) = 0
            BY <4>2 DEF Means
      <4> QED BY <2>6, <3>1, <4>1, <4>3
    <3>2. CASE ~(n < base)
      <4>1. s = digits[q] /\ q \in 0 .. n - 1
            BY <2>2, <2>6, <2>9, <3>2
      <4>2. Good(q)
            BY <2>3, <4>1
      <4> QED BY <2>6, <4>1, <4>2
    <3> QED BY <3>1, <3>2
  <2>12. s \o <<c>> \in Seq(Figure) /\ Meaning(s \o <<c>>, base) = Meaning(s, base) * base + r
    <3>1. base \in Nat
          OBVIOUS
    <3> QED BY <2>8, <2>11, <3>1, MeaningOfAppended
  <2>13. Good(n)
         BY <2>10, <2>11, <2>12
  <2> QED BY <2>2, <2>13
<1>7. num \in 0 .. num
      OBVIOUS
<1>8. Good(num)
  <2> HIDE DEF Good
  <2> QED BY <1>6, <1>7
<1> QED BY <1>3, <1>8

(* An address is printed behind "0x" and read from there.                  *)
LEMMA PrintedIsRead ==
    ASSUME NEW a \in 1 .. UINTS - 1
    PROVE  /\ Formatted(<<"%x">>, <<a>>) = PrintHexa(a)
           /\ Len(PrintHexa(a)) \in Nat
           /\ converHexToQWORD(PrintHexa(a)) = a
           /\ convertToQWord(PrintHexa(a)) = 0
<1>1. PICK u \in Nat, w \in Nat : u = UINTS /\ w = QWORDS /\ u <= w
      BY NumbersAssumption
<1>2. a \in Nat /\ a < u /\ a < w /\ w \in Nat \ {0}
      BY <1>1
<1>3. a % UINTS = a
      BY <1>1, <1>2, SmallRest, Zenon
<1>4. PICK s : s = convert(a, 16)
      OBVIOUS
<1>5. s \in Seq(Figure) /\ Meaning(s, 16) = a
      BY <1>2, <1>4, ConvertedIsRead
<1>6. "0" \in Figure
      BY DEF Figure, Representation
<1> DEFINE Typeable == Figure \cup {"x"}
<1>7. PICK p : p = <<"0", "x">> \o s
      OBVIOUS
<1>8. PrintHexa(a) = p
      BY <1>3, <1>4, <1>7 DEF PrintHexa
<1>9. s \in Seq(Typeable) /\ <<"0", "x">> \in Seq(Typeable)
      BY <1>5, <1>6
<1>10. PICK n \in Nat : n = Len(s)
       BY <1>5
<1>11. /\ p \in Seq(Typeable) /\ Len(p) = n + 2 /\ p[2] = "x"
       /\ \A i \in 1 .. n : p[i + 2] = s[i]
  <2> HIDE DEF Typeable
  <2>1. Len(<<"0", "x">>) = 2 /\ <<"0", "x">>[2] = "x"
        OBVIOUS
  <2> QED BY <1>7, <1>9, <1>10, <2>1
<1>12. SubSeq(p, 3, Len(p)) = s
  <2> HIDE DEF Typeable
  <2>1. SubSeq(p, 3, n + 2) = [i \in 1 .. n |-> p[i + 2]]
        BY <1>10, <1>11
  <2>2. s = [i \in 1 .. n |-> s[i]]
        BY <1>5, <1>10
  <2> QED BY <1>11, <2>1, <2>2
<1>13. converHexToQWORD(p) = a
  <2>1. NumberIn(s, 16, w) = Meaning(s, 16) % w
        BY <1>2, <1>10, NumberIsRest
  <2>2. a % w = a
        BY <1>2, SmallRest
  <2> QED BY <1>1, <1>5, <1>12, <2>1, <2>2, Zenon DEF converHexToQWORD
<1>14. convertToQWord(p) = 0
  <2>1. 2 \in DOMAIN p /\ ~isDigit(p[2])
        BY <1>11, Figures
  <2>2. ~AllDigits(p)
        BY <2>1 DEF AllDigits
  <2> QED BY <2>2 DEF convertToQWord, convertTo
<1>15. Formatted(<<"%x">>, <<a>>) = p
  <2> DEFINE format == <<"%x">>
             args == <<a>>
             Solves(d) == d = [k \in 0 .. Len(format) |->
                IF k = 0 THEN [text |-> <<>>, args |-> args]
                ELSE IF format[k] \in Conversions
                THEN [text |-> d[k - 1].text \o Converted(format[k], Head(d[k - 1].args)),
                      args |-> Tail(d[k - 1].args)]
                ELSE [d[k - 1] EXCEPT !.text = Append(@, format[k])]]
             done == CHOOSE d : Solves(d)
             first == [text |-> <<>>, args |-> args]
             second == [text |-> p, args |-> <<>>]
  <2>1. Len(format) = 1 /\ format[1] = "%x" /\ "%x" \in Conversions
        BY DEF Conversions
  <2>2. Converted("%x", a) = p
        BY <1>8 DEF Converted
  <2>3. <<>> \o p = p
        BY <1>11
  <2>4. first.text = <<>> /\ Head(first.args) = a /\ Tail(first.args) = <<>>
        OBVIOUS
  <2> DEFINE t == [k \in 0 .. 1 |-> IF k = 0 THEN first ELSE second]
  <2>5. Solves(t)
    <3>1. t[0] = first
          OBVIOUS
    <3> QED BY <2>1, <2>2, <2>3, <2>4, <3>1
  <2>6. Formatted(format, args) = done[Len(format)].text
        BY DEF Formatted
  <2>7. Solves(done)
    <3> HIDE DEF Solves, t
    <3> QED BY <2>5
  <2> HIDE DEF done
  <2>8. done[0] = first
        BY <2>1, <2>7
  <2>9. done[1].text = first.text \o Converted("%x", Head(first.args))
    <3>1. 1 \in 0 .. Len(format) /\ 1 # 0 /\ 1 - 1 = 0
          BY <2>1
    <3>2. done[1] =
            IF format[1] \in Conversions
            THEN [text |-> done[0].text \o Converted(format[1], Head(done[0].args)),
                  args |-> Tail(done[0].args)]
            ELSE [done[0] EXCEPT !.text = Append(@, format[1])]
      <4> HIDE DEF format, first, args
      <4> QED BY <2>7, <3>1
    <3>3. done[1].text = done[0].text \o Converted(format[1], Head(done[0].args))
      <4> HIDE DEF format, first, args
      <4>1. PICK x, y, z :
               /\ x = done[0].text \o Converted(format[1], Head(done[0].args))
               /\ y = Tail(done[0].args)
               /\ z = [done[0] EXCEPT !.text = Append(@, format[1])]
            OBVIOUS
      <4>2. format[1] \in Conversions
            BY <2>1
      <4>3. done[1] = IF format[1] \in Conversions THEN [text |-> x, args |-> y] ELSE z
            BY <3>2, <4>1, Zenon
      <4>4. done[1].text = x
            BY <4>2, <4>3
      <4> QED BY <4>1, <4>4
    <3> QED BY <2>1, <2>8, <3>3
  <2> QED BY <2>1, <2>2, <2>3, <2>4, <2>6, <2>9
<1> QED BY <1>8, <1>11, <1>13, <1>14, <1>15

-----------------------------------------------------------------------------
(***************************************************************************)
(* The commands.                                                           *)
(***************************************************************************)
(* What is typed is a text, and the number that a function reads from it.  *)
LEMMA TextsAreTexts ==
    ASSUME NEW t \in Texts
    PROVE  t \in Seq(Figure \cup {"x"})
<1>1. CASE t = <<"1", "x">>
  <2>1. "1" \in Figure
        BY DEF Figure, Representation
  <2> QED BY <1>1, <2>1
<1>2. ASSUME NEW n \in Typed, t = convert(n, 10)
      PROVE  t \in Seq(Figure \cup {"x"})
  <2>1. n \in Nat
        BY CommandsAssumption
  <2>2. t \in Seq(Figure)
        BY <1>2, <2>1, ConvertedIsRead
  <2> QED BY <2>2
<1> QED BY <1>1, <1>2 DEF Texts

LEMMA TypedIsRead ==
    ASSUME NEW t \in Texts
    PROVE  /\ Number(t) \in Nat /\ Number(t) % UINTS \in Nat
           /\ convertToUInt(t) = Number(t) % UINTS
           /\ convertToULong(t) = Number(t) % UINTS
           /\ convertToByte(t) = IF Number(t) < BYTES THEN Number(t) ELSE 0
<1>1. t \in Seq(Figure \cup {"x"}) /\ Len(t) \in Nat
      BY TextsAreTexts
<1>2. PICK u \in Nat \ {0}, w \in Nat \ {0} : u = UINTS /\ w = BYTES
      BY NumbersAssumption
<1>3. PICK m : m = Meaning(t, 10)
      OBVIOUS
<1>4. m \in Nat /\ NumberIn(t, 10, u) = m % u
      BY <1>1, <1>2, <1>3, NumberIsRest
<1>5. 0 % u = 0
      BY <1>2, SmallRest
<1>6. convertToByte(t) = IF AllDigits(t) /\ m < w THEN m ELSE 0
      BY <1>1, <1>2, <1>3, ByteFits, Zenon
<1>7. CASE AllDigits(t)
  <2>1. Number(t) = m /\ convertTo(t, u) = m % u
        BY <1>3, <1>4, <1>7 DEF Number, convertTo
  <2>2. convertToByte(t) = IF m < w THEN m ELSE 0
        BY <1>6, <1>7
  <2>3. m \in Int /\ m % u \in 0 .. u - 1
    <3>1. m \in Int
          BY <1>4
    <3> QED BY <3>1, Division, Zenon
  <2>4. m % u \in Nat
        BY <2>3
  <2> QED BY <1>2, <1>4, <2>1, <2>2, <2>4, Zenon DEF convertToUInt, convertToULong
<1>8. CASE ~AllDigits(t)
  <2>1. Number(t) = 0 /\ convertTo(t, u) = 0 /\ convertToByte(t) = 0
        BY <1>6, <1>8 DEF Number, convertTo
  <2>2. (IF 0 < w THEN 0 ELSE 0) = 0 /\ 0 \in Nat
        OBVIOUS
  <2> QED BY <1>2, <1>5, <2>1, <2>2, Zenon DEF convertToUInt, convertToULong
<1> QED BY <1>7, <1>8

(* What ArgumentsArrive says of a call, when the block is at address.      *)
ComesThrough(c, address) ==
    LET number == Number(c.texts[1])
        small  == number % UINTS
    IN  /\ c.does = "sleep -m" =>
              c.with[1] * MILLIS \in
                small * TIMER_FREQ - MILLIS + 1 .. small * TIMER_FREQ
        /\ c.does = "mem" => c.with[1] = small
        /\ c.does = "mem address" => c.with[1] = address
        /\ c.does \in {"disk -r", "disk -w"} =>
              /\ c.with[1] = IF number < BYTES THEN number ELSE 0
              /\ c.with[2] = Number(c.texts[2]) % UINTS
        /\ c.does = "disk -r" => c.with[3] = address

LEMMA ArrivesIsComesThrough == ArgumentsArrive <=> ComesThrough(call, ref)
BY DEF ArgumentsArrive, ComesThrough

(* mSleep rounds down to a tick.                                           *)
LEMMA SleepIsRounded ==
    ASSUME NEW n \in Nat
    PROVE  mSleep(n) * MILLIS \in n * TIMER_FREQ - MILLIS + 1 .. n * TIMER_FREQ
<1>1. PICK f \in Nat, m \in Nat \ {0} : f = TIMER_FREQ /\ m = MILLIS
      BY CommandsAssumption
<1>2. PICK x \in Int : x = f * n
      BY <1>1
<1>3. x \div m \in Int /\ x % m \in 0 .. m - 1 /\ x = (x \div m) * m + (x % m)
      BY Division, Zenon
<1>4. PICK q \in Int, r \in 0 .. m - 1 : q = x \div m /\ x = q * m + r
      BY <1>3
<1>5. mSleep(n) = q
      BY <1>1, <1>2, <1>4, Zenon DEF mSleep
<1>6. PICK y \in Int : y = q * m
      BY <1>4
<1>7. n * f = x
      BY <1>2
<1>8. y \in x - m + 1 .. x
      BY <1>1, <1>4, <1>6
<1> QED BY <1>1, <1>5, <1>6, <1>7, <1>8, Zenon

LEMMA SleepComes ==
    ASSUME NEW t \in Texts, NEW a
    PROVE  /\ ComesThrough([does |-> "sleep -m", texts |-> <<t>>,
                            with |-> <<mSleep(convertToULong(t))>>], a)
           /\ ComesThrough([does |-> "sleep -s", texts |-> <<t>>,
                            with |-> <<convertToULong(t) * MILLIS>>], a)
           /\ ComesThrough([does |-> "mem", texts |-> <<t>>,
                            with |-> <<convertToUInt(t)>>], a)
<1>1. PICK n \in Nat : n = Number(t) % UINTS
      BY TypedIsRead
<1>2. convertToUInt(t) = n /\ convertToULong(t) = n
      BY <1>1, TypedIsRead
<1>3. mSleep(n) * MILLIS \in n * TIMER_FREQ - MILLIS + 1 .. n * TIMER_FREQ
      BY SleepIsRounded
<1>4. ComesThrough([does |-> "sleep -m", texts |-> <<t>>, with |-> <<mSleep(n)>>], a)
      BY <1>1, <1>3 DEF ComesThrough
<1>5. ComesThrough([does |-> "sleep -s", texts |-> <<t>>, with |-> <<n * MILLIS>>], a)
      BY <1>1 DEF ComesThrough
<1>6. ComesThrough([does |-> "mem", texts |-> <<t>>, with |-> <<n>>], a)
      BY <1>1 DEF ComesThrough
<1> QED BY <1>2, <1>4, <1>5, <1>6, Zenon

LEMMA DiskComes ==
    ASSUME NEW t \in Texts, NEW s \in Texts, NEW a \in 1 .. UINTS - 1,
           NEW p, p = PrintHexa(a)
    PROVE  /\ ComesThrough([does |-> "disk -r", texts |-> <<t, s, p>>,
                            with |-> <<convertToByte(t), convertToUInt(s),
                                       converHexToQWORD(p)>>], a)
           /\ ComesThrough([does |-> "disk -w", texts |-> <<t, s, p>>,
                            with |-> <<convertToByte(t), convertToUInt(s),
                                       convertToQWord(p)>>], a)
<1>1. PICK b, u, c :
         b = convertToByte(t) /\ u = convertToUInt(s) /\ c = convertToQWord(p)
      OBVIOUS
<1>2. b = IF Number(t) < BYTES THEN Number(t) ELSE 0
      BY <1>1, TypedIsRead
<1>3. u = Number(s) % UINTS
      BY <1>1, TypedIsRead
<1>4. converHexToQWORD(p) = a
      BY PrintedIsRead
<1>5. ComesThrough([does |-> "disk -r", texts |-> <<t, s, p>>, with |-> <<b, u, a>>], a)
      BY <1>2, <1>3 DEF ComesThrough
<1>6. ComesThrough([does |-> "disk -w", texts |-> <<t, s, p>>, with |-> <<b, u, c>>], a)
      BY <1>2, <1>3 DEF ComesThrough
<1> QED BY <1>1, <1>4, <1>5, <1>6, Zenon

LEMMA AddressComes ==
    ASSUME NEW a \in 1 .. UINTS - 1, NEW p, p = PrintHexa(a)
    PROVE  ComesThrough([does |-> "mem address", texts |-> <<p>>,
                         with |-> <<converHexToQWORD(p)>>], a)
<1>1. converHexToQWORD(p) = a
      BY PrintedIsRead
<1>2. ComesThrough([does |-> "mem address", texts |-> <<p>>, with |-> <<a>>], a)
      BY DEF ComesThrough
<1> QED BY <1>1, <1>2, Zenon

(* The text that stays on the screen is the one of the address.            *)
PrintedIsRef == printed = <<>> \/ (ref \in Addresses /\ printed = PrintHexa(ref))

ArgumentsInv == ArgumentsArrive /\ PrintedIsRef

LEMMA ArgumentsStep ==
    ASSUME ArgumentsInv, [Next]_vars
    PROVE  ArgumentsInv'
<1>0. Addresses \subseteq 1 .. UINTS - 1
      BY CommandsAssumption
<1>1. ArgumentsArrive' <=> ComesThrough(call', ref')
      BY DEF ArgumentsArrive, ComesThrough
<1>2. CASE UNCHANGED arguments
  <2>1. call' = call /\ ref' = ref /\ printed' = printed
        BY <1>2 DEF arguments
  <2> QED BY <1>1, <2>1, ArrivesIsComesThrough DEF ArgumentsInv, PrintedIsRef
<1>3. CASE MemAlloc
  <2>1. PICK address \in Addresses :
           ref' = address /\ printed' = Formatted(<<"%x">>, <<address>>)
        BY <1>3 DEF MemAlloc
  <2>2. call' = NoCall
        BY <1>3 DEF MemAlloc
  <2>3. printed' = PrintHexa(ref') /\ ref' \in Addresses
        BY <1>0, <2>1, PrintedIsRead
  <2>4. ComesThrough(call', ref')
        BY <2>2 DEF ComesThrough, NoCall
  <2> QED BY <1>1, <2>3, <2>4 DEF ArgumentsInv, PrintedIsRef
<1>4. ASSUME ref' = ref, printed' = printed, ComesThrough(call', ref)
      PROVE  ArgumentsInv'
      BY <1>1, <1>4 DEF ArgumentsInv, PrintedIsRef
<1>5. ASSUME NEW does, NEW texts, NEW with, Execute(does, texts, with),
             ComesThrough([does |-> does, texts |-> texts, with |-> with], ref)
      PROVE  ArgumentsInv'
      BY <1>4, <1>5 DEF Execute
<1>6. CASE SleepCommand
  <2>1. PICK t \in Texts :
          \/ Execute("sleep -m", <<t>>, <<mSleep(convertToULong(t))>>)
          \/ Execute("sleep -s", <<t>>, <<convertToULong(t) * MILLIS>>)
        BY <1>6 DEF SleepCommand
  <2> QED BY <1>5, <2>1, SleepComes
<1>7. CASE MemNumber
  <2>1. PICK t \in Texts : Execute("mem", <<t>>, <<convertToUInt(t)>>)
        BY <1>7 DEF MemNumber
  <2> QED BY <1>5, <2>1, SleepComes
<1>8. printed # <<>> => ref \in 1 .. UINTS - 1 /\ printed = PrintHexa(ref)
      BY <1>0 DEF ArgumentsInv, PrintedIsRef
<1>9. CASE DiskRead
  <2>1. PICK t \in Texts, s \in Texts :
          /\ printed # <<>>
          /\ Execute("disk -r", <<t, s, printed>>,
                <<convertToByte(t), convertToUInt(s), converHexToQWORD(printed)>>)
        BY <1>9 DEF DiskRead
  <2> QED BY <1>5, <1>8, <2>1, DiskComes
<1>10. CASE DiskWrite
  <2>1. PICK t \in Texts, s \in Texts :
          /\ printed # <<>>
          /\ Execute("disk -w", <<t, s, printed>>,
                <<convertToByte(t), convertToUInt(s), convertToQWord(printed)>>)
        BY <1>10 DEF DiskWrite
  <2> QED BY <1>5, <1>8, <2>1, DiskComes
<1>11. CASE MemAddress
  <2>1. /\ printed # <<>>
        /\ Execute("mem address", <<printed>>, <<converHexToQWORD(printed)>>)
        BY <1>11 DEF MemAddress
  <2> QED BY <1>5, <1>8, <2>1, AddressComes
<1>12. CASE GetDate \/ GetTime
  <2>1. PICK function, option : Ask(function, option)
        BY <1>12 DEF GetDate, GetTime
  <2> QED BY <1>2, <2>1 DEF Ask
<1>13. CASE Show \/ EndContinuous
       BY <1>2, <1>13 DEF Show, EndContinuous
<1>14. CASE UNCHANGED vars
       BY <1>2, <1>14 DEF vars
<1> QED BY <1>2, <1>3, <1>6, <1>7, <1>9, <1>10, <1>11, <1>12, <1>13, <1>14 DEF Next

(* What a command gets is what was typed, up to the width of its type, and *)
(* the address that was printed, but for disk -w.                          *)
THEOREM ArgumentsComeThrough == Spec => []ArgumentsArrive
<1>1. Init => ArgumentsInv
  <2>1. Init => ComesThrough(call, ref)
        BY DEF Init, NoCall, ComesThrough
  <2> QED BY <2>1, ArrivesIsComesThrough DEF Init, ArgumentsInv, PrintedIsRef
<1>2. ArgumentsInv /\ [Next]_vars => ArgumentsInv'
      BY ArgumentsStep
<1>3. ArgumentsInv => ArgumentsArrive
      BY DEF ArgumentsInv
<1> QED BY <1>1, <1>2, <1>3, PTL DEF Spec

(* Every step of the commands is a step of the clock and its readers, or   *)
(* leaves them alone: what holds of the clock holds of get_date and        *)
(* get_time.                                                               *)
THEOREM CommandsReadTheClock ==
    Spec => ClockSpec /\ []DateIsAMoment /\ []TimeIsNotBehind
<1>1. Init => ClockInit
      BY DEF Init
<1>2. [Next]_vars => [ClockNext]_clockVars
  <2> SUFFICES ASSUME [Next]_vars PROVE [ClockNext]_clockVars
      OBVIOUS
  <2>1. CASE GetDate
    <3>1. Begin("SysGetDate")
          BY <2>1 DEF GetDate, Ask
    <3> QED BY <3>1 DEF ClockNext
  <2>2. CASE GetTime
    <3>1. Begin("SysGetTime")
          BY <2>2 DEF GetTime, Ask
    <3> QED BY <3>1 DEF ClockNext
  <2>3. CASE Show
        BY <2>3 DEF Show, ClockNext
  <2>4. CASE EndContinuous \/ MemAlloc
        BY <2>4 DEF EndContinuous, MemAlloc
  <2>5. CASE SleepCommand \/ DiskRead \/ DiskWrite \/ MemNumber \/ MemAddress
        BY <2>5 DEF SleepCommand, DiskRead, DiskWrite, MemNumber, MemAddress, Execute
  <2>6. CASE UNCHANGED vars
        BY <2>6 DEF vars
  <2>7. CASE SecondPasses \/ RegistersSettle \/ ReadRegister \/ ReadSecondsAgain
               \/ ComputeTime
        BY <2>7 DEF ClockNext
  <2> QED BY <2>1, <2>2, <2>3, <2>4, <2>5, <2>6, <2>7 DEF Next
<1>3. Spec => ClockSpec
      BY <1>1, <1>2, PTL DEF Spec, ClockSpec
<1> QED BY <1>3, SysGetDateReadsAMoment, SysGetTimeIsNotBehind, PTL

-----------------------------------------------------------------------------
(***************************************************************************)
(* Answers on the screen.                                                  *)
(***************************************************************************)
(* One character or conversion of a format.                                *)
Printing(r, f) ==
    IF f \in Conversions
    THEN [text |-> r.text \o Converted(f, Head(r.args)), args |-> Tail(r.args)]
    ELSE [r EXCEPT !.text = Append(@, f)]

Printed(d, format, args, n) ==
    /\ d[0] = [text |-> <<>>, args |-> args]
    /\ \A k \in 1 .. n : d[k] = Printing(d[k - 1], format[k])

LEMMA FormatIsPrinted ==
    ASSUME NEW format, Len(format) \in Nat, NEW args
    PROVE  \E d : /\ Printed(d, format, args, Len(format))
                  /\ Formatted(format, args) = d[Len(format)].text
<1> DEFINE none == {n \in Nat : ~ \E d : Printed(d, format, args, n)}
           Solves(d) == d = [k \in 0 .. Len(format) |->
              IF k = 0 THEN [text |-> <<>>, args |-> args]
              ELSE IF format[k] \in Conversions
              THEN [text |-> d[k - 1].text \o Converted(format[k], Head(d[k - 1].args)),
                    args |-> Tail(d[k - 1].args)]
              ELSE [d[k - 1] EXCEPT !.text = Append(@, format[k])]]
           done == CHOOSE d : Solves(d)
           first == [text |-> <<>>, args |-> args]
<1>1. none = {}
  <2> SUFFICES ASSUME none # {} PROVE FALSE
      OBVIOUS
  <2>1. PICK n \in none : \A m \in none : n <= m
        BY LeastPosition
  <2>2. n # 0
    <3>1. Printed([k \in {0} |-> first], format, args, 0)
          BY DEF Printed
    <3> QED BY <2>1, <3>1
  <2>3. n \in Nat /\ n - 1 \in Nat /\ n - 1 \notin none
        BY <2>1, <2>2
  <2>4. PICK g : Printed(g, format, args, n - 1)
        BY <2>3
  <2> DEFINE h == [k \in 0 .. n |-> IF k = n THEN Printing(g[n - 1], format[n])
          ELSE g[k]]
  <2>5. Printed(h, format, args, n)
    <3>1. h[0] = first
          BY <2>2, <2>3, <2>4 DEF Printed
    <3>2. ASSUME NEW k \in 1 .. n PROVE h[k] = Printing(h[k - 1], format[k])
          BY <2>3, <2>4, <3>2 DEF Printed
    <3> QED BY <3>1, <3>2 DEF Printed
  <2> QED BY <2>1, <2>3, <2>5
<1>2. PICK g : Printed(g, format, args, Len(format))
      BY <1>1
<1> DEFINE t == [k \in 0 .. Len(format) |-> g[k]]
<1>3. t = [k \in 0 .. Len(format) |->
             IF k = 0 THEN first ELSE Printing(t[k - 1], format[k])]
      BY <1>2 DEF Printed
<1>4. Solves(t)
  <2> HIDE DEF t
  <2> QED BY <1>3 DEF Printing
<1>5. Formatted(format, args) = done[Len(format)].text
      BY DEF Formatted
<1> HIDE DEF Solves
<1>6. Solves(done)
      BY <1>4
<1> HIDE DEF done
<1>7. done = [k \in 0 .. Len(format) |->
                IF k = 0 THEN first ELSE Printing(done[k - 1], format[k])]
      BY <1>6 DEF Solves, Printing
<1>8. Printed(done, format, args, Len(format))
      BY <1>7 DEF Printed
<1> QED BY <1>5, <1>8

(* The characters of an answer, and the longest number.                    *)
Between == {"/", " ", ":"}
Shown == Figure \cup Between

Longest == (MAX_COLUMNS - 6) \div 6

LEMMA ShownAreSeen ==
    /\ Nothing \notin Shown /\ EndOfLine \notin Shown
    /\ Between \cap Conversions = {}
<1>1. ASSUME NEW i \in 1 .. 16
      PROVE  Representation[i] \notin {Nothing, EndOfLine}
  <2>1. i \in {1, 2, 3, 4, 5, 6, 7, 8, 9, 10, 11, 12, 13, 14, 15, 16}
        OBVIOUS
  <2>2. PICK no, end : no = Nothing /\ end = EndOfLine
        OBVIOUS
  <2>3. {no, end} \cap {"0", "1", "2", "3", "4", "5", "6", "7", "8", "9",
                        "A", "B", "C", "D", "E", "F"} = {}
        BY <2>2, Zenon DEF Nothing, EndOfLine
  <2>4. Representation[i] \in {"0", "1", "2", "3", "4", "5", "6", "7", "8", "9",
                               "A", "B", "C", "D", "E", "F"}
        BY <2>1 DEF Representation
  <2> QED BY <2>2, <2>3, <2>4
<1>2. Between \cap {Nothing, EndOfLine} = {}
      BY Zenon DEF Between, Nothing, EndOfLine
<1>3. Between \cap Conversions = {}
      BY Zenon DEF Between, Conversions
<1> QED BY <1>1, <1>2, <1>3 DEF Shown, Figure

LEMMA NumberIsShort ==
    ASSUME NEW n \in Int
    PROVE  /\ PrintDecimal(n) \in Seq(Shown) /\ Len(PrintDecimal(n)) \in 0 .. Longest
           /\ Longest \in Nat /\ 6 * Longest + 5 < MAX_COLUMNS
<1>1. PICK u \in Nat \ {0} : u = UINTS
      BY NumbersAssumption
<1>2. PICK m : m = n % UINTS
      OBVIOUS
<1>3. m \in 0 .. u - 1
  <2>1. n % u \in 0 .. u - 1
        BY <1>1, Division
  <2> QED BY <1>1, <1>2, <2>1
<1>4. PICK s : s = convert(m, 10)
      OBVIOUS
<1>5. s \in Seq(Figure)
  <2>1. m \in Nat /\ 10 \in {10, 16}
        BY <1>3
  <2> QED BY <1>4, <2>1, ConvertedIsRead
<1>6. PICK l \in Nat : l = Len(s)
      BY <1>5
<1>7. PICK max \in Nat : max = MAX_COLUMNS
      BY ScreenSize
<1>8. 6 * l + 5 < max
      BY <1>1, <1>3, <1>4, <1>6, <1>7, CommandsAssumption
<1>9. PICK w : w = (max - 6) \div 6
      OBVIOUS
<1>10. w \in Nat /\ 6 * w + 5 < max /\ l <= w
       BY <1>8, <1>9
<1>11. PrintDecimal(n) = s /\ Longest = w
       BY <1>2, <1>4, <1>7, <1>9 DEF PrintDecimal, Longest
<1>12. s \in Seq(Shown)
       BY <1>5 DEF Shown
<1> QED BY <1>6, <1>7, <1>10, <1>11, <1>12

(* A text that is being printed: numbers and other characters so far, and  *)
(* the arguments that are left.                                            *)
Fits(r, numbers, others, left) ==
    /\ r = [text |-> r.text, args |-> r.args]
    /\ r.text \in Seq(Shown) /\ Len(r.text) <= numbers * Longest + others
    /\ r.args \in Seq(Int) /\ Len(r.args) = left

LEMMA NumberIsPrinted ==
    ASSUME NEW r, NEW n \in Nat, NEW o \in Nat, NEW left \in Nat,
           Fits(r, n, o, left + 1)
    PROVE  Fits(Printing(r, "%d"), n + 1, o, left)
<1>1. PICK text, args : r = [text |-> text, args |-> args]
      BY DEF Fits
<1>2. text \in Seq(Shown) /\ args \in Seq(Int) /\ Len(args) = left + 1
      BY <1>1 DEF Fits
<1>3. PICK h, tail : h = Head(args) /\ tail = Tail(args)
      OBVIOUS
<1>4. h \in Int /\ tail \in Seq(Int) /\ Len(tail) = left
      BY <1>2, <1>3
<1>5. PICK s : s = PrintDecimal(h)
      OBVIOUS
<1>6. PICK w \in Nat : w = Longest
      BY <1>4, NumberIsShort
<1>7. s \in Seq(Shown) /\ Len(s) \in 0 .. w
      BY <1>4, <1>5, <1>6, NumberIsShort
<1>8. Len(text) <= n * w + o
      BY <1>1, <1>6 DEF Fits
<1>9. PICK t : t = text \o s
      OBVIOUS
<1>10. t \in Seq(Shown) /\ Len(t) = Len(text) + Len(s)
       BY <1>2, <1>7, <1>9
<1>11. Len(t) <= (n + 1) * w + o
  <2>1. PICK p \in Int : p = n * w
        OBVIOUS
  <2>2. (n + 1) * w = p + w
        BY <2>1
  <2>3. Len(text) \in Nat /\ Len(s) \in Nat /\ Len(s) <= w
        BY <1>2, <1>7
  <2> QED BY <1>8, <1>10, <2>1, <2>2, <2>3
<1>12. Printing(r, "%d") = [text |-> t, args |-> tail]
  <2>1. "%d" \in Conversions
        BY DEF Conversions
  <2>2. Converted("%d", h) = s
        BY <1>5 DEF Converted
  <2> QED BY <1>1, <1>3, <1>9, <2>1, <2>2 DEF Printing
<1> QED BY <1>4, <1>6, <1>10, <1>11, <1>12 DEF Fits

LEMMA CharIsPrinted ==
    ASSUME NEW r, NEW n \in Nat, NEW o \in Nat, NEW left \in Nat,
           Fits(r, n, o, left), NEW c \in Between
    PROVE  Fits(Printing(r, c), n, o + 1, left)
<1>1. PICK text, args : r = [text |-> text, args |-> args]
      BY DEF Fits
<1>2. text \in Seq(Shown) /\ args \in Seq(Int) /\ Len(args) = left
      BY <1>1 DEF Fits
<1>3. PICK w \in Nat : w = Longest
  <2>1. 0 \in Int
        OBVIOUS
  <2> QED BY <2>1, NumberIsShort
<1>4. Len(text) <= n * w + o
      BY <1>1, <1>3 DEF Fits
<1>5. PICK t : t = Append(text, c)
      OBVIOUS
<1>6. c \in Shown
      BY DEF Shown
<1>7. t \in Seq(Shown) /\ Len(t) = Len(text) + 1
      BY <1>2, <1>5, <1>6
<1>8. Len(t) <= n * w + (o + 1)
  <2>1. PICK p \in Int : p = n * w
        OBVIOUS
  <2>2. Len(text) \in Nat
        BY <1>2
  <2> QED BY <1>4, <1>7, <2>1, <2>2
<1>9. Printing(r, c) = [text |-> t, args |-> args]
  <2>1. c \notin Conversions
        BY ShownAreSeen
  <2> QED BY <1>1, <1>5, <2>1 DEF Printing
<1> QED BY <1>2, <1>3, <1>7, <1>8, <1>9 DEF Fits

(* An answer has no ends of lines and is shorter than a row.               *)
IsAnswer(t) == t \in Seq(Shown) /\ Len(t) \in 0 .. MAX_COLUMNS - 1

LEMMA PrintingBegins ==
    ASSUME NEW args \in Seq(Int)
    PROVE  Fits([text |-> <<>>, args |-> args], 0, 0, Len(args))
<1>1. PICK w \in Nat : w = Longest
  <2>1. 0 \in Int
        OBVIOUS
  <2> QED BY <2>1, NumberIsShort
<1>2. <<>> \in Seq(Shown) /\ Len(<<>>) = 0
      OBVIOUS
<1>3. Len(<<>>) <= 0 * w + 0
      BY <1>2
<1> QED BY <1>1, <1>2, <1>3 DEF Fits

LEMMA PrintedIsAnswer ==
    ASSUME NEW r, NEW n \in 0 .. 6, NEW o \in 0 .. 5, NEW left,
           Fits(r, n, o, left)
    PROVE  IsAnswer(r.text)
<1>1. PICK w \in Nat : w = Longest /\ 6 * w + 5 < MAX_COLUMNS
  <2>1. 0 \in Int
        OBVIOUS
  <2> QED BY <2>1, NumberIsShort
<1>2. PICK max \in Nat : max = MAX_COLUMNS
      BY ScreenSize
<1>3. r.text \in Seq(Shown) /\ Len(r.text) <= n * w + o
      BY <1>1 DEF Fits
<1>4. n * w <= 6 * w
  <2>1. n \in {0, 1, 2, 3, 4, 5, 6}
        OBVIOUS
  <2> QED BY <1>1, <2>1
<1>5. PICK p \in Int : p = n * w
      OBVIOUS
<1>6. PICK l \in Nat : l = Len(r.text)
      BY <1>3
<1>7. l < max
      BY <1>1, <1>2, <1>3, <1>4, <1>5, <1>6
<1> QED BY <1>2, <1>3, <1>6, <1>7 DEF IsAnswer

LEMMA TimeIsAnswer ==
    ASSUME NEW t \in Int, NEW r
    PROVE  IsAnswer(sprintf(r, <<"%d">>, <<t>>))
<1>1. PICK format, args : format = <<"%d">> /\ args = <<t>>
      OBVIOUS
<1>2. /\ Len(format) = 1 /\ format[1] = "%d" /\ format # <<>>
      /\ args \in Seq(Int) /\ Len(args) = 1
      BY <1>1
<1>3. PICK d : /\ Printed(d, format, args, 1)
               /\ Formatted(format, args) = d[1].text
  <2>1. Len(format) \in Nat
        BY <1>2
  <2>2. \E d : /\ Printed(d, format, args, Len(format))
               /\ Formatted(format, args) = d[Len(format)].text
        BY <2>1, FormatIsPrinted
  <2> QED BY <1>2, <2>2
<1>4. Fits(d[0], 0, 0, 1)
      BY <1>2, <1>3, PrintingBegins DEF Printed
<1>5. Fits(d[1], 1, 0, 0)
  <2>1. d[1] = Printing(d[0], "%d")
        BY <1>2, <1>3 DEF Printed
  <2>2. Fits(Printing(d[0], "%d"), 0 + 1, 0, 0)
        BY <1>4, NumberIsPrinted
  <2> QED BY <2>1, <2>2
<1>6. IsAnswer(Formatted(format, args))
      BY <1>3, <1>5, PrintedIsAnswer
<1>7. Last(format) = "%d"
      BY <1>2 DEF Last
<1>8. sprintf(r, format, args) = Formatted(format, args)
      BY <1>2, <1>7 DEF sprintf
<1> QED BY <1>1, <1>6, <1>8, Zenon

LEMMA DateIsAnswer ==
    ASSUME NEW d \in Parts, NEW r
    PROVE  IsAnswer(sprintf(r, DateFormat, Fields(d)))
<1>0. PICK slash, blank, colon :
          slash = "/" /\ blank = " " /\ colon = ":"
      OBVIOUS
<1>23. slash \in Between /\ blank \in Between /\ colon \in Between
      BY <1>0, Zenon DEF Between
<1>1. PICK format, args : format = DateFormat /\ args = Fields(d)
      OBVIOUS
<1>2. format = <<"%d", slash, "%d", slash, "%d", blank, "%d", colon, "%d", colon, "%d">>
      BY <1>0, <1>1, Zenon DEF DateFormat
<1>3. /\ Len(format) = 11 /\ format # <<>>
      /\ format[1] = "%d" /\ format[2] = slash /\ format[3] = "%d"
      /\ format[4] = slash /\ format[5] = "%d" /\ format[6] = blank
      /\ format[7] = "%d" /\ format[8] = colon /\ format[9] = "%d"
      /\ format[10] = colon /\ format[11] = "%d"
      BY <1>2
<1>4. args \in Seq(Int) /\ Len(args) = 6
      BY <1>1 DEF Fields, Parts
<1>5. PICK f : /\ Printed(f, format, args, 11)
               /\ Formatted(format, args) = f[11].text
  <2>1. Len(format) \in Nat
        BY <1>3
  <2>2. \E f : /\ Printed(f, format, args, Len(format))
               /\ Formatted(format, args) = f[Len(format)].text
        BY <2>1, FormatIsPrinted
  <2> QED BY <1>3, <2>2
<1>6. Fits(f[0], 0, 0, 6)
      BY <1>4, <1>5, PrintingBegins DEF Printed
<1>7. ASSUME NEW k \in 1 .. 11, NEW n \in Nat, NEW o \in Nat, NEW left \in Nat,
             Fits(f[k - 1], n, o, left + 1), format[k] = "%d"
      PROVE  Fits(f[k], n + 1, o, left)
  <2>1. f[k] = Printing(f[k - 1], "%d")
        BY <1>5, <1>7 DEF Printed
  <2> QED BY <1>7, <2>1, NumberIsPrinted
<1>8. ASSUME NEW k \in 1 .. 11, NEW n \in Nat, NEW o \in Nat, NEW left \in Nat,
             Fits(f[k - 1], n, o, left), format[k] \in Between
      PROVE  Fits(f[k], n, o + 1, left)
  <2>1. f[k] = Printing(f[k - 1], format[k])
        BY <1>5, <1>8 DEF Printed
  <2> QED BY <1>8, <2>1, CharIsPrinted
<1>9. Fits(f[1], 1, 0, 5)
  <2>1. Fits(f[1 - 1], 0, 0, 5 + 1)
        BY <1>6
  <2> QED BY <1>3, <1>7, <2>1
<1>10. Fits(f[2], 1, 1, 5)
  <2>1. Fits(f[2 - 1], 1, 0, 5)
        BY <1>9
  <2> QED BY <1>23, <1>3, <1>8, <2>1
<1>11. Fits(f[3], 2, 1, 4)
  <2>1. Fits(f[3 - 1], 1, 1, 4 + 1)
        BY <1>10
  <2> QED BY <1>3, <1>7, <2>1
<1>12. Fits(f[4], 2, 2, 4)
  <2>1. Fits(f[4 - 1], 2, 1, 4)
        BY <1>11
  <2> QED BY <1>23, <1>3, <1>8, <2>1
<1>13. Fits(f[5], 3, 2, 3)
  <2>1. Fits(f[5 - 1], 2, 2, 3 + 1)
        BY <1>12
  <2> QED BY <1>3, <1>7, <2>1
<1>14. Fits(f[6], 3, 3, 3)
  <2>1. Fits(f[6 - 1], 3, 2, 3)
        BY <1>13
  <2> QED BY <1>23, <1>3, <1>8, <2>1
<1>15. Fits(f[7], 4, 3, 2)
  <2>1. Fits(f[7 - 1], 3, 3, 2 + 1)
        BY <1>14
  <2> QED BY <1>3, <1>7, <2>1
<1>16. Fits(f[8], 4, 4, 2)
  <2>1. Fits(f[8 - 1], 4, 3, 2)
        BY <1>15
  <2> QED BY <1>23, <1>3, <1>8, <2>1
<1>17. Fits(f[9], 5, 4, 1)
  <2>1. Fits(f[9 - 1], 4, 4, 1 + 1)
        BY <1>16
  <2> QED BY <1>3, <1>7, <2>1
<1>18. Fits(f[10], 5, 5, 1)
  <2>1. Fits(f[10 - 1], 5, 4, 1)
        BY <1>17
  <2> QED BY <1>23, <1>3, <1>8, <2>1
<1>19. Fits(f[11], 6, 5, 0)
  <2>1. Fits(f[11 - 1], 5, 5, 0 + 1)
        BY <1>18
  <2> QED BY <1>3, <1>7, <2>1
<1>20. IsAnswer(Formatted(format, args))
       BY <1>5, <1>19, PrintedIsAnswer
<1>21. Last(format) = "%d"
       BY <1>3 DEF Last
<1>22. sprintf(r, format, args) = Formatted(format, args)
       BY <1>3, <1>21 DEF sprintf
<1> QED BY <1>1, <1>20, <1>22, Zenon

(* An answer is printed as a string.                                       *)
LEMMA StringIsPrinted ==
    ASSUME NEW t, IsAnswer(t)
    PROVE  Formatted(<<"%s">>, <<t>>) = t
<1>1. PICK format, args : format = <<"%s">> /\ args = <<t>>
      OBVIOUS
<1>2. Len(format) = 1 /\ format[1] = "%s" /\ Head(args) = t
      BY <1>1
<1>3. PICK d : /\ Printed(d, format, args, 1)
               /\ Formatted(format, args) = d[1].text
  <2>1. Len(format) \in Nat
        BY <1>2
  <2>2. \E d : /\ Printed(d, format, args, Len(format))
               /\ Formatted(format, args) = d[Len(format)].text
        BY <2>1, FormatIsPrinted
  <2> QED BY <1>2, <2>2
<1>4. d[0] = [text |-> <<>>, args |-> args] /\ d[1] = Printing(d[0], "%s")
      BY <1>2, <1>3 DEF Printed
<1>5. "%s" \in Conversions /\ Converted("%s", t) = t
      BY DEF Conversions, Converted
<1>6. d[1].text = <<>> \o t
      BY <1>2, <1>4, <1>5 DEF Printing
<1>7. <<>> \o t = t
      BY DEF IsAnswer
<1> QED BY <1>1, <1>3, <1>6, <1>7, Zenon

(* Where a command begins to print, and the cells that n characters go to. *)
RowStart(p) == p \in Nat /\ (p = MAX_OFFSET \/ p + MAX_COLUMNS <= MAX_OFFSET)

Reached(p, n, cell) ==
    \E k \in 1 .. n : p + k - 1 # MAX_OFFSET /\ cell = (p + k - 1) % MAX_OFFSET

(* All other cells are as they were.                                       *)
Kept(cells, p, n, old) ==
    \A cell \in Cells : Reached(p, n, cell) \/ cells[cell] = old[cell]

Stands(cells, p, t) ==
    \A k \in 1 .. Len(t) :
        p + k - 1 = MAX_OFFSET \/ cells[(p + k - 1) % MAX_OFFSET] = t[k]

LEMMA MoreIsReached ==
    ASSUME NEW p, NEW m \in Nat, NEW n \in Nat, m <= n, NEW cell, Reached(p, m, cell)
    PROVE  Reached(p, n, cell)
BY DEF Reached

(* A row is not longer than the screen.                                    *)
LEMMA RowFits ==
    /\ RowStart(0) /\ MAX_COLUMNS <= MAX_OFFSET
    /\ \A row \in 1 .. MAX_LINES : RowStart(row * MAX_COLUMNS)
<1>1. PICK c, l \in Nat \ {0} : c = MAX_COLUMNS /\ l = MAX_LINES
      BY ScreenAssumption
<1>2. PICK max \in Nat : max = l * c /\ max = MAX_OFFSET
      BY <1>1, ScreenSize DEF MAX_OFFSET
<1>3. c <= max
  <2>1. (l - 1) * c >= 0
        BY <1>1
  <2> QED BY <1>1, <1>2, <2>1
<1>4. ASSUME NEW row \in 1 .. l PROVE RowStart(row * c)
  <2>1. PICK p \in Nat : p = row * c
        BY <1>1
  <2>2. CASE row = l
        BY <1>2, <2>1, <2>2 DEF RowStart
  <2>3. CASE row # l
    <3>1. l - row - 1 \in Nat
          BY <1>1, <1>4, <2>3
    <3>2. (l - row - 1) * c >= 0 /\ (l - row - 1) * c = max - p - c
          BY <1>1, <1>2, <2>1, <3>1
    <3>3. p + c <= max
          BY <1>1, <1>2, <2>1, <3>2
    <3> QED BY <1>1, <1>2, <2>1, <3>3 DEF RowStart
  <2> QED BY <2>2, <2>3
<1>5. RowStart(0)
      BY <1>1, <1>2, <1>3 DEF RowStart
<1> QED BY <1>1, <1>2, <1>3, <1>4, <1>5

(* What is printed from the start of a row, or behind the last one.        *)
LEMMA RowIsWritten ==
    ASSUME NEW s, IsScreen(s), RowStart(s.cursor), NEW t, IsAnswer(t)
    PROVE  /\ IsScreen(PutString(s, t))
           /\ Stands(PutString(s, t).cells, s.cursor, t)
           /\ Kept(PutString(s, t).cells, s.cursor, Len(t), s.cells)
<1>1. PICK p \in Nat, n \in Nat : p = s.cursor /\ n = Len(t)
      BY DEF RowStart, IsAnswer
<1>2. PICK max \in Nat \ {0}, columns \in Nat :
         max = MAX_OFFSET /\ columns = MAX_COLUMNS /\ columns <= max
      BY ScreenSize, RowFits
<1>3. n < columns
      BY <1>1, <1>2 DEF IsAnswer
<1>4. \A k \in 1 .. n : t[k] # EndOfLine
      BY <1>1, ShownAreSeen DEF IsAnswer
<1>5. PICK cells : cells = PutString(s, t).cells
      OBVIOUS
<1>6. IsScreen(PutString(s, t))
      BY <1>1, StringKeepsScreen
<1>7. Cells = 0 .. max - 1
      BY <1>2 DEF Cells
<1>8. CASE p + columns <= max
  <2>1. cells = Written(s, t, n)
    <3>1. s.cursor + Len(t) <= MAX_OFFSET
          BY <1>1, <1>2, <1>3, <1>8
    <3> QED BY <1>1, <1>4, <1>5, <3>1, StringIsWritten
  <2>2. \A cell \in Cells :
           cells[cell] = IF cell \in p .. p + n - 1 THEN t[cell - p + 1] ELSE s.cells[cell]
        BY <1>1, <2>1 DEF Written
  <2>3. ASSUME NEW k \in 1 .. n
        PROVE  /\ p + k - 1 \in 0 .. max - 1 /\ (p + k - 1) % max = p + k - 1
               /\ p + k - 1 # max
    <3>1. PICK x \in Nat : x = p + k - 1 /\ x < max
          BY <1>1, <1>3, <1>8
    <3>2. x % max = x
          BY <3>1, SmallRest
    <3> QED BY <3>1, <3>2
  <2>4. Stands(cells, p, t)
    <3> SUFFICES ASSUME NEW k \in 1 .. n PROVE cells[(p + k - 1) % max] = t[k]
        BY <1>1, <1>2 DEF Stands
    <3>1. PICK x : x = p + k - 1
          OBVIOUS
    <3>2. x \in Cells /\ x % max = x
          BY <1>7, <2>3, <3>1
    <3>3. x \in p .. p + n - 1 /\ x - p + 1 = k
          BY <3>1
    <3>4. cells[x] = t[k]
          BY <2>2, <3>2, <3>3
    <3> QED BY <3>1, <3>2, <3>4, Zenon
  <2>5. Kept(cells, p, n, s.cells)
    <3> SUFFICES ASSUME NEW cell \in Cells, cell \in p .. p + n - 1
                 PROVE  Reached(p, n, cell)
        BY <2>2 DEF Kept
    <3>1. PICK k \in 1 .. n : k = cell - p + 1 /\ cell = p + k - 1
          BY <1>7
    <3> QED BY <1>2, <2>3, <3>1 DEF Reached
  <2> QED BY <1>1, <1>5, <1>6, <2>4, <2>5
<1>9. CASE p = max
  <2>1. ASSUME n # 0 PROVE cells = WrittenFromTheTop(s, t, n)
    <3>1. Len(t) \in 1 .. MAX_OFFSET - 1
          BY <1>1, <1>2, <1>3, <2>1
    <3>2. s.cursor = MAX_OFFSET
          BY <1>1, <1>2, <1>9
    <3> QED BY <1>1, <1>4, <1>5, <3>1, <3>2, StringIsWrittenFromTheTop
  <2>2. \A cell \in Cells :
           cells[cell] = IF cell \in 1 .. n - 1 THEN t[cell + 1] ELSE s.cells[cell]
    <3>1. CASE n # 0
          BY <2>1, <3>1 DEF WrittenFromTheTop
    <3>2. CASE n = 0
      <4>1. s.cursor + Len(t) <= MAX_OFFSET
            BY <1>1, <1>2, <1>9, <3>2
      <4>2. cells = Written(s, t, n)
            BY <1>1, <1>4, <1>5, <4>1, StringIsWritten
      <4>3. \A cell \in Cells : cell \notin p .. p + n - 1 /\ cell \notin 1 .. n - 1
            BY <3>2
      <4> QED BY <1>1, <4>2, <4>3 DEF Written
    <3> QED BY <3>1, <3>2
  <2>3. ASSUME NEW k \in 2 .. n
        PROVE  /\ k - 1 \in 0 .. max - 1 /\ (p + k - 1) % max = k - 1
               /\ p + k - 1 # max
    <3>1. k - 1 \in 0 .. max - 1 /\ 1 \in Int /\ 1 * max + (k - 1) = p + k - 1
          BY <1>2, <1>3, <1>9
    <3>2. (1 * max + (k - 1)) % max = k - 1
          BY <3>1, QuotientAndRest
    <3>3. p + k - 1 # max
          BY <1>9
    <3> QED BY <3>1, <3>2, <3>3
  <2>4. Stands(cells, p, t)
    <3> SUFFICES ASSUME NEW k \in 1 .. n, p + k - 1 # max
                 PROVE  cells[(p + k - 1) % max] = t[k]
        BY <1>1, <1>2 DEF Stands
    <3>1. k \in 2 .. n
          BY <1>9
    <3>2. PICK x : x = k - 1
          OBVIOUS
    <3>3. x \in Cells /\ (p + k - 1) % max = x
          BY <1>7, <2>3, <3>1, <3>2
    <3>4. x \in 1 .. n - 1 /\ x + 1 = k
          BY <3>1, <3>2
    <3>5. cells[x] = t[k]
          BY <2>2, <3>3, <3>4
    <3> QED BY <3>3, <3>5, Zenon
  <2>5. Kept(cells, p, n, s.cells)
    <3> SUFFICES ASSUME NEW cell \in Cells, cell \in 1 .. n - 1
                 PROVE  Reached(p, n, cell)
        BY <2>2 DEF Kept
    <3>1. PICK k \in 2 .. n : k = cell + 1 /\ cell = k - 1
          BY <1>7
    <3>2. k \in 1 .. n
          BY <3>1
    <3> QED BY <1>2, <2>3, <3>1, <3>2 DEF Reached
  <2> QED BY <1>1, <1>5, <1>6, <2>4, <2>5
<1> QED BY <1>1, <1>2, <1>8, <1>9 DEF RowStart

(* Only cells that answers reached differ from what the command found, and *)
(* the next answer begins where the first one did.                         *)
AnswersAreShown ==
    /\ IsScreen(screen) /\ RowStart(pos) /\ longest \in 0 .. MAX_COLUMNS - 1
    /\ Kept(screen.cells, pos, longest, found)
    /\ going # "no" \/ at # "idle" => screen.cursor = pos

DisplayInv == AnswersAreShown /\ time \in Int

LEMMA DisplayInvInit == Init => DisplayInv
<1> SUFFICES ASSUME Init PROVE DisplayInv
    OBVIOUS
<1>1. PICK cells : cells = [p \in Cells |-> Nothing]
      OBVIOUS
<1>2. BootScreen = [cells |-> cells, cursor |-> 0]
      BY <1>1 DEF BootScreen, Cells
<1>3. IsScreen(BootScreen)
  <2>1. 0 \in 0 .. LOCATIONS - 1
        BY ScreenSize
  <2> QED BY <1>1, <1>2, <2>1 DEF IsScreen
<1>4. /\ screen = BootScreen /\ found = screen.cells
      /\ pos = 0 /\ longest = 0 /\ going = "no" /\ at = "idle" /\ time = 0
      BY DEF Init, ClockInit
<1>5. Kept(screen.cells, pos, longest, found)
      BY <1>4 DEF Kept
<1>6. 0 \in 0 .. MAX_COLUMNS - 1
      BY ScreenSize
<1> QED BY <1>3, <1>4, <1>5, <1>6, RowFits DEF DisplayInv, AnswersAreShown

(* The next answer over the ones before.                                   *)
LEMMA AnswerIsWritten ==
    ASSUME NEW s, IsScreen(s), RowStart(s.cursor),
           NEW len \in 0 .. MAX_COLUMNS - 1, NEW old, Kept(s.cells, s.cursor, len, old),
           NEW t, IsAnswer(t), NEW full, full = printf(s, <<"%s">>, <<t>>),
           NEW most, most = IF Len(t) > len THEN Len(t) ELSE len
    PROVE  /\ IsScreen(full) /\ most \in 0 .. MAX_COLUMNS - 1
           /\ Stands(full.cells, s.cursor, t)
           /\ Kept(full.cells, s.cursor, most, old)
<1>0. PICK p : p = s.cursor
      OBVIOUS
<1>1. Formatted(<<"%s">>, <<t>>) = t
      BY StringIsPrinted
<1>2. full = PutString(s, t)
      BY <1>1 DEF printf
<1>3. IsScreen(full) /\ Stands(full.cells, p, t) /\ Kept(full.cells, p, Len(t), s.cells)
      BY <1>0, <1>2, RowIsWritten
<1>4. PICK n, columns \in Nat : n = Len(t) /\ columns = MAX_COLUMNS /\ n \in 0 .. columns - 1
      BY ScreenSize DEF IsAnswer
<1>5. most \in 0 .. columns - 1 /\ n <= most /\ len <= most /\ most \in Nat
      BY <1>4
<1>6. Kept(full.cells, p, most, old)
  <2> SUFFICES ASSUME NEW cell \in Cells
               PROVE  Reached(p, most, cell) \/ full.cells[cell] = old[cell]
      BY DEF Kept
  <2>1. Reached(p, n, cell) \/ full.cells[cell] = s.cells[cell]
        BY <1>3, <1>4 DEF Kept
  <2>2. Reached(p, len, cell) \/ s.cells[cell] = old[cell]
        BY <1>0 DEF Kept
  <2>3. Reached(p, n, cell) => Reached(p, most, cell)
        BY <1>4, <1>5, MoreIsReached
  <2>4. Reached(p, len, cell) => Reached(p, most, cell)
    <3>1. len \in Nat
          OBVIOUS
    <3> QED BY <1>5, <3>1, MoreIsReached
  <2> QED BY <2>1, <2>2, <2>3, <2>4
<1> QED BY <1>0, <1>3, <1>4, <1>5, <1>6

(* What a step of the console makes of the answers.                        *)
LEMMA AnswerIsAnswer ==
    ASSUME ClockInv, DisplayInv
    PROVE  IsAnswer(Answer)
<1>1. date \in Parts /\ time \in Int
      BY DEF ClockInv, ClockTypeOK, DisplayInv
<1>2. IsAnswer(sprintf(response, DateFormat, Fields(date)))
      BY <1>1, DateIsAnswer
<1>3. IsAnswer(sprintf(response, <<"%d">>, <<time>>))
      BY <1>1, TimeIsAnswer
<1> QED BY <1>2, <1>3, Zenon DEF Answer

LEMMA AnswerIsShown ==
    ASSUME ClockInv, DisplayInv, Show
    PROVE  /\ DisplayInv'
           /\ Stands(screen'.cells, pos, Answer)
           /\ Kept(screen'.cells, pos, longest', found)
<1>1. PICK t : t = Answer
      OBVIOUS
<1>2. IsAnswer(t)
      BY <1>1, AnswerIsAnswer
<1>3. PICK full : full = printf(screen, <<"%s">>, <<t>>)
      OBVIOUS
<1>4. PICK most : most = IF Len(t) > longest THEN Len(t) ELSE longest
      OBVIOUS
<1>5. /\ at \in {"date", "time"} /\ at' = "idle" /\ time' = time
      /\ screen' = IF going = "no" THEN full ELSE CursorPosition(full, pos)
      /\ longest' = most /\ pos' = pos /\ going' = going /\ found' = found
      BY <1>1, <1>3, <1>4 DEF Show, Return
<1>6. /\ IsScreen(screen) /\ pos = screen.cursor /\ longest \in 0 .. MAX_COLUMNS - 1
      /\ RowStart(pos) /\ time \in Int /\ Kept(screen.cells, pos, longest, found)
      BY <1>5 DEF DisplayInv, AnswersAreShown
<1>7. /\ IsScreen(full) /\ most \in 0 .. MAX_COLUMNS - 1
      /\ Stands(full.cells, pos, t) /\ Kept(full.cells, pos, most, found)
  <2>1. RowStart(screen.cursor) /\ Kept(screen.cells, screen.cursor, longest, found)
        BY <1>6
  <2>2. /\ IsScreen(full) /\ most \in 0 .. MAX_COLUMNS - 1
        /\ Stands(full.cells, screen.cursor, t)
        /\ Kept(full.cells, screen.cursor, most, found)
        BY <1>2, <1>3, <1>4, <1>6, <2>1, AnswerIsWritten
  <2> QED BY <1>6, <2>2
<1>8. PICK back : back = CursorPosition(full, pos)
      OBVIOUS
<1>9. IsScreen(back) /\ back.cells = full.cells /\ back.cursor = pos
  <2>1. pos \in Int /\ pos \in 0 .. MAX_OFFSET
        BY <1>6, ScreenSize DEF RowStart
  <2> QED BY <1>7, <1>8, <2>1, CursorMoves
<1>10. /\ IsScreen(screen') /\ screen'.cells = full.cells
       /\ going # "no" => screen'.cursor = pos
       BY <1>5, <1>7, <1>8, <1>9
<1>11. DisplayInv'
       BY <1>5, <1>6, <1>7, <1>10 DEF DisplayInv, AnswersAreShown
<1> QED BY <1>1, <1>5, <1>7, <1>10, <1>11

LEMMA DisplayStep ==
    ASSUME ClockInv, DisplayInv, [Next]_vars
    PROVE  DisplayInv'
<1>0. /\ IsScreen(screen) /\ RowStart(pos) /\ longest \in 0 .. MAX_COLUMNS - 1
      /\ Kept(screen.cells, pos, longest, found)
      /\ going # "no" \/ at # "idle" => screen.cursor = pos
      /\ time \in Int
      BY DEF DisplayInv, AnswersAreShown
<1>1. ASSUME UNCHANGED <<screen, pos, longest, found>>, time' \in Int,
             going' # "no" \/ at' # "idle" => going # "no" \/ at # "idle"
      PROVE  DisplayInv'
      BY <1>0, <1>1 DEF DisplayInv, AnswersAreShown
<1>2. CASE GetDate \/ GetTime
  <2>1. PICK function, option : Ask(function, option)
        BY <1>2 DEF GetDate, GetTime
  <2>2. time' = time
        BY <2>1 DEF Ask, Begin
  <2>3. ASSUME NEW row \in 1 .. MAX_LINES, NEW old \in OldTexts,
               screen' = [cells |-> old, cursor |-> row * MAX_COLUMNS],
               pos' = row * MAX_COLUMNS, found' = old, longest' = 0
        PROVE  DisplayInv'
    <3>1. PICK p : p = row * MAX_COLUMNS
          OBVIOUS
    <3>2. RowStart(p) /\ screen' = [cells |-> old, cursor |-> p] /\ pos' = p
          BY <2>3, <3>1, RowFits
    <3>3. old = [cell \in Cells |-> old[cell]]
          BY CommandsAssumption DEF Cells
    <3>4. p \in 0 .. LOCATIONS - 1
          BY <3>2, ScreenSize DEF RowStart
    <3>5. IsScreen(screen')
          BY <3>2, <3>3, <3>4 DEF IsScreen
    <3>6. Kept(screen'.cells, pos', longest', found')
          BY <2>3, <3>2 DEF Kept
    <3>7. longest' \in 0 .. MAX_COLUMNS - 1 /\ screen'.cursor = pos' /\ RowStart(pos')
          BY <2>3, <3>2, ScreenSize
    <3> QED BY <1>0, <2>2, <3>5, <3>6, <3>7 DEF DisplayInv, AnswersAreShown
  <2>4. CASE going # "no" /\ pos' = GetCursorPosition(screen)
               /\ UNCHANGED <<screen, found, longest>>
    <3>1. screen.cursor = pos /\ pos' = pos
          BY <1>0, <2>4 DEF GetCursorPosition
    <3> QED BY <1>0, <2>2, <2>4, <3>1 DEF DisplayInv, AnswersAreShown
  <2> QED BY <2>1, <2>3, <2>4 DEF Ask
<1>3. CASE Show
      BY <1>3, AnswerIsShown
<1>4. CASE EndContinuous
  <2>1. /\ UNCHANGED <<screen, pos, longest, found, time>> /\ at = "idle" /\ at' = at
        /\ going' = "no"
        BY <1>4 DEF EndContinuous, clockVars, reading
  <2> QED BY <1>0, <1>1, <2>1
<1>5. CASE /\ UNCHANGED display
           /\ \/ SecondPasses \/ RegistersSettle \/ ReadRegister \/ ReadSecondsAgain
              \/ ComputeTime
  <2>1. UNCHANGED <<screen, pos, longest, found, going>>
        BY <1>5 DEF display
  <2>2. CASE SecondPasses \/ RegistersSettle \/ ReadRegister
    <3>1. at' = at /\ time' = time
          BY <2>2 DEF SecondPasses, RegistersSettle, ReadRegister, reading
    <3> QED BY <1>0, <1>1, <2>1, <3>1
  <2>3. CASE ReadSecondsAgain
    <3>1. at # "idle" /\ time' = time
          BY <2>3 DEF ReadSecondsAgain
    <3> QED BY <1>0, <1>1, <2>1, <3>1
  <2>4. CASE ComputeTime
    <3>1. at = "SysGetTime" /\ next = 7 /\ time' = TimeOf(date)
          BY <2>4 DEF ComputeTime
    <3>2. date \in DATE
      <4>1. Completed(7, date, before) \in DATE /\ date \in Parts /\ before \in DATE
            BY <3>1 DEF ClockInv, ReadsADate, Reads, ClockTypeOK, Calendar
      <4> QED BY <4>1, CompletedEnds
    <3>3. TimeOf(date) \in Int
      <4>1. /\ date.year \in 0 .. 99 /\ date.month \in 1 .. 12 /\ date.day \in 1 .. 31
            /\ date.hour \in 0 .. 23 /\ date.minute \in 0 .. 59
            /\ date.second \in 0 .. 59
            BY <3>2 DEF DATE
      <4>2. PICK n, days, year : /\ n = SecondsSince2000(date)
                                 /\ days = days_per_month[date.month]
                                 /\ year = date.year
            OBVIOUS
      <4>3. n \in Nat /\ days \in Nat
        <5>1. days \in {28, 30, 31}
          <6>1. date.month \in {1, 2, 3, 4, 5, 6, 7, 8, 9, 10, 11, 12}
                BY <4>1
          <6> QED BY <4>2, <6>1 DEF days_per_month
        <5> QED BY <3>2, <4>2, <5>1, SecondsAreNatural
      <4>4. TimeOf(date) = n + DAY * days - (IF year = 0 THEN 0 ELSE DAY)
            BY <3>2, <4>2, TimeCounted
      <4> QED BY <4>3, <4>4 DEF DAY
    <3> QED BY <1>1, <2>1, <3>1, <3>3
  <2> QED BY <1>5, <2>2, <2>3, <2>4
<1>6. CASE SleepCommand \/ DiskRead \/ DiskWrite \/ MemNumber \/ MemAddress \/ MemAlloc
  <2>1. UNCHANGED <<clockVars, display>>
        BY <1>6 DEF SleepCommand, DiskRead, DiskWrite, MemNumber, MemAddress,
                    MemAlloc, Execute
  <2> QED BY <1>0, <1>1, <2>1 DEF clockVars, reading, display
<1>7. CASE UNCHANGED vars
      BY <1>0, <1>1, <1>7 DEF vars, clockVars, reading, display
<1> QED BY <1>2, <1>3, <1>4, <1>5, <1>6, <1>7 DEF Next

(* Every answer stands where the first one of its command began, on any row*)
(* and over any text, but for a character behind the last row; and what no *)
(* answer reached is as the command found it.                              *)
THEOREM AnswersStand == Spec => AnswerStands
<1>1. Init => DisplayInv
      BY DisplayInvInit
<1>2. ClockInv /\ DisplayInv /\ [Next]_vars => DisplayInv'
      BY DisplayStep
<1>3. ClockInv /\ DisplayInv /\ [Next]_vars =>
         [Answered /\ at' = "idle" =>
            /\ \A k \in DOMAIN Answer :
                  Lost(k) \/ screen'.cells[Cell(k)] = Answer[k]
            /\ \A cell \in DOMAIN screen.cells :
                  \/ \E k \in 1 .. longest' : ~Lost(k) /\ cell = Cell(k)
                  \/ screen'.cells[cell] = found[cell]]_vars
  <2> SUFFICES ASSUME ClockInv, DisplayInv, Next, Answered, at' = "idle"
               PROVE  /\ \A k \in DOMAIN Answer :
                            Lost(k) \/ screen'.cells[Cell(k)] = Answer[k]
                      /\ \A cell \in DOMAIN screen.cells :
                            \/ \E k \in 1 .. longest' : ~Lost(k) /\ cell = Cell(k)
                            \/ screen'.cells[cell] = found[cell]
      OBVIOUS
  <2>1. at \in {"date", "time"}
        BY DEF Answered
  <2>2. ~GetDate /\ ~GetTime
        BY <2>1 DEF GetDate, GetTime, Ask, Begin
  <2>3. ~EndContinuous /\ ~MemAlloc
        BY <2>1 DEF EndContinuous, MemAlloc
  <2>4. ~SleepCommand /\ ~DiskRead /\ ~DiskWrite /\ ~MemNumber /\ ~MemAddress
        BY <2>1 DEF SleepCommand, DiskRead, DiskWrite, MemNumber, MemAddress, Execute
  <2>5. ~SecondPasses /\ ~RegistersSettle /\ ~ReadRegister /\ ~ReadSecondsAgain
          /\ ~ComputeTime
        BY <2>1 DEF SecondPasses, RegistersSettle, ReadRegister, ReadSecondsAgain,
                    ComputeTime, reading
  <2>6. Show
        BY <2>2, <2>3, <2>4, <2>5 DEF Next
  <2>7. Stands(screen'.cells, pos, Answer) /\ Kept(screen'.cells, pos, longest', found)
        BY <2>6, AnswerIsShown
  <2>8. DOMAIN Answer = 1 .. Len(Answer) /\ DOMAIN screen.cells = Cells
    <3>1. IsAnswer(Answer)
          BY AnswerIsAnswer
    <3> QED BY <3>1 DEF IsAnswer, DisplayInv, AnswersAreShown, IsScreen
  <2>9. \A k \in DOMAIN Answer : Lost(k) \/ screen'.cells[Cell(k)] = Answer[k]
        BY <2>7, <2>8 DEF Stands, Lost, Cell
  <2>10. \A cell \in DOMAIN screen.cells :
            \/ \E k \in 1 .. longest' : ~Lost(k) /\ cell = Cell(k)
            \/ screen'.cells[cell] = found[cell]
         BY <2>7, <2>8 DEF Kept, Reached, Lost, Cell
  <2> QED BY <2>9, <2>10
<1>4. Spec => []ClockInv
  <2>1. Spec => ClockSpec
        BY CommandsReadTheClock
  <2> QED BY <2>1, ClockInvHolds, PTL
<1> QED BY <1>1, <1>2, <1>3, <1>4, PTL DEF Spec, AnswerStands

-----------------------------------------------------------------------------
(***************************************************************************)
(* The keyboard: its tables.                                               *)
(***************************************************************************)
(* One row of a table behind another.                                      *)
IsRow(s, n) == s \in Seq(Nat) /\ Len(s) = n

Joins(r, s, t, m, n) ==
    /\ IsRow(r, m + n)
    /\ \A i \in 1 .. m : r[i] = s[i]
    /\ \A i \in 1 .. n : r[m + i] = t[i]

LEMMA RowsJoined ==
    ASSUME NEW s, NEW t, NEW m \in Nat, NEW n \in Nat, IsRow(s, m), IsRow(t, n)
    PROVE  Joins(s \o t, s, t, m, n)
<1>0. /\ s \in Seq(Nat) /\ t \in Seq(Nat) /\ Len(s) = m /\ Len(t) = n
      BY DEF IsRow
<1>1. /\ s \o t \in Seq(Nat) /\ Len(s \o t) = Len(s) + Len(t)
      /\ \A i \in 1 .. Len(s) + Len(t) :
            (s \o t)[i] = IF i <= Len(s) THEN s[i] ELSE t[i - Len(s)]
      BY <1>0, ConcatProperties, Zenon
<1>2. ASSUME NEW i \in 1 .. m
      PROVE  (s \o t)[i] = s[i]
      BY <1>0, <1>1
<1>3. ASSUME NEW i \in 1 .. n
      PROVE  (s \o t)[m + i] = t[i]
  <2>1. m + i \in 1 .. Len(s) + Len(t) /\ ~(m + i <= Len(s)) /\ (m + i) - Len(s) = i
        BY <1>0
  <2> QED BY <1>1, <2>1
<1> QED BY <1>0, <1>1, <1>2, <1>3 DEF Joins, IsRow

LEMMA LettersAreSmall == \A c \in Letters : c \in 97 .. 122
<1>1. /\ \A i \in DOMAIN Qwerty : Qwerty[i] \in 97 .. 122
      /\ \A i \in DOMAIN Asdf : Asdf[i] \in 97 .. 122
      /\ \A i \in DOMAIN Zxcv : Zxcv[i] \in 97 .. 122
  <2>1. \A i \in DOMAIN Qwerty : Qwerty[i] \in 97 .. 122
        BY DEF Qwerty
  <2>2. \A i \in DOMAIN Asdf : Asdf[i] \in 97 .. 122
        BY DEF Asdf
  <2>3. \A i \in DOMAIN Zxcv : Zxcv[i] \in 97 .. 122
        BY DEF Zxcv
  <2> QED BY <2>1, <2>2, <2>3
<1> QED BY <1>1 DEF Letters, ToSet

(* The rows of unshifted and shifted have their letters at the same places.*)
Aligned(s, t, n) ==
    /\ IsRow(s, n) /\ IsRow(t, n)
    /\ \A i \in 1 .. n : s[i] \in Letters => t[i] = s[i] - 32

LEMMA AlignedRows ==
    ASSUME NEW s, NEW t, NEW u, NEW v, NEW m \in Nat, NEW n \in Nat,
           Aligned(s, t, m), Aligned(u, v, n)
    PROVE  Aligned(s \o u, t \o v, m + n)
<1>1. PICK x, y : x = s \o u /\ y = t \o v
      OBVIOUS
<1>2. IsRow(s, m) /\ IsRow(t, m) /\ IsRow(u, n) /\ IsRow(v, n)
      BY DEF Aligned
<1>3. Joins(x, s, u, m, n) /\ Joins(y, t, v, m, n)
      BY <1>1, <1>2, RowsJoined
<1>4. ASSUME NEW i \in 1 .. m + n, x[i] \in Letters
      PROVE  y[i] = x[i] - 32
  <2>1. CASE i \in 1 .. m
        BY <1>3, <1>4, <2>1 DEF Aligned, Joins
  <2>2. CASE i \notin 1 .. m
    <3>1. PICK j \in 1 .. n : i = m + j
      <4>1. i - m \in 1 .. n /\ i = m + (i - m)
            BY <2>2
      <4> QED BY <4>1
    <3> QED BY <1>3, <1>4, <3>1 DEF Aligned, Joins
  <2> QED BY <2>1, <2>2
<1> QED BY <1>1, <1>3, <1>4 DEF Aligned, Joins

(* A row of letters and the row of their capitals.                         *)
LEMMA AlignedLetters ==
    ASSUME NEW row \in Seq(Nat), NEW n \in Nat, Len(row) = n,
           \A i \in 1 .. n : row[i] \in 97 .. 122
    PROVE  Aligned(row, Upper(row), n)
<1>1. DOMAIN row = 1 .. n
      OBVIOUS
<1>2. Upper(row) = [i \in 1 .. n |-> row[i] - 32]
      BY <1>1 DEF Upper
<1>3. \A i \in 1 .. n : row[i] - 32 \in Nat
  <2>1. ASSUME NEW c \in 97 .. 122
        PROVE  c - 32 \in Nat
        OBVIOUS
  <2> QED BY <2>1
<1>4. Upper(row) \in Seq(Nat) /\ Len(Upper(row)) = n
      BY <1>2, <1>3
<1>5. \A i \in 1 .. n : Upper(row)[i] = row[i] - 32
      BY <1>2
<1> QED BY <1>4, <1>5 DEF Aligned, IsRow

LEMMA AlignedOthers ==
    ASSUME NEW s \in Seq(Nat), NEW t \in Seq(Nat), NEW n \in Nat,
           Len(s) = n, Len(t) = n, \A i \in 1 .. n : s[i] \notin 97 .. 122
    PROVE  Aligned(s, t, n)
BY LettersAreSmall DEF Aligned, IsRow

LEMMA TablesAligned == Aligned(unshifted, shifted, 48)
<1>1. PICK a0, a1, b, c, d :
        /\ a0 = <<96>> /\ a1 = <<45, 61>>
        /\ b = <<91, 93, 92>> /\ c = <<59, 39>> /\ d = <<44, 46, 47, 32>>
      OBVIOUS
<1>2. PICK A, B, C, D :
        /\ A = <<126, 33, 64, 35, 36, 37, 94, 38, 42, 40, 41, 95, 43>>
        /\ B = <<123, 125, 124>> /\ C = <<58, 124>> /\ D = <<60, 62, 63, 32>>
      OBVIOUS
<1>3. PICK a : a = (a0 \o Digits) \o a1
      OBVIOUS
<1>4. unshifted = (((((a \o Qwerty) \o b) \o Asdf) \o c) \o Zxcv) \o d
      BY <1>1, <1>3 DEF unshifted
<1>5. shifted = (((((A \o Upper(Qwerty)) \o B) \o Upper(Asdf)) \o C) \o Upper(Zxcv)) \o D
      BY <1>2 DEF shifted
<1>6. Aligned(a, A, 13)
  <2>1. /\ a0 \in Seq(Nat) /\ Len(a0) = 1 /\ a0[1] = 96
        /\ a1 \in Seq(Nat) /\ Len(a1) = 2 /\ a1[1] = 45 /\ a1[2] = 61
        BY <1>1
  <2>2. Digits \in Seq(Nat) /\ Len(Digits) = 10
        BY DEF Digits
  <2>3. \A i \in 1 .. 10 : Digits[i] \in 48 .. 57
        BY DEF Digits
  <2>4. PICK e : e = a0 \o Digits
        OBVIOUS
  <2>5. Joins(e, a0, Digits, 1, 10)
        BY <2>1, <2>2, <2>4, RowsJoined DEF IsRow
  <2>5a. /\ IsRow(e, 11) /\ \A i \in 1 .. 1 : e[i] = a0[i]
         /\ \A i \in 1 .. 10 : e[1 + i] = Digits[i]
         BY <2>5 DEF Joins
  <2>5b. IsRow(a1, 2)
         BY <2>1 DEF IsRow
  <2>6. Joins(a, e, a1, 11, 2)
        BY <1>3, <2>4, <2>5a, <2>5b, RowsJoined
  <2>6a. /\ IsRow(a, 13) /\ \A i \in 1 .. 11 : a[i] = e[i]
         /\ \A i \in 1 .. 2 : a[11 + i] = a1[i]
         BY <2>6 DEF Joins
  <2>7. ASSUME NEW i \in 1 .. 13
        PROVE  a[i] \notin 97 .. 122
    <3>1. CASE i = 1
      <4>1. a[1] = e[1] /\ e[1] = a0[1]
            BY <2>5a, <2>6a
      <4> QED BY <2>1, <3>1, <4>1
    <3>2. CASE i \in 2 .. 11
      <4>1. PICK j \in 1 .. 10 : i = 1 + j
        <5>1. i - 1 \in 1 .. 10 /\ i = 1 + (i - 1)
              BY <3>2
        <5> QED BY <5>1
      <4>2. i \in 1 .. 11 /\ a[i] = e[i]
            BY <2>6a, <3>2
      <4>3. e[i] = Digits[j]
            BY <2>5a, <4>1
      <4>4. a[i] \in 48 .. 57
            BY <2>3, <4>2, <4>3
      <4> QED BY <4>4
    <3>3. CASE i \in 12 .. 13
      <4>1. i = 11 + 1 \/ i = 11 + 2
            BY <3>3
      <4>2. 1 \in 1 .. 2 /\ 2 \in 1 .. 2
            OBVIOUS
      <4>3. PICK p : p \in 1 .. 2 /\ i = 11 + p
            BY <4>1, <4>2
      <4>4. a[i] = a1[p]
            BY <2>6a, <4>3
      <4>5. a1[p] = 45 \/ a1[p] = 61
            BY <2>1, <4>3
      <4> QED BY <4>4, <4>5
    <3> QED BY <3>1, <3>2, <3>3
  <2>8. A \in Seq(Nat) /\ Len(A) = 13
        BY <1>2
  <2> QED BY <2>6a, <2>7, <2>8, AlignedOthers DEF IsRow
<1>7. Aligned(b, B, 3)
  <2>1. /\ b \in Seq(Nat) /\ Len(b) = 3 /\ B \in Seq(Nat) /\ Len(B) = 3
        /\ \A i \in 1 .. 3 : b[i] \notin 97 .. 122
        BY <1>1, <1>2
  <2> QED BY <2>1, AlignedOthers
<1>8. Aligned(c, C, 2)
  <2>1. /\ c \in Seq(Nat) /\ Len(c) = 2 /\ C \in Seq(Nat) /\ Len(C) = 2
        /\ \A i \in 1 .. 2 : c[i] \notin 97 .. 122
        BY <1>1, <1>2
  <2> QED BY <2>1, AlignedOthers
<1>9. Aligned(d, D, 4)
  <2>1. /\ d \in Seq(Nat) /\ Len(d) = 4 /\ D \in Seq(Nat) /\ Len(D) = 4
        /\ \A i \in 1 .. 4 : d[i] \notin 97 .. 122
        BY <1>1, <1>2
  <2> QED BY <2>1, AlignedOthers
<1>10. Aligned(Qwerty, Upper(Qwerty), 10)
  <2>1. Qwerty \in Seq(Nat) /\ Len(Qwerty) = 10
        BY DEF Qwerty
  <2>2. \A i \in 1 .. 10 : Qwerty[i] \in 97 .. 122
        BY DEF Qwerty
  <2> QED BY <2>1, <2>2, AlignedLetters
<1>11. Aligned(Asdf, Upper(Asdf), 9)
  <2>1. Asdf \in Seq(Nat) /\ Len(Asdf) = 9
        BY DEF Asdf
  <2>2. \A i \in 1 .. 9 : Asdf[i] \in 97 .. 122
        BY DEF Asdf
  <2> QED BY <2>1, <2>2, AlignedLetters
<1>12. Aligned(Zxcv, Upper(Zxcv), 7)
  <2>1. Zxcv \in Seq(Nat) /\ Len(Zxcv) = 7
        BY DEF Zxcv
  <2>2. \A i \in 1 .. 7 : Zxcv[i] \in 97 .. 122
        BY DEF Zxcv
  <2> QED BY <2>1, <2>2, AlignedLetters
<1>13. /\ 13 + 10 = 23 /\ 23 + 3 = 26 /\ 26 + 9 = 35
       /\ 35 + 2 = 37 /\ 37 + 7 = 44 /\ 44 + 4 = 48
       OBVIOUS
<1>14. Aligned(a \o Qwerty, A \o Upper(Qwerty), 23)
       BY <1>6, <1>10, <1>13, AlignedRows
<1>15. Aligned((a \o Qwerty) \o b, (A \o Upper(Qwerty)) \o B, 26)
       BY <1>7, <1>13, <1>14, AlignedRows
<1>16. Aligned(((a \o Qwerty) \o b) \o Asdf,
               ((A \o Upper(Qwerty)) \o B) \o Upper(Asdf), 35)
       BY <1>11, <1>13, <1>15, AlignedRows
<1>17. Aligned((((a \o Qwerty) \o b) \o Asdf) \o c,
               (((A \o Upper(Qwerty)) \o B) \o Upper(Asdf)) \o C, 37)
       BY <1>8, <1>13, <1>16, AlignedRows
<1>18. Aligned(((((a \o Qwerty) \o b) \o Asdf) \o c) \o Zxcv,
               ((((A \o Upper(Qwerty)) \o B) \o Upper(Asdf)) \o C) \o Upper(Zxcv), 44)
       BY <1>12, <1>13, <1>17, AlignedRows
<1> QED BY <1>4, <1>5, <1>9, <1>13, <1>18, AlignedRows

(* The table of codes has 89 elements, and the codes of the Shift keys do  *)
(* not stand for letters.                                                  *)
LEMMA ScancodeTable ==
    /\ IsRow(scancode, 89)
    /\ scancode[KEY_LSHIFT + 1] \notin Letters
    /\ scancode[KEY_RSHIFT + 1] \notin Letters
<1>1. PICK r1, r2, r3, r4, r5, r6, r7 :
        /\ r1 = <<KEY_UNKNOWN, KEY_ESCAPE>>
        /\ r2 = <<45, 61, KEY_BACKSPACE, 15>>
        /\ r3 = <<91, 93, 13, KEY_LCTRL>>
        /\ r4 = <<59, 39, 96, KEY_LSHIFT, 92>>
        /\ r5 = <<44, 46, 47, KEY_RSHIFT, 42, KEY_RALT, 32, KEY_CAPSLOCK>>
        /\ r6 = <<KEY_KP_NUMLOCK, KEY_SCROLLLOCK>>
        /\ r7 = <<KEY_UNKNOWN, KEY_UNKNOWN, KEY_UNKNOWN, 87, 88>>
      OBVIOUS
<1>2. PICK x1 : x1 = ((((r1 \o Digits) \o r2) \o Qwerty) \o r3) \o Asdf
      OBVIOUS
<1>3. PICK x2 : x2 = x1 \o r4
      OBVIOUS
<1>4. PICK x3 : x3 = ((((x2 \o Zxcv) \o r5) \o FunctionKeys) \o r6) \o Keypad
      OBVIOUS
<1>5. scancode = x3 \o r7
      BY <1>1, <1>2, <1>3, <1>4 DEF scancode
<1>6. /\ IsRow(r1, 2) /\ IsRow(r2, 4) /\ IsRow(r3, 4) /\ IsRow(r4, 5)
      /\ IsRow(r5, 8) /\ IsRow(r6, 2) /\ IsRow(r7, 5)
  <2>1. IsRow(r1, 2) /\ IsRow(r2, 4) /\ IsRow(r3, 4)
        BY <1>1 DEF IsRow, KEY_UNKNOWN, KEY_ESCAPE, KEY_BACKSPACE, KEY_LCTRL
  <2>2. IsRow(r4, 5) /\ IsRow(r6, 2)
        BY <1>1 DEF IsRow, KEY_LSHIFT, KEY_KP_NUMLOCK, KEY_SCROLLLOCK
  <2>3. IsRow(r5, 8)
        BY <1>1 DEF IsRow, KEY_RSHIFT, KEY_RALT, KEY_CAPSLOCK
  <2>4. IsRow(r7, 5)
        BY <1>1 DEF IsRow, KEY_UNKNOWN
  <2> QED BY <2>1, <2>2, <2>3, <2>4
<1>7. /\ IsRow(Digits, 10) /\ IsRow(Qwerty, 10) /\ IsRow(Asdf, 9)
      /\ IsRow(Zxcv, 7) /\ IsRow(FunctionKeys, 10) /\ IsRow(Keypad, 13)
  <2>1. IsRow(Digits, 10) /\ IsRow(Qwerty, 10)
        BY DEF IsRow, Digits, Qwerty
  <2>2. IsRow(Asdf, 9) /\ IsRow(Zxcv, 7)
        BY DEF IsRow, Asdf, Zxcv
  <2>3. IsRow(FunctionKeys, 10) /\ IsRow(Keypad, 13)
        BY DEF IsRow, FunctionKeys, Keypad
  <2> QED BY <2>1, <2>2, <2>3
<1>8. IsRow(x1, 39)
  <2>0. 2 + 10 = 12 /\ 12 + 4 = 16 /\ 16 + 10 = 26 /\ 26 + 4 = 30 /\ 30 + 9 = 39
        OBVIOUS
  <2>1. IsRow(r1 \o Digits, 12)
        BY <1>6, <1>7, <2>0, RowsJoined DEF Joins
  <2>2. IsRow((r1 \o Digits) \o r2, 16)
        BY <1>6, <2>0, <2>1, RowsJoined DEF Joins
  <2>3. IsRow(((r1 \o Digits) \o r2) \o Qwerty, 26)
        BY <1>7, <2>0, <2>2, RowsJoined DEF Joins
  <2>4. IsRow((((r1 \o Digits) \o r2) \o Qwerty) \o r3, 30)
        BY <1>6, <2>0, <2>3, RowsJoined DEF Joins
  <2> QED BY <1>2, <1>7, <2>0, <2>4, RowsJoined DEF Joins
<1>9. IsRow(x2, 44) /\ x2[43] = KEY_LSHIFT
  <2>1. Joins(x2, x1, r4, 39, 5)
        BY <1>3, <1>6, <1>8, RowsJoined
  <2>2. IsRow(x2, 39 + 5) /\ x2[39 + 4] = r4[4]
        BY <2>1 DEF Joins
  <2>3. r4[4] = KEY_LSHIFT
        BY <1>1
  <2> QED BY <2>2, <2>3
<1>10. IsRow(x3, 84) /\ x3[43] = x2[43]
  <2>1. PICK y1 : y1 = x2 \o Zxcv
        OBVIOUS
  <2>2. PICK y2 : y2 = y1 \o r5
        OBVIOUS
  <2>3. PICK y3 : y3 = y2 \o FunctionKeys
        OBVIOUS
  <2>4. PICK y4 : y4 = y3 \o r6
        OBVIOUS
  <2>5. Joins(y1, x2, Zxcv, 44, 7)
        BY <1>7, <1>9, <2>1, RowsJoined
  <2>5a. IsRow(y1, 51) /\ y1[43] = x2[43]
        BY <2>5 DEF Joins
  <2>6. Joins(y2, y1, r5, 51, 8)
        BY <1>6, <2>2, <2>5a, RowsJoined
  <2>6a. IsRow(y2, 59) /\ y2[43] = y1[43]
        BY <2>6 DEF Joins
  <2>7. Joins(y3, y2, FunctionKeys, 59, 10)
        BY <1>7, <2>3, <2>6a, RowsJoined
  <2>7a. IsRow(y3, 69) /\ y3[43] = y2[43]
        BY <2>7 DEF Joins
  <2>8. Joins(y4, y3, r6, 69, 2)
        BY <1>6, <2>4, <2>7a, RowsJoined
  <2>8a. IsRow(y4, 71) /\ y4[43] = y3[43]
        BY <2>8 DEF Joins
  <2>9. x3 = y4 \o Keypad
        BY <1>4, <2>1, <2>2, <2>3, <2>4
  <2>10. Joins(x3, y4, Keypad, 71, 13)
        BY <1>7, <2>8a, <2>9, RowsJoined
  <2>11. IsRow(x3, 84) /\ x3[43] = y4[43]
        BY <2>10 DEF Joins
  <2> QED BY <2>5a, <2>6a, <2>7a, <2>8a, <2>11
<1>11. IsRow(scancode, 89) /\ scancode[43] = KEY_LSHIFT /\ scancode[85] = KEY_UNKNOWN
  <2>1. Joins(scancode, x3, r7, 84, 5)
        BY <1>5, <1>6, <1>10, RowsJoined
  <2>2. IsRow(scancode, 84 + 5) /\ scancode[43] = x3[43] /\ scancode[84 + 1] = r7[1]
        BY <2>1 DEF Joins
  <2>3. r7[1] = KEY_UNKNOWN
        BY <1>1
  <2> QED BY <1>9, <1>10, <2>2, <2>3
<1>12. KEY_LSHIFT \notin Letters /\ KEY_UNKNOWN \notin Letters
       BY LettersAreSmall DEF KEY_LSHIFT, KEY_UNKNOWN
<1>13. KEY_LSHIFT + 1 = 43 /\ KEY_RSHIFT + 1 = 85
       BY DEF KEY_LSHIFT, KEY_RSHIFT
<1> QED BY <1>11, <1>12, <1>13

Entry == [byte : 1 .. 224, key : Keys, shift : BOOLEAN, sure : BOOLEAN]

(* A byte that tells the handler of a modifier f.                          *)
Tells(f, e) == e.key.code \in SetBy(f) /\ e.byte # PREFIX

(* The handler, whose f is s now, will have v when it has taken the bytes  *)
(* of w below i: what the last of them tells of f.                         *)
Leaves(w, s, f, i, v) ==
    /\ \A j \in 1 .. i - 1 :
          Tells(f, w[j]) /\ (\A l \in j + 1 .. i - 1 : ~Tells(f, w[l]))
            => (v <=> w[j].byte < 128)
    /\ (\A j \in 1 .. i - 1 : ~Tells(f, w[j])) => (v <=> s)

(* The first byte is taken, and f is s2 then.                              *)
TakenAs(f, e, s, s2) ==
    /\ Tells(f, e) => (s2 <=> e.byte < 128)
    /\ ~Tells(f, e) => (s2 <=> s)

LEMMA LeavesTail ==
    ASSUME NEW w \in Seq(Entry), w # <<>>, NEW s \in BOOLEAN, NEW s2 \in BOOLEAN,
           NEW f, NEW i \in 1 .. Len(w), NEW v \in BOOLEAN,
           Leaves(w, s, f, i + 1, v), TakenAs(f, w[1], s, s2)
    PROVE  Leaves(Tail(w), s2, f, i, v)
<1>1. PICK t : t = Tail(w)
      OBVIOUS
<1>2. \A j \in 1 .. i - 1 : t[j] = w[j + 1]
      BY <1>1
<1>3. (i + 1) - 1 = i
      OBVIOUS
<1>4. ASSUME NEW j \in 1 .. i - 1, Tells(f, t[j]),
             \A l \in j + 1 .. i - 1 : ~Tells(f, t[l])
      PROVE  v <=> t[j].byte < 128
  <2>1. j + 1 \in 1 .. i /\ t[j] = w[j + 1]
        BY <1>2
  <2>2. ASSUME NEW l \in (j + 1) + 1 .. i
        PROVE  ~Tells(f, w[l])
    <3>1. l - 1 \in j + 1 .. i - 1 /\ l - 1 \in 1 .. i - 1 /\ (l - 1) + 1 = l
          OBVIOUS
    <3> QED BY <1>2, <1>4, <3>1
  <2>3. v <=> w[j + 1].byte < 128
        BY <1>3, <1>4, <2>1, <2>2 DEF Leaves
  <2> QED BY <2>1, <2>3
<1>5. ASSUME \A j \in 1 .. i - 1 : ~Tells(f, t[j])
      PROVE  v <=> s2
  <2>1. ASSUME NEW l \in 2 .. i
        PROVE  ~Tells(f, w[l])
    <3>1. l - 1 \in 1 .. i - 1 /\ (l - 1) + 1 = l
          OBVIOUS
    <3> QED BY <1>2, <1>5, <3>1
  <2>2. 1 \in 1 .. i /\ 1 + 1 = 2
        OBVIOUS
  <2>3. CASE Tells(f, w[1])
    <3>1. v <=> w[1].byte < 128
          BY <1>3, <2>1, <2>2, <2>3 DEF Leaves
    <3> QED BY <2>3, <3>1 DEF TakenAs
  <2>4. CASE ~Tells(f, w[1])
    <3>1. \A j \in 1 .. i : ~Tells(f, w[j])
          BY <2>1, <2>4
    <3>2. v <=> s
          BY <1>3, <3>1 DEF Leaves
    <3> QED BY <2>4, <3>2 DEF TakenAs
  <2> QED BY <2>3, <2>4
<1> QED BY <1>1, <1>4, <1>5 DEF Leaves

LEMMA LeavesKept ==
    ASSUME NEW w, NEW w2, NEW s \in BOOLEAN, NEW f, NEW i \in Nat, NEW v \in BOOLEAN,
           \A j \in 1 .. i - 1 : w2[j] = w[j], Leaves(w, s, f, i, v)
    PROVE  Leaves(w2, s, f, i, v)
<1>1. ASSUME NEW j \in 1 .. i - 1, Tells(f, w2[j]),
             \A l \in j + 1 .. i - 1 : ~Tells(f, w2[l])
      PROVE  v <=> w2[j].byte < 128
  <2>1. \A l \in j + 1 .. i - 1 : l \in 1 .. i - 1
        OBVIOUS
  <2>2. \A l \in j + 1 .. i - 1 : ~Tells(f, w[l])
        BY <1>1, <2>1
  <2>3. v <=> w[j].byte < 128
        BY <1>1, <2>2 DEF Leaves
  <2> QED BY <2>3
<1>2. ASSUME \A j \in 1 .. i - 1 : ~Tells(f, w2[j])
      PROVE  v <=> s
      BY <1>2 DEF Leaves
<1> QED BY <1>1, <1>2 DEF Leaves

LEMMA LeavesLonger ==
    ASSUME NEW w, NEW w2, NEW s \in BOOLEAN, NEW f, NEW i \in Nat, i >= 1,
           NEW v \in BOOLEAN, NEW v2 \in BOOLEAN,
           \A j \in 1 .. i - 1 : w2[j] = w[j], Leaves(w, s, f, i, v),
           TakenAs(f, w2[i], v, v2)
    PROVE  Leaves(w2, s, f, i + 1, v2)
<1>0. Leaves(w2, s, f, i, v)
      BY LeavesKept
<1>1. (i + 1) - 1 = i /\ i \in 1 .. i
      OBVIOUS
<1>2. ASSUME NEW j \in 1 .. i, Tells(f, w2[j]),
             \A l \in j + 1 .. i : ~Tells(f, w2[l])
      PROVE  v2 <=> w2[j].byte < 128
  <2>1. CASE j = i
        BY <1>2, <2>1 DEF TakenAs
  <2>2. CASE j # i
    <3>1. j \in 1 .. i - 1 /\ i \in j + 1 .. i
          BY <2>2
    <3>2. \A l \in j + 1 .. i - 1 : l \in j + 1 .. i
          OBVIOUS
    <3>3. v <=> w2[j].byte < 128
          BY <1>0, <1>2, <3>1, <3>2 DEF Leaves
    <3>4. v2 <=> v
          BY <1>2, <3>1 DEF TakenAs
    <3> QED BY <3>3, <3>4
  <2> QED BY <2>1, <2>2
<1>3. ASSUME \A j \in 1 .. i : ~Tells(f, w2[j])
      PROVE  v2 <=> s
  <2>1. \A j \in 1 .. i - 1 : j \in 1 .. i
        OBVIOUS
  <2>2. v <=> s
        BY <1>0, <1>3, <2>1 DEF Leaves
  <2>3. v2 <=> v
        BY <1>1, <1>3 DEF TakenAs
  <2> QED BY <2>2, <2>3
<1> QED BY <1>1, <1>2, <1>3 DEF Leaves
(***************************************************************************)
(* What the wire says of a modifier, of Shift for a letter and of prefixes.*)
(***************************************************************************)
(* The value v of a modifier is that of its keys.                          *)
Agrees(f, v, down) ==
    /\ v => down \cap KeysOf(f) # {}
    /\ \A k \in down : KeysOf(f) = {k} => v

(* When all bytes of w are handled, f will be what its keys say.           *)
Follows(f, w, s, gone, down) ==
    \E v \in BOOLEAN :
        /\ Leaves(w, s, f, Len(w) + 1, v)
        /\ KeysOf(f) \cap gone = {} => Agrees(f, v, down)

(* When a letter of w is handled, Shift will be what it was for the key.   *)
ShiftFits(w, s) ==
    \A i \in 1 .. Len(w) : w[i].sure => Leaves(w, s, "Shift", i, w[i].shift)

(* A prefix and the byte behind it stay together.                          *)
Paired(w, e0) ==
    /\ \A i \in 1 .. Len(w) : w[i].byte = PREFIX =>
          /\ i < Len(w) /\ w[i + 1].key = w[i].key /\ w[i + 1].byte # PREFIX
    /\ \A i \in 1 .. Len(w) : w[i].byte # PREFIX /\ w[i].key.e0 =>
          IF i = 1 THEN e0 ELSE w[i - 1].byte = PREFIX

(* The prefix that the handler keeps is that of the next byte, or it has   *)
(* outlived its key.                                                       *)
NextIsOf(w, e0, k) ==
    e0 /\ k \notin KeepPrefix \cup {None} =>
        k.e0 /\ Len(w) > 0 /\ w[1].key = k /\ w[1].byte # PREFIX

OneShiftKey == \A i, j \in KeysOf("Shift") : i = j

(* A byte is one of its key, and a letter that is sure to be typed in its  *)
(* case is one.                                                            *)
Sound(e) ==
    /\ \/ e.byte = e.key.code \/ e.byte = e.key.code + 128
       \/ e.key.e0 /\ e.byte = PREFIX
    /\ e.sure => /\ ~e.key.e0 /\ e.byte = e.key.code
                 /\ scancode[e.key.code + 1] \in Letters /\ OneShiftKey

(* The last byte that a key sends when it goes down, repeats (up is FALSE) *)
(* or is let go.                                                           *)
LastByte(c, k, up, gone, down) ==
    /\ c \in Entry /\ c.key = k
    /\ c.byte = k.code + (IF up THEN 128 ELSE 0)
    /\ c.shift => KeysOf("Shift") \cap down # {}
    /\ c.sure => /\ ~up /\ ~k.e0 /\ scancode[k.code + 1] \in Letters
                 /\ KeysOf("Shift") \cap gone = {} /\ OneShiftKey
                 /\ c.shift <=> KeysOf("Shift") \cap down # {}

KeyPrefix(p, k) == p \in Entry /\ p.key = k /\ p.byte = PREFIX /\ ~p.sure

Moves(k, up, from, after) ==
    after = IF up THEN from \ {k} ELSE from \cup {k}

LEMMA Appended ==
    ASSUME NEW w \in Seq(Entry), NEW e \in Entry
    PROVE  /\ Append(w, e) \in Seq(Entry) /\ Len(Append(w, e)) = Len(w) + 1
           /\ Append(w, e)[Len(w) + 1] = e
           /\ \A j \in 1 .. Len(w) : Append(w, e)[j] = w[j]
OBVIOUS

LEMMA EntryParts ==
    ASSUME NEW e \in Entry
    PROVE  e.key \in Keys /\ e.shift \in BOOLEAN /\ e.sure \in BOOLEAN
BY DEF Entry

LEMMA LastByteIsSound ==
    ASSUME NEW k \in Keys, NEW up \in BOOLEAN, NEW gone, NEW down,
           NEW c, LastByte(c, k, up, gone, down)
    PROVE  c.byte # PREFIX /\ Sound(c) /\ (c.byte < 128 <=> ~up)
<1>1. k.code \in 1 .. 88
      BY KeyboardAssumption
<1>2. k.code + 0 = k.code /\ c.key = k
      BY <1>1 DEF LastByte
<1>3. c.byte = IF up THEN k.code + 128 ELSE k.code
      BY <1>2 DEF LastByte
<1>4. c.byte # 224 /\ (c.byte < 128 <=> ~up)
      BY <1>1, <1>3
<1> QED BY <1>2, <1>3, <1>4 DEF LastByte, Sound, PREFIX

(* A modifier is told by the last byte of its keys and by no other.        *)
LEMMA WhatKeysTell ==
    ASSUME NEW f, NEW k \in Keys, NEW up \in BOOLEAN, NEW gone, NEW down,
           NEW c, LastByte(c, k, up, gone, down)
    PROVE  /\ Tells(f, c) <=> k \in KeysOf(f)
           /\ c.byte < 128 <=> ~up
           /\ c.byte # PREFIX
BY LastByteIsSound DEF LastByte, Tells, KeysOf

LEMMA FollowsPrefix ==
    ASSUME NEW f, NEW w \in Seq(Entry), NEW s \in BOOLEAN, NEW gone, NEW down,
           NEW k, NEW p, KeyPrefix(p, k), Follows(f, w, s, gone, down)
    PROVE  Follows(f, Append(w, p), s, gone, down)
<1>1. PICK v \in BOOLEAN : /\ Leaves(w, s, f, Len(w) + 1, v)
                           /\ KeysOf(f) \cap gone = {} => Agrees(f, v, down)
      BY DEF Follows
<1>2. PICK w2 : w2 = Append(w, p)
      OBVIOUS
<1>3. /\ Len(w2) = Len(w) + 1 /\ w2[Len(w) + 1] = p
      /\ \A j \in 1 .. Len(w) : w2[j] = w[j]
      BY <1>2, Appended DEF KeyPrefix
<1>4. PICK i \in Nat : i = Len(w) + 1 /\ i >= 1 /\ i - 1 = Len(w)
      OBVIOUS
<1>5. TakenAs(f, w2[i], v, v)
      BY <1>3, <1>4 DEF TakenAs, Tells, KeyPrefix
<1>6. Leaves(w2, s, f, i + 1, v)
      BY <1>1, <1>3, <1>4, <1>5, LeavesLonger
<1> QED BY <1>1, <1>2, <1>3, <1>4, <1>6 DEF Follows

LEMMA FollowsLastByte ==
    ASSUME NEW f, NEW w \in Seq(Entry), NEW s \in BOOLEAN, NEW gone, NEW down,
           NEW k \in Keys, NEW up \in BOOLEAN, NEW after, Moves(k, up, down, after),
           NEW c, LastByte(c, k, up, gone, after), Follows(f, w, s, gone, down)
    PROVE  Follows(f, Append(w, c), s, gone \ {k}, after)
<1>1. PICK v \in BOOLEAN : /\ Leaves(w, s, f, Len(w) + 1, v)
                           /\ KeysOf(f) \cap gone = {} => Agrees(f, v, down)
      BY DEF Follows
<1>2. PICK w2 : w2 = Append(w, c)
      OBVIOUS
<1>3. /\ Len(w2) = Len(w) + 1 /\ w2[Len(w) + 1] = c
      /\ \A j \in 1 .. Len(w) : w2[j] = w[j]
      BY <1>2, Appended DEF LastByte
<1>4. PICK i \in Nat : i = Len(w) + 1 /\ i >= 1 /\ i - 1 = Len(w)
      OBVIOUS
<1>5. PICK v2 \in BOOLEAN : v2 <=> IF k \in KeysOf(f) THEN ~up ELSE v
      OBVIOUS
<1>6. TakenAs(f, c, v, v2)
      BY <1>5, WhatKeysTell DEF TakenAs
<1>7. Leaves(w2, s, f, i + 1, v2)
      BY <1>1, <1>3, <1>4, <1>6, LeavesLonger
<1>8. ASSUME KeysOf(f) \cap (gone \ {k}) = {}
      PROVE  Agrees(f, v2, after)
  <2>1. CASE k \in KeysOf(f)
        BY <1>5, <2>1 DEF Agrees, Moves
  <2>2. CASE k \notin KeysOf(f)
        BY <1>1, <1>5, <1>8, <2>2 DEF Agrees, Moves
  <2> QED BY <2>1, <2>2
<1> QED BY <1>2, <1>3, <1>4, <1>7, <1>8 DEF Follows

(* The bytes of a key found no room.                                       *)
LEMMA FollowsDropped ==
    ASSUME NEW f \in Modifiers, NEW w, NEW s \in BOOLEAN, NEW gone, NEW down,
           NEW k \in Keys, NEW up \in BOOLEAN, NEW after, Moves(k, up, down, after),
           Follows(f, w, s, gone, down)
    PROVE  Follows(f, w, s, gone \cup ({k} \cap ModifierKeys), after)
<1>1. PICK v \in BOOLEAN : /\ Leaves(w, s, f, Len(w) + 1, v)
                           /\ KeysOf(f) \cap gone = {} => Agrees(f, v, down)
      BY DEF Follows
<1>2. KeysOf(f) \subseteq ModifierKeys
      BY DEF ModifierKeys
<1>3. ASSUME KeysOf(f) \cap (gone \cup ({k} \cap ModifierKeys)) = {}
      PROVE  Agrees(f, v, after)
  <2>1. k \notin KeysOf(f)
        BY <1>2, <1>3
  <2> QED BY <1>1, <1>3, <2>1 DEF Agrees, Moves
<1> QED BY <1>1, <1>3 DEF Follows

LEMMA FollowsTail ==
    ASSUME NEW f, NEW w \in Seq(Entry), w # <<>>, NEW s \in BOOLEAN,
           NEW s2 \in BOOLEAN, NEW gone, NEW down,
           TakenAs(f, w[1], s, s2), Follows(f, w, s, gone, down)
    PROVE  Follows(f, Tail(w), s2, gone, down)
<1>1. PICK v \in BOOLEAN : /\ Leaves(w, s, f, Len(w) + 1, v)
                           /\ KeysOf(f) \cap gone = {} => Agrees(f, v, down)
      BY DEF Follows
<1>2. Len(w) \in 1 .. Len(w) /\ Len(Tail(w)) + 1 = Len(w)
      OBVIOUS
<1>3. Leaves(Tail(w), s2, f, Len(w), v)
      BY <1>1, <1>2, LeavesTail
<1> QED BY <1>1, <1>2, <1>3 DEF Follows

LEMMA ShiftFitsPrefix ==
    ASSUME NEW w \in Seq(Entry), NEW s \in BOOLEAN, NEW k, NEW p, KeyPrefix(p, k),
           ShiftFits(w, s)
    PROVE  ShiftFits(Append(w, p), s)
<1>1. PICK w2 : w2 = Append(w, p)
      OBVIOUS
<1>2. /\ Len(w2) = Len(w) + 1 /\ w2[Len(w) + 1] = p
      /\ \A j \in 1 .. Len(w) : w2[j] = w[j]
      BY <1>1, Appended DEF KeyPrefix
<1>3. ASSUME NEW i \in 1 .. Len(w2), w2[i].sure
      PROVE  Leaves(w2, s, "Shift", i, w2[i].shift)
  <2>1. i \in 1 .. Len(w)
        BY <1>2, <1>3 DEF KeyPrefix
  <2>2. w2[i] = w[i] /\ w[i] \in Entry /\ i \in Nat
        BY <1>2, <2>1
  <2>2a. w[i].shift \in BOOLEAN
        BY <2>2, EntryParts
  <2>3. Leaves(w, s, "Shift", i, w[i].shift)
        BY <1>3, <2>1, <2>2 DEF ShiftFits
  <2>4. \A j \in 1 .. i - 1 : w2[j] = w[j]
        BY <1>2, <2>1
  <2> QED BY <2>2, <2>2a, <2>3, <2>4, LeavesKept
<1> QED BY <1>1, <1>3 DEF ShiftFits

LEMMA ShiftFitsLastByte ==
    ASSUME NEW w \in Seq(Entry), NEW s \in BOOLEAN, NEW gone, NEW down,
           NEW k \in Keys, NEW up \in BOOLEAN, NEW after, Moves(k, up, down, after),
           NEW c, LastByte(c, k, up, gone, after),
           Follows("Shift", w, s, gone, down), ShiftFits(w, s)
    PROVE  ShiftFits(Append(w, c), s)
<1>1. PICK w2 : w2 = Append(w, c)
      OBVIOUS
<1>2. /\ Len(w2) = Len(w) + 1 /\ w2[Len(w) + 1] = c
      /\ \A j \in 1 .. Len(w) : w2[j] = w[j]
      BY <1>1, Appended DEF LastByte
<1>3. ASSUME NEW i \in 1 .. Len(w2), w2[i].sure
      PROVE  Leaves(w2, s, "Shift", i, w2[i].shift)
  <2>1. CASE i \in 1 .. Len(w)
    <3>1. w2[i] = w[i] /\ w[i] \in Entry /\ i \in Nat
          BY <1>2, <2>1
    <3>1a. w[i].shift \in BOOLEAN
          BY <3>1, EntryParts
    <3>2. Leaves(w, s, "Shift", i, w[i].shift)
          BY <1>3, <2>1, <3>1 DEF ShiftFits
    <3>3. \A j \in 1 .. i - 1 : w2[j] = w[j]
          BY <1>2, <2>1
    <3> QED BY <3>1, <3>1a, <3>2, <3>3, LeavesKept
  <2>2. CASE i = Len(w) + 1
    <3>1. c.sure /\ w2[i] = c /\ c.shift \in BOOLEAN
          BY <1>2, <1>3, <2>2, EntryParts DEF LastByte
    <3>2. PICK v \in BOOLEAN :
            /\ Leaves(w, s, "Shift", Len(w) + 1, v)
            /\ KeysOf("Shift") \cap gone = {} => Agrees("Shift", v, down)
          BY DEF Follows
    <3>3. /\ ~up /\ scancode[k.code + 1] \in Letters
          /\ KeysOf("Shift") \cap gone = {} /\ OneShiftKey
          /\ c.shift <=> KeysOf("Shift") \cap after # {}
          BY <3>1 DEF LastByte
    <3>4. k \notin KeysOf("Shift")
          BY <3>3, ScancodeTable DEF KeysOf, SetBy
    <3>5. KeysOf("Shift") \cap after = KeysOf("Shift") \cap down
          BY <3>3, <3>4 DEF Moves
    <3>6. Agrees("Shift", v, down)
          BY <3>2, <3>3
    <3>7. ASSUME NEW j \in KeysOf("Shift") \cap down
          PROVE  v
      <4>1. KeysOf("Shift") = {j}
            BY <3>3, <3>7 DEF OneShiftKey
      <4> QED BY <3>6, <3>7, <4>1 DEF Agrees
    <3>8. v <=> KeysOf("Shift") \cap down # {}
          BY <3>6, <3>7 DEF Agrees
    <3>9. v = c.shift
          BY <3>1, <3>3, <3>5, <3>8
    <3>10. PICK n \in Nat : n = i /\ n - 1 = Len(w) /\ n = Len(w) + 1
          BY <2>2
    <3>11. Leaves(w, s, "Shift", n, v) /\ \A j \in 1 .. n - 1 : w2[j] = w[j]
          BY <1>2, <3>2, <3>10
    <3>12. Leaves(w2, s, "Shift", n, v)
          BY <3>11, LeavesKept
    <3> QED BY <3>1, <3>9, <3>10, <3>12
  <2> QED BY <1>2, <2>1, <2>2
<1> QED BY <1>1, <1>3 DEF ShiftFits

LEMMA ShiftFitsTail ==
    ASSUME NEW w \in Seq(Entry), w # <<>>, NEW s \in BOOLEAN, NEW s2 \in BOOLEAN,
           TakenAs("Shift", w[1], s, s2), ShiftFits(w, s)
    PROVE  ShiftFits(Tail(w), s2)
<1>1. PICK t : t = Tail(w)
      OBVIOUS
<1>2. Len(t) = Len(w) - 1 /\ \A i \in 1 .. Len(t) : t[i] = w[i + 1]
      BY <1>1
<1>3. ASSUME NEW i \in 1 .. Len(t), t[i].sure
      PROVE  Leaves(t, s2, "Shift", i, t[i].shift)
  <2>1. i \in 1 .. Len(w) /\ i + 1 \in 1 .. Len(w) /\ t[i] = w[i + 1]
        BY <1>2
  <2>2. w[i + 1].shift \in BOOLEAN
    <3>1. w[i + 1] \in Entry
          BY <2>1
    <3> QED BY <3>1, EntryParts
  <2>3. Leaves(w, s, "Shift", i + 1, w[i + 1].shift)
        BY <1>3, <2>1 DEF ShiftFits
  <2>4. Leaves(Tail(w), s2, "Shift", i, w[i + 1].shift)
        BY <2>1, <2>2, <2>3, LeavesTail
  <2> QED BY <1>1, <2>1, <2>4
<1> QED BY <1>1, <1>3 DEF ShiftFits

(* Bytes on the wire and the prefixes among them.                          *)
Clean(w, e0, o) ==
    /\ \A i \in 1 .. Len(w) : Sound(w[i])
    /\ Paired(w, e0) /\ NextIsOf(w, e0, o)

LEMMA CleanLastByte ==
    ASSUME NEW w \in Seq(Entry), NEW e0, NEW o, NEW k \in Keys, ~k.e0,
           NEW up \in BOOLEAN, NEW gone, NEW down,
           NEW c, LastByte(c, k, up, gone, down), Clean(w, e0, o)
    PROVE  Clean(Append(w, c), e0, o)
<1>1. PICK w2 : w2 = Append(w, c)
      OBVIOUS
<1>2. /\ Len(w2) = Len(w) + 1 /\ w2[Len(w) + 1] = c /\ w2 \in Seq(Entry)
      /\ \A j \in 1 .. Len(w) : w2[j] = w[j]
      BY <1>1, Appended DEF LastByte
<1>3. c.byte # PREFIX /\ c.key = k
      BY LastByteIsSound DEF LastByte
<1>4. Sound(c)
      BY LastByteIsSound
<1>5. \A i \in 1 .. Len(w2) : Sound(w2[i])
      BY <1>2, <1>4 DEF Clean
<1>6. Paired(w2, e0)
  <2>1. ASSUME NEW i \in 1 .. Len(w2), w2[i].byte = PREFIX
        PROVE  i < Len(w2) /\ w2[i + 1].key = w2[i].key /\ w2[i + 1].byte # PREFIX
    <3>1. i \in 1 .. Len(w) /\ w2[i] = w[i]
          BY <1>2, <1>3, <2>1
    <3>2. i < Len(w) /\ w[i + 1].key = w[i].key /\ w[i + 1].byte # PREFIX
          BY <2>1, <3>1 DEF Clean, Paired
    <3>3. i + 1 \in 1 .. Len(w)
          BY <3>2
    <3> QED BY <1>2, <3>1, <3>2, <3>3
  <2>2. ASSUME NEW i \in 1 .. Len(w2), w2[i].byte # PREFIX, w2[i].key.e0
        PROVE  IF i = 1 THEN e0 ELSE w2[i - 1].byte = PREFIX
    <3>1. i \in 1 .. Len(w) /\ w2[i] = w[i]
          BY <1>2, <1>3, <2>2
    <3>2. IF i = 1 THEN e0 ELSE w[i - 1].byte = PREFIX
          BY <2>2, <3>1 DEF Clean, Paired
    <3>3. i # 1 => i - 1 \in 1 .. Len(w)
          BY <3>1
    <3> QED BY <1>2, <3>2, <3>3
  <2> QED BY <2>1, <2>2 DEF Paired
<1>7. NextIsOf(w2, e0, o)
  <2>1. Len(w) > 0 => 1 \in 1 .. Len(w)
        OBVIOUS
  <2>2. Len(w2) > 0
        BY <1>2
  <2> QED BY <1>2, <2>1, <2>2 DEF Clean, NextIsOf
<1> QED BY <1>1, <1>5, <1>6, <1>7 DEF Clean

LEMMA CleanPrefixed ==
    ASSUME NEW w \in Seq(Entry), NEW e0, NEW o, NEW k \in Keys, k.e0,
           NEW up \in BOOLEAN, NEW gone, NEW down, NEW p, KeyPrefix(p, k),
           NEW c, LastByte(c, k, up, gone, down), Clean(w, e0, o)
    PROVE  Clean(Append(Append(w, p), c), e0, o)
<1>0. PICK w1 : w1 = Append(w, p)
      OBVIOUS
<1>1. PICK w2 : w2 = Append(w1, c)
      OBVIOUS
<1>2. /\ Len(w1) = Len(w) + 1 /\ w1[Len(w) + 1] = p /\ w1 \in Seq(Entry)
      /\ \A j \in 1 .. Len(w) : w1[j] = w[j]
      BY <1>0, Appended DEF KeyPrefix
<1>3. /\ Len(w2) = Len(w1) + 1 /\ w2[Len(w1) + 1] = c /\ w2 \in Seq(Entry)
      /\ \A j \in 1 .. Len(w1) : w2[j] = w1[j]
      BY <1>1, <1>2, Appended DEF LastByte
<1>4. /\ Len(w2) = Len(w) + 2 /\ w2[Len(w) + 1] = p /\ w2[Len(w) + 2] = c
      /\ \A j \in 1 .. Len(w) : w2[j] = w[j]
  <2>1. Len(w1) + 1 = Len(w) + 2 /\ Len(w) + 1 \in 1 .. Len(w1)
        BY <1>2
  <2>2. \A j \in 1 .. Len(w) : j \in 1 .. Len(w1)
        BY <1>2
  <2>3. \A j \in 1 .. Len(w) : w2[j] = w[j]
        BY <1>2, <1>3, <2>2
  <2>4. w2[Len(w) + 1] = p /\ w2[Len(w) + 2] = c /\ Len(w2) = Len(w) + 2
        BY <1>2, <1>3, <2>1
  <2> QED BY <2>3, <2>4
<1>5. c.byte # PREFIX /\ c.key = k /\ p.key = k /\ p.byte = PREFIX
  <2>1. c.byte # PREFIX
        BY LastByteIsSound
  <2> QED BY <2>1 DEF LastByte, KeyPrefix
<1>6. Sound(c) /\ Sound(p)
      BY LastByteIsSound DEF KeyPrefix, Sound
<1>7. \A i \in 1 .. Len(w2) : i \in 1 .. Len(w) \/ i = Len(w) + 1 \/ i = Len(w) + 2
      BY <1>4
<1>8. \A i \in 1 .. Len(w2) : Sound(w2[i])
      BY <1>4, <1>6, <1>7 DEF Clean
<1>9. Paired(w2, e0)
  <2>1. ASSUME NEW i \in 1 .. Len(w2), w2[i].byte = PREFIX
        PROVE  i < Len(w2) /\ w2[i + 1].key = w2[i].key /\ w2[i + 1].byte # PREFIX
    <3>1. CASE i \in 1 .. Len(w)
      <4>1. i < Len(w) /\ w[i + 1].key = w[i].key /\ w[i + 1].byte # PREFIX
            BY <1>4, <2>1, <3>1 DEF Clean, Paired
      <4>2. i + 1 \in 1 .. Len(w)
            BY <4>1
      <4> QED BY <1>4, <3>1, <4>1, <4>2
    <3>2. CASE i = Len(w) + 1
      <4>1. i + 1 = Len(w) + 2 /\ i < Len(w2)
            BY <1>4, <3>2
      <4> QED BY <1>4, <1>5, <3>2, <4>1
    <3> QED BY <1>4, <1>5, <1>7, <2>1, <3>1, <3>2
  <2>2. ASSUME NEW i \in 1 .. Len(w2), w2[i].byte # PREFIX, w2[i].key.e0
        PROVE  IF i = 1 THEN e0 ELSE w2[i - 1].byte = PREFIX
    <3>1. CASE i \in 1 .. Len(w)
      <4>1. IF i = 1 THEN e0 ELSE w[i - 1].byte = PREFIX
            BY <1>4, <2>2, <3>1 DEF Clean, Paired
      <4>2. i # 1 => i - 1 \in 1 .. Len(w)
            BY <3>1
      <4> QED BY <1>4, <4>1, <4>2
    <3>2. CASE i = Len(w) + 2
      <4>1. i # 1 /\ i - 1 = Len(w) + 1
            BY <3>2
      <4> QED BY <1>4, <1>5, <4>1
    <3> QED BY <1>4, <1>5, <1>7, <2>2, <3>1, <3>2
  <2> QED BY <2>1, <2>2 DEF Paired
<1>10. NextIsOf(w2, e0, o)
  <2>1. Len(w) > 0 => 1 \in 1 .. Len(w)
        OBVIOUS
  <2>2. Len(w2) > 0
        BY <1>4
  <2> QED BY <1>4, <2>1, <2>2 DEF Clean, NextIsOf
<1> QED BY <1>0, <1>1, <1>8, <1>9, <1>10 DEF Clean

(* How the state of the handler changes.                                   *)
LEMMA StatusParts ==
    ASSUME NEW s \in KeyStatus
    PROVE  /\ s.e0_received \in BOOLEAN /\ s.CapsLock \in BOOLEAN
           /\ \A f \in Modifiers : s[f] \in BOOLEAN
BY DEF KeyStatus, Modifiers

SetsTo(s, t, f, v) == v \in BOOLEAN /\ t = [s EXCEPT ![f] = v]
SetsPrefix(s, t, v) == v \in BOOLEAN /\ t = [s EXCEPT !.e0_received = v]

LEMMA StatusSet ==
    ASSUME NEW s \in KeyStatus, NEW f \in Modifiers \cup Locks, NEW v,
           NEW t, SetsTo(s, t, f, v)
    PROVE  /\ t \in KeyStatus /\ t.e0_received = s.e0_received
           /\ t[f] = v
           /\ \A g \in Modifiers : g # f => t[g] = s[g]
<1>1. CASE f = "Shift"
      BY <1>1 DEF SetsTo, KeyStatus, Modifiers, Locks
<1>2. CASE f = "Ctrl"
      BY <1>2 DEF SetsTo, KeyStatus, Modifiers, Locks
<1>3. CASE f = "Alt"
      BY <1>3 DEF SetsTo, KeyStatus, Modifiers, Locks
<1>4. CASE f = "NumLock"
      BY <1>4 DEF SetsTo, KeyStatus, Modifiers, Locks
<1>5. CASE f = "ScrollLock"
      BY <1>5 DEF SetsTo, KeyStatus, Modifiers, Locks
<1>6. CASE f = "CapsLock"
      BY <1>6 DEF SetsTo, KeyStatus, Modifiers, Locks
<1> QED BY <1>1, <1>2, <1>3, <1>4, <1>5, <1>6 DEF Modifiers, Locks

(* The codes that the handler names.                                       *)
LEMMA NamedCodes ==
    /\ PREFIX \in Named
    /\ \A f \in Modifiers : \A c \in SetBy(f) : c \in Named /\ c + 128 \in Named
    /\ \A f \in Locks : ToggledBy(f) \in Named
BY DEF Named

LEMMA CodesOfModifiers ==
    /\ \A f \in Modifiers : \A c \in SetBy(f) : c \in {42, 84, 29, 56}
    /\ \A f, g \in Modifiers : \A c \in SetBy(f) : c \in SetBy(g) => f = g
    /\ \A f \in Locks : ToggledBy(f) \in {69, 58, 16400}
    /\ \A f \in Locks : f \notin Modifiers
<1>1. SetBy("Shift") = {42, 84} /\ SetBy("Ctrl") = {29} /\ SetBy("Alt") = {56}
      BY DEF SetBy, KEY_LSHIFT, KEY_RSHIFT, KEY_LCTRL, KEY_LALT
<1>2. /\ ToggledBy("NumLock") = 69 /\ ToggledBy("ScrollLock") = 16400
      /\ ToggledBy("CapsLock") = 58
      BY DEF ToggledBy, KEY_KP_NUMLOCK, KEY_SCROLLLOCK, KEY_CAPSLOCK
<1>3. \A f \in Modifiers : \A c \in SetBy(f) : c \in {42, 84, 29, 56}
      BY <1>1 DEF Modifiers
<1>4. \A f, g \in Modifiers : \A c \in SetBy(f) : c \in SetBy(g) => f = g
      BY <1>1 DEF Modifiers
<1>5. \A f \in Locks : ToggledBy(f) \in {69, 58, 16400}
      BY <1>2 DEF Locks
<1>6. \A f \in Locks : f \notin Modifiers
      BY DEF Locks, Modifiers
<1> QED BY <1>3, <1>4, <1>5, <1>6

(* What the handler may make of the byte of e: its prefix and its owner,   *)
(* and every modifier.                                                     *)
Handles(e, s, s2, o, o2) ==
    /\ s2 \in KeyStatus
    /\ \A f \in Modifiers : TakenAs(f, e, s[f], s2[f])
    /\ e.byte = PREFIX => s2.e0_received /\ o2 = e.key
    /\ e.byte # PREFIX /\ s2.e0_received =>
          s.e0_received /\ o2 = o /\ e.key.code \in Named

LEMMA ByteOfKey ==
    ASSUME NEW e \in Entry, Sound(e)
    PROVE  /\ e.key \in Keys /\ e.key.code \in 1 .. 88 /\ e.byte \in 1 .. 224
           /\ e.byte # PREFIX => e.byte = e.key.code \/ e.byte = e.key.code + 128
           /\ e.byte = PREFIX => e.key.e0
<1>1. e.key \in Keys /\ e.byte \in 1 .. 224
      BY DEF Entry
<1>2. e.key.code \in 1 .. 88
      BY <1>1, KeyboardAssumption
<1>3. e.byte = e.key.code \/ e.byte = e.key.code + 128 \/ (e.key.e0 /\ e.byte = PREFIX)
      BY DEF Sound
<1>4. e.byte = PREFIX => e.byte # e.key.code /\ e.byte # e.key.code + 128
      BY <1>2 DEF PREFIX
<1> QED BY <1>1, <1>2, <1>3, <1>4

LEMMA LockHandles ==
    ASSUME NEW e \in Entry, Sound(e), NEW f \in Locks, e.byte = ToggledBy(f),
           NEW s \in KeyStatus, NEW s2, SetsTo(s, s2, f, ~s[f]), NEW o
    PROVE  Handles(e, s, s2, o, o)
<1>1. /\ e.key.code \in 1 .. 88 /\ e.byte \in 1 .. 224
      /\ e.byte # PREFIX => e.byte = e.key.code \/ e.byte = e.key.code + 128
      BY ByteOfKey
<1>2. e.byte \in {69, 58} /\ e.byte # PREFIX
      BY <1>1, CodesOfModifiers DEF PREFIX
<1>3. e.key.code = e.byte
      BY <1>1, <1>2
<1>4. e.key.code \in Named
      BY <1>3, NamedCodes
<1>5. ASSUME NEW g \in Modifiers
      PROVE  ~Tells(g, e)
  <2>1. \A c \in SetBy(g) : c \in {42, 84, 29, 56}
        BY CodesOfModifiers
  <2>2. e.key.code \notin {42, 84, 29, 56}
        BY <1>2, <1>3
  <2> QED BY <2>1, <2>2 DEF Tells
<1>6. f \in Modifiers \cup Locks
      OBVIOUS
<1>7. /\ s2 \in KeyStatus /\ s2.e0_received = s.e0_received
      /\ \A g \in Modifiers : g # f => s2[g] = s[g]
      BY <1>6, StatusSet
<1>8. \A g \in Modifiers : TakenAs(g, e, s[g], s2[g])
      BY <1>5, <1>7, CodesOfModifiers DEF TakenAs
<1> QED BY <1>2, <1>4, <1>7, <1>8 DEF Handles

LEMMA ModifierHandles ==
    ASSUME NEW e \in Entry, Sound(e), NEW f \in Modifiers, NEW c \in SetBy(f),
           NEW r \in {0, 128}, e.byte = c + r,
           NEW s \in KeyStatus, NEW s2, SetsTo(s, s2, f, r = 0), NEW o
    PROVE  Handles(e, s, s2, o, o)
<1>1. /\ e.key.code \in 1 .. 88 /\ e.byte \in 1 .. 224
      /\ e.byte # PREFIX => e.byte = e.key.code \/ e.byte = e.key.code + 128
      BY ByteOfKey
<1>2. c \in {42, 84, 29, 56}
      BY CodesOfModifiers
<1>3. e.byte # PREFIX /\ e.key.code = c /\ (e.byte < 128 <=> r = 0)
      BY <1>1, <1>2 DEF PREFIX
<1>4. e.key.code \in Named
      BY <1>3, NamedCodes
<1>5. \A g \in Modifiers : Tells(g, e) <=> g = f
      BY <1>3, CodesOfModifiers DEF Tells
<1>6. f \in Modifiers \cup Locks
      OBVIOUS
<1>7. /\ s2 \in KeyStatus /\ s2.e0_received = s.e0_received /\ s2[f] = (r = 0)
      /\ \A g \in Modifiers : g # f => s2[g] = s[g]
      BY <1>6, StatusSet
<1>8. \A g \in Modifiers : TakenAs(g, e, s[g], s2[g])
      BY <1>3, <1>5, <1>7 DEF TakenAs
<1> QED BY <1>3, <1>4, <1>7, <1>8 DEF Handles

LEMMA PrefixHandles ==
    ASSUME NEW e, e.byte = PREFIX, NEW s \in KeyStatus,
           NEW s2, SetsPrefix(s, s2, TRUE), NEW o
    PROVE  Handles(e, s, s2, o, e.key)
<1>1. /\ s2 \in KeyStatus /\ s2.e0_received
      /\ \A g \in Modifiers : s2[g] = s[g]
      BY DEF SetsPrefix, KeyStatus, Modifiers
<1> QED BY <1>1 DEF Handles, TakenAs, Tells

LEMMA KeyHandles ==
    ASSUME NEW e \in Entry, Sound(e), e.byte \notin Named, NEW s \in KeyStatus,
           NEW s2, SetsPrefix(s, s2, FALSE), NEW o, NEW o2
    PROVE  Handles(e, s, s2, o, o2)
<1>1. /\ s2 \in KeyStatus /\ ~s2.e0_received
      /\ \A g \in Modifiers : s2[g] = s[g]
      BY DEF SetsPrefix, KeyStatus, Modifiers
<1>2. e.byte # PREFIX /\ (e.byte = e.key.code \/ e.byte = e.key.code + 128)
      BY ByteOfKey, NamedCodes
<1>3. \A g \in Modifiers : ~Tells(g, e)
      BY <1>2, NamedCodes DEF Tells
<1> QED BY <1>1, <1>2, <1>3 DEF Handles, TakenAs

LEMMA CleanTail ==
    ASSUME NEW w \in Seq(Entry), w # <<>>, NEW s \in KeyStatus, NEW s2 \in KeyStatus,
           NEW o, NEW o2, Clean(w, s.e0_received, o), Handles(w[1], s, s2, o, o2)
    PROVE  Clean(Tail(w), s2.e0_received, o2)
<1>0. Len(w) >= 1 /\ w[1] \in Entry /\ 1 \in 1 .. Len(w)
      OBVIOUS
<1>1. PICK t : t = Tail(w)
      OBVIOUS
<1>2. /\ Len(t) = Len(w) - 1
      /\ \A i \in 1 .. Len(t) : t[i] = w[i + 1] /\ i + 1 \in 1 .. Len(w)
      BY <1>1
<1>3. Sound(w[1])
      BY <1>0 DEF Clean
<1>4. \A i \in 1 .. Len(t) : Sound(t[i])
      BY <1>2 DEF Clean
<1>5. Paired(t, s2.e0_received)
  <2>1. ASSUME NEW i \in 1 .. Len(t), t[i].byte = PREFIX
        PROVE  i < Len(t) /\ t[i + 1].key = t[i].key /\ t[i + 1].byte # PREFIX
    <3>1. /\ i + 1 < Len(w) /\ w[(i + 1) + 1].key = w[i + 1].key
          /\ w[(i + 1) + 1].byte # PREFIX
          BY <1>2, <2>1 DEF Clean, Paired
    <3>2. i < Len(t) /\ i + 1 \in 1 .. Len(t)
          BY <1>2, <3>1
    <3> QED BY <1>2, <3>1, <3>2
  <2>2. ASSUME NEW i \in 1 .. Len(t), t[i].byte # PREFIX, t[i].key.e0
        PROVE  IF i = 1 THEN s2.e0_received ELSE t[i - 1].byte = PREFIX
    <3>1. t[i] = w[i + 1] /\ i + 1 \in 1 .. Len(w) /\ i + 1 # 1 /\ (i + 1) - 1 = i
          BY <1>2
    <3>2. w[i].byte = PREFIX
          BY <2>2, <3>1 DEF Clean, Paired
    <3>3. CASE i = 1
          BY <3>2, <3>3 DEF Handles
    <3>4. CASE i # 1
      <4>1. i - 1 \in 1 .. Len(t) /\ (i - 1) + 1 = i
            BY <3>4
      <4> QED BY <1>2, <3>2, <3>4, <4>1
    <3> QED BY <3>3, <3>4
  <2> QED BY <2>1, <2>2 DEF Paired
<1>6. NextIsOf(t, s2.e0_received, o2)
  <2>1. CASE w[1].byte = PREFIX
    <3>1. 1 < Len(w) /\ w[1 + 1].key = w[1].key /\ w[1 + 1].byte # PREFIX
          BY <1>0, <2>1 DEF Clean, Paired
    <3>2. 1 \in 1 .. Len(t) /\ Len(t) > 0
          BY <1>2, <3>1
    <3>3. t[1] = w[1 + 1]
          BY <1>2, <3>2
    <3>4. o2 = w[1].key
          BY <2>1 DEF Handles
    <3>5. w[1].key.e0
          BY <1>0, <1>3, <2>1, ByteOfKey
    <3> QED BY <3>1, <3>2, <3>3, <3>4, <3>5 DEF NextIsOf
  <2>2. CASE w[1].byte # PREFIX
    <3>1. SUFFICES ASSUME s2.e0_received, o2 \notin KeepPrefix \cup {None}
                   PROVE  FALSE
          BY DEF NextIsOf
    <3>2. s.e0_received /\ o2 = o /\ w[1].key.code \in Named
          BY <2>2, <3>1 DEF Handles
    <3>3. o.e0 /\ w[1].key = o
          BY <3>1, <3>2 DEF Clean, NextIsOf
    <3>4. o \in Keys
          BY <1>0, <3>3, EntryParts
    <3> QED BY <3>1, <3>2, <3>3, <3>4 DEF KeepPrefix
  <2> QED BY <2>1, <2>2
<1> QED BY <1>1, <1>4, <1>5, <1>6 DEF Clean

(* What a key does to the wire: its bytes are added, or they are dropped.  *)
Writes(k, up, after) ==
    \/ wire' = wire /\ lost' = lost \cup ({k} \cap ModifierKeys)
    \/ /\ ~k.e0 /\ lost' = lost \ {k}
       /\ \E c : LastByte(c, k, up, lost, after) /\ wire' = Append(wire, c)
    \/ /\ k.e0 /\ lost' = lost \ {k}
       /\ \E p, c : /\ KeyPrefix(p, k) /\ LastByte(c, k, up, lost, after)
                    /\ wire' = Append(Append(wire, p), c)

LEMMA SendWrites ==
    ASSUME wire \in Seq(Entry), NEW k \in Keys, NEW up \in BOOLEAN, NEW after,
           Send(k, up, after)
    PROVE  /\ Writes(k, up, after)
           /\ held' = after /\ event' = NoEvent
           /\ keyState' = keyState /\ owner' = owner
<1>1. k.code \in 1 .. 88 /\ k.e0 \in BOOLEAN
      BY KeyboardAssumption
<1>2. PICK types \in BOOLEAN :
        types <=> ~up /\ ~k.e0 /\ scancode[k.code + 1] \in Letters
      OBVIOUS
<1>3. PICK shift \in BOOLEAN : shift <=> types /\ KeysOf("Shift") \cap after # {}
      OBVIOUS
<1>4. PICK sure \in BOOLEAN :
        sure <=> /\ types /\ KeysOf("Shift") \cap lost = {}
                 /\ \A i, j \in KeysOf("Shift") : i = j
      OBVIOUS
<1>5. PICK last : last = k.code + (IF up THEN 128 ELSE 0)
      OBVIOUS
<1>6. PICK c : c = [byte |-> last, key |-> k, shift |-> shift, sure |-> sure]
      OBVIOUS
<1>7. PICK p : p = [byte |-> PREFIX, key |-> k, shift |-> shift, sure |-> sure]
      OBVIOUS
<1>8. last \in 1 .. 224
  <2>0. PICK n \in 1 .. 88 : n = k.code
        BY <1>1
  <2>1. PICK d \in {0, 128} : d = IF up THEN 128 ELSE 0
        OBVIOUS
  <2>2. last = k.code + d
        BY <1>5, <2>1, Zenon
  <2>3. last = n + d
        BY <2>0, <2>2, Zenon
  <2> QED BY <2>3
<1>9. LastByte(c, k, up, lost, after)
  <2>1. c \in Entry
        BY <1>6, <1>8 DEF Entry
  <2>2. /\ c.key = k /\ c.byte = last /\ (c.shift <=> shift) /\ (c.sure <=> sure)
        BY <1>6
  <2> QED BY <1>2, <1>3, <1>4, <1>5, <2>1, <2>2 DEF LastByte, OneShiftKey
<1>10. ASSUME k.e0
       PROVE  KeyPrefix(p, k)
  <2>1. p \in Entry
        BY <1>7 DEF Entry, PREFIX
  <2>2. p.key = k /\ p.byte = PREFIX /\ (p.sure <=> sure)
        BY <1>7
  <2> QED BY <1>2, <1>4, <1>10, <2>1, <2>2 DEF KeyPrefix
<1>11. PICK bytes : bytes = (IF k.e0 THEN <<p>> ELSE <<>>) \o <<c>>
       OBVIOUS
<1>12. /\ IF Len(wire \o bytes) <= Buffer
             THEN wire' = wire \o bytes /\ lost' = lost \ {k}
             ELSE lost' = lost \cup ({k} \cap ModifierKeys) /\ wire' = wire
       /\ held' = after /\ event' = NoEvent
       /\ keyState' = keyState /\ owner' = owner
  <2>1. /\ (~up /\ ~k.e0 /\ scancode[k.code + 1] \in Letters
               /\ KeysOf("Shift") \cap after # {}) = shift
        BY <1>2, <1>3
  <2>2. (/\ ~up /\ ~k.e0 /\ scancode[k.code + 1] \in Letters
         /\ KeysOf("Shift") \cap lost = {}
         /\ \A i, j \in KeysOf("Shift") : i = j) = sure
        BY <1>2, <1>4
  <2> QED BY <1>5, <1>6, <1>7, <1>11, <2>1, <2>2 DEF Send
<1>13. ASSUME ~k.e0
       PROVE  wire \o bytes = Append(wire, c)
  <2>1. bytes = <<c>>
        BY <1>11, <1>13
  <2> QED BY <1>9, <2>1 DEF LastByte
<1>14. ASSUME k.e0
       PROVE  wire \o bytes = Append(Append(wire, p), c)
  <2>1. bytes = <<p>> \o <<c>>
        BY <1>11, <1>14
  <2>2. p \in Entry /\ c \in Entry
        BY <1>9, <1>10, <1>14 DEF LastByte, KeyPrefix
  <2>3. <<p>> \in Seq(Entry) /\ <<c>> \in Seq(Entry)
        BY <2>2
  <2>4. /\ bytes \in Seq(Entry) /\ Len(bytes) = 2
        /\ bytes[1] = p /\ bytes[2] = c
        BY <2>1, <2>3
  <2>5. PICK x : x = Append(Append(wire, p), c)
        OBVIOUS
  <2>6. PICK y : y = wire \o bytes
        OBVIOUS
  <2>7. /\ x \in Seq(Entry) /\ Len(x) = Len(wire) + 2
        /\ x[Len(wire) + 1] = p /\ x[Len(wire) + 2] = c
        /\ \A i \in 1 .. Len(wire) : x[i] = wire[i]
        BY <2>2, <2>5
  <2>8. /\ y \in Seq(Entry) /\ Len(y) = Len(wire) + 2
        /\ y[Len(wire) + 1] = p /\ y[Len(wire) + 2] = c
        /\ \A i \in 1 .. Len(wire) : y[i] = wire[i]
    <3>1. /\ y \in Seq(Entry) /\ Len(y) = Len(wire) + Len(bytes)
          /\ \A i \in 1 .. Len(wire) + Len(bytes) :
                y[i] = IF i <= Len(wire) THEN wire[i] ELSE bytes[i - Len(wire)]
          BY <2>4, <2>6, ConcatProperties, Zenon
    <3>2. /\ Len(wire) + 1 \in 1 .. Len(wire) + 2 /\ Len(wire) + 2 \in 1 .. Len(wire) + 2
          /\ ~(Len(wire) + 1 <= Len(wire)) /\ ~(Len(wire) + 2 <= Len(wire))
          /\ (Len(wire) + 1) - Len(wire) = 1 /\ (Len(wire) + 2) - Len(wire) = 2
          OBVIOUS
    <3>3. \A i \in 1 .. Len(wire) : i \in 1 .. Len(wire) + 2 /\ i <= Len(wire)
          OBVIOUS
    <3> QED BY <2>4, <3>1, <3>2, <3>3
  <2>9. \A i \in 1 .. Len(wire) + 2 : x[i] = y[i]
        BY <2>7, <2>8
  <2>10. x = y
        BY <2>7, <2>8, <2>9
  <2> QED BY <2>5, <2>6, <2>10
<1>15. CASE Len(wire \o bytes) <= Buffer /\ k.e0
       BY <1>9, <1>10, <1>12, <1>14, <1>15 DEF Writes
<1>16. CASE Len(wire \o bytes) <= Buffer /\ ~k.e0
       BY <1>9, <1>12, <1>13, <1>16 DEF Writes
<1>17. CASE ~(Len(wire \o bytes) <= Buffer)
       BY <1>12, <1>17 DEF Writes
<1> QED BY <1>12, <1>15, <1>16, <1>17

(***************************************************************************)
(* The inductive invariant.                                                *)
(***************************************************************************)
KeyboardTypeOK ==
    /\ held \subseteq Keys /\ recent \in held \cup {None} /\ lost \subseteq Keys
    /\ wire \in Seq(Entry)
    /\ keyState \in KeyStatus

KeyboardInv ==
    /\ KeyboardTypeOK
    /\ Clean(wire, keyState.e0_received, owner)
    /\ \A f \in Modifiers : Follows(f, wire, keyState[f], lost, held)
    /\ ShiftFits(wire, keyState["Shift"])

LEMMA KeyboardInvInit == KeyboardInit => KeyboardInv
<1> SUFFICES ASSUME KeyboardInit PROVE KeyboardInv
    OBVIOUS
<1>1. KeyboardTypeOK
      BY DEF KeyboardInit, KeyboardTypeOK
<1>2. Len(wire) = 0 /\ wire = <<>>
      BY DEF KeyboardInit
<1>3. Clean(wire, keyState.e0_received, owner)
      BY <1>2 DEF KeyboardInit, Clean, Paired, NextIsOf
<1>4. ASSUME NEW f \in Modifiers
      PROVE  Follows(f, wire, keyState[f], lost, held)
  <2>1. ~keyState[f]
        BY DEF KeyboardInit, Modifiers
  <2>2. Leaves(wire, keyState[f], f, Len(wire) + 1, FALSE)
        BY <1>2, <2>1 DEF Leaves
  <2>3. Agrees(f, FALSE, held)
        BY DEF KeyboardInit, Agrees
  <2> QED BY <2>2, <2>3 DEF Follows
<1>5. ShiftFits(wire, keyState["Shift"])
      BY <1>2 DEF ShiftFits
<1> QED BY <1>1, <1>3, <1>4, <1>5 DEF KeyboardInv

LEMMA WritesKeepsWire ==
    ASSUME KeyboardInv, NEW k \in Keys, NEW up \in BOOLEAN, NEW after,
           Moves(k, up, held, after), Writes(k, up, after)
    PROVE  /\ wire' \in Seq(Entry) /\ lost' \subseteq Keys
           /\ Clean(wire', keyState.e0_received, owner)
           /\ \A f \in Modifiers : Follows(f, wire', keyState[f], lost', after)
           /\ ShiftFits(wire', keyState["Shift"])
<1>1. /\ wire \in Seq(Entry) /\ lost \subseteq Keys /\ keyState \in KeyStatus
      /\ Clean(wire, keyState.e0_received, owner)
      /\ \A f \in Modifiers : Follows(f, wire, keyState[f], lost, held)
      /\ ShiftFits(wire, keyState["Shift"])
      BY DEF KeyboardInv, KeyboardTypeOK
<1>2. \A f \in Modifiers : keyState[f] \in BOOLEAN
      BY <1>1, StatusParts
<1>3. "Shift" \in Modifiers
      BY DEF Modifiers
<1>4. CASE wire' = wire /\ lost' = lost \cup ({k} \cap ModifierKeys)
  <2>1. \A f \in Modifiers :
          Follows(f, wire, keyState[f], lost \cup ({k} \cap ModifierKeys), after)
        BY <1>1, <1>2, FollowsDropped
  <2> QED BY <1>1, <1>4, <2>1
<1>5. CASE /\ ~k.e0 /\ lost' = lost \ {k}
           /\ \E c : LastByte(c, k, up, lost, after) /\ wire' = Append(wire, c)
  <2>1. PICK c : LastByte(c, k, up, lost, after) /\ wire' = Append(wire, c)
        BY <1>5
  <2>2. Append(wire, c) \in Seq(Entry)
        BY <1>1, <2>1 DEF LastByte
  <2>3. Clean(Append(wire, c), keyState.e0_received, owner)
        BY <1>1, <1>5, <2>1, CleanLastByte
  <2>4. \A f \in Modifiers :
          Follows(f, Append(wire, c), keyState[f], lost \ {k}, after)
        BY <1>1, <1>2, <2>1, FollowsLastByte
  <2>5. ShiftFits(Append(wire, c), keyState["Shift"])
        BY <1>1, <1>2, <1>3, <2>1, ShiftFitsLastByte
  <2> QED BY <1>1, <1>5, <2>1, <2>2, <2>3, <2>4, <2>5
<1>6. CASE /\ k.e0 /\ lost' = lost \ {k}
           /\ \E p, c : /\ KeyPrefix(p, k) /\ LastByte(c, k, up, lost, after)
                        /\ wire' = Append(Append(wire, p), c)
  <2>1. PICK p, c : /\ KeyPrefix(p, k) /\ LastByte(c, k, up, lost, after)
                    /\ wire' = Append(Append(wire, p), c)
        BY <1>6
  <2>2. PICK w : w = Append(wire, p)
        OBVIOUS
  <2>3. w \in Seq(Entry)
        BY <1>1, <2>1, <2>2 DEF KeyPrefix
  <2>4. Append(w, c) \in Seq(Entry)
        BY <2>1, <2>3 DEF LastByte
  <2>5. Clean(Append(w, c), keyState.e0_received, owner)
        BY <1>1, <1>6, <2>1, <2>2, CleanPrefixed
  <2>6. \A f \in Modifiers : Follows(f, w, keyState[f], lost, held)
        BY <1>1, <1>2, <2>1, <2>2, FollowsPrefix
  <2>7. \A f \in Modifiers : Follows(f, Append(w, c), keyState[f], lost \ {k}, after)
        BY <1>2, <2>1, <2>3, <2>6, FollowsLastByte
  <2>8. ShiftFits(w, keyState["Shift"])
        BY <1>1, <1>2, <1>3, <2>1, <2>2, ShiftFitsPrefix
  <2>9. ShiftFits(Append(w, c), keyState["Shift"])
        BY <1>2, <1>3, <2>1, <2>3, <2>6, <2>8, ShiftFitsLastByte
  <2> QED BY <1>1, <1>6, <2>1, <2>2, <2>4, <2>5, <2>7, <2>9
<1> QED BY <1>4, <1>5, <1>6 DEF Writes

LEMMA SendKeepsInv ==
    ASSUME KeyboardInv, NEW k \in Keys, NEW up \in BOOLEAN, NEW after,
           Moves(k, up, held, after), Send(k, up, after), recent' \in after \cup {None}
    PROVE  KeyboardInv' /\ event' = NoEvent
<1>1. /\ Writes(k, up, after) /\ held' = after /\ event' = NoEvent
      /\ keyState' = keyState /\ owner' = owner
      BY SendWrites DEF KeyboardInv, KeyboardTypeOK
<1>2. /\ wire' \in Seq(Entry) /\ lost' \subseteq Keys
      /\ Clean(wire', keyState.e0_received, owner)
      /\ \A f \in Modifiers : Follows(f, wire', keyState[f], lost', after)
      /\ ShiftFits(wire', keyState["Shift"])
      BY <1>1, WritesKeepsWire
<1>3. after \subseteq Keys
      BY DEF Moves, KeyboardInv, KeyboardTypeOK
<1>4. KeyboardTypeOK'
      BY <1>1, <1>2, <1>3 DEF KeyboardInv, KeyboardTypeOK
<1> QED BY <1>1, <1>2, <1>4 DEF KeyboardInv

LEMMA HandledKeepsInv ==
    ASSUME KeyboardInv, wire # <<>>, wire' = Tail(wire), UNCHANGED hands,
           Handles(wire[1], keyState, keyState', owner, owner')
    PROVE  KeyboardInv'
<1>1. /\ wire \in Seq(Entry) /\ keyState \in KeyStatus
      /\ Clean(wire, keyState.e0_received, owner)
      /\ \A f \in Modifiers : Follows(f, wire, keyState[f], lost, held)
      /\ ShiftFits(wire, keyState["Shift"])
      BY DEF KeyboardInv, KeyboardTypeOK
<1>2. PICK s2, o2 : s2 = keyState' /\ o2 = owner'
      OBVIOUS
<1>3. Handles(wire[1], keyState, s2, owner, o2) /\ s2 \in KeyStatus
      BY <1>2 DEF Handles
<1>4. \A f \in Modifiers : keyState[f] \in BOOLEAN /\ s2[f] \in BOOLEAN
      BY <1>1, <1>3, StatusParts
<1>5. Clean(Tail(wire), s2.e0_received, o2)
      BY <1>1, <1>3, CleanTail
<1>6. \A f \in Modifiers : Follows(f, Tail(wire), s2[f], lost, held)
  <2>1. \A f \in Modifiers : TakenAs(f, wire[1], keyState[f], s2[f])
        BY <1>3 DEF Handles
  <2> QED BY <1>1, <1>4, <2>1, FollowsTail
<1>7. ShiftFits(Tail(wire), s2["Shift"])
  <2>1. "Shift" \in Modifiers
        BY DEF Modifiers
  <2>2. TakenAs("Shift", wire[1], keyState["Shift"], s2["Shift"])
        BY <1>3, <2>1 DEF Handles
  <2> QED BY <1>1, <1>4, <2>1, <2>2, ShiftFitsTail
<1>8. KeyboardTypeOK'
      BY <1>1, <1>2, <1>3 DEF KeyboardInv, KeyboardTypeOK, hands
<1>9. lost' = lost /\ held' = held
      BY DEF hands
<1> QED BY <1>2, <1>5, <1>6, <1>7, <1>8, <1>9 DEF KeyboardInv

(***************************************************************************)
(* What function does with a key.                                          *)
(***************************************************************************)
LEMMA CursorKeysMove == \A x \in DOMAIN Cursor : Cursor[x] # "outside"
<1>1. DOMAIN Cursor = {KEY_UP, KEY_DOWN, KEY_LEFT, KEY_RIGHT, KEY_DELETE, KEY_KP_ENTER}
      BY DEF Cursor
<1>2. ASSUME NEW x \in DOMAIN Cursor
      PROVE  Cursor[x] \in {"Up", "Down", "Left", "Right", "Delete", "Enter"}
      BY <1>1 DEF Cursor
<1> QED BY <1>2

(* The character that is shown for the place i of the tables.              *)
CharAt(i, shift, caps) ==
    IF ~shift THEN unshifted[i]
    ELSE IF caps THEN toLower(shifted[i]) ELSE shifted[i]

LEMMA FunctionDoes ==
    ASSUME NEW c, NEW d, d = Function(c)
    PROVE  /\ d[1] = "outside" => c.key >= Len(scancode)
           /\ d[2] = 0 \/ \E i \in findChar(unshifted, scancode[c.key + 1]) :
                             d[2] = CharAt(i, c.Shift, c.CapsLock)
<1>1. PICK code, places : /\ code = scancode[c.key + 1]
                       /\ places = findChar(unshifted, code)
      OBVIOUS
<1>2. PICK i : i = CHOOSE p \in places : TRUE
      OBVIOUS
<1>3. places # {} => i \in places
      BY <1>2
<1>4. PICK char : char = CharAt(i, c.Shift, c.CapsLock)
      OBVIOUS
<1>5. d = CASE ~c.Pressed -> <<"nothing", 0>>
            [] c.key \in DOMAIN Cursor -> <<Cursor[c.key], 0>>
            [] c.key >= Len(scancode) -> <<"outside", 0>>
            [] code = KEY_BACKSPACE -> <<"BackSpace", 0>>
            [] code = KEY_C /\ c.Ctrl -> <<"Ctrl-C", 0>>
            [] places = {} -> <<"nothing", 0>>
            [] OTHER -> <<"char", char>>
      BY <1>1, <1>2, <1>4 DEF Function, CharAt
<1>6. \/ d = <<"nothing", 0>> \/ d = <<"BackSpace", 0>> \/ d = <<"Ctrl-C", 0>>
      \/ c.key \in DOMAIN Cursor /\ d = <<Cursor[c.key], 0>>
      \/ c.key >= Len(scancode) /\ d = <<"outside", 0>>
      \/ places # {} /\ d = <<"char", char>>
      BY <1>5
<1>7. d[1] = "outside" => c.key >= Len(scancode)
      BY <1>6, CursorKeysMove
<1>8. d[2] = 0 \/ (places # {} /\ d[2] = char)
      BY <1>6
<1> QED BY <1>1, <1>3, <1>4, <1>7, <1>8

(* A letter is shown as it was asked for; without Shift it is itself, with *)
(* Shift its capital, and with CapsLock too itself again.                  *)
LEMMA LetterIsShown ==
    ASSUME NEW l \in Letters, NEW shift \in BOOLEAN, NEW caps \in BOOLEAN,
           NEW i \in findChar(unshifted, l)
    PROVE  CharAt(i, shift, caps) = IF shift /\ ~caps THEN l - 32 ELSE l
<1>1. l \in 97 .. 122 /\ l % 256 = l
  <2>1. l \in 97 .. 122
        BY LettersAreSmall
  <2> QED BY <2>1
<1>2. /\ IsRow(unshifted, 48) /\ IsRow(shifted, 48)
      /\ \A j \in 1 .. 48 : unshifted[j] \in Letters => shifted[j] = unshifted[j] - 32
      BY TablesAligned DEF Aligned
<1>3. i \in DOMAIN unshifted /\ unshifted[i] = l
      BY <1>1 DEF findChar
<1>4. DOMAIN unshifted = 1 .. 48
      BY <1>2 DEF IsRow
<1>5. shifted[i] = l - 32
      BY <1>2, <1>3, <1>4
<1>6. l - 32 \in 65 .. 90 /\ (l - 32) + 32 = l
      BY <1>1
<1>7. toLower(l - 32) = l
      BY <1>6 DEF toLower
<1> QED BY <1>3, <1>5, <1>7 DEF CharAt

LEMMA KeyByteReports ==
    ASSUME KeyboardInv, KeyByte
    PROVE  KeyIsReported'
<1>1. /\ wire \in Seq(Entry) /\ keyState \in KeyStatus
      /\ Clean(wire, keyState.e0_received, owner)
      /\ ShiftFits(wire, keyState["Shift"])
      BY DEF KeyboardInv, KeyboardTypeOK
<1>2. wire # <<>> /\ Head(wire).byte \notin Named
      BY DEF KeyByte
<1>3. PICK e : e = wire[1]
      OBVIOUS
<1>4. Head(wire) = e /\ e \in Entry /\ 1 \in 1 .. Len(wire)
      BY <1>1, <1>2, <1>3
<1>5. Sound(e)
      BY <1>1, <1>3, <1>4 DEF Clean
<1>6. PICK n : n = e.key.code
      OBVIOUS
<1>7. n \in 1 .. 88 /\ e.key \in Keys /\ (e.byte = n \/ e.byte = n + 128)
      /\ e.byte # PREFIX
      BY <1>2, <1>4, <1>5, <1>6, ByteOfKey, NamedCodes
<1>8. e.byte % 128 = n
  <2>1. PICK m \in 1 .. 88 : m = n
        BY <1>7
  <2>2. m % 128 = m /\ (m + 128) % 128 = m
        OBVIOUS
  <2> QED BY <1>7, <2>1, <2>2
<1>9. PICK c : c = Call(e.byte)
      OBVIOUS
<1>10. /\ c.key = (IF keyState.e0_received THEN E0 ELSE 0) + n
       /\ c.Shift = keyState.Shift /\ c.CapsLock = keyState.CapsLock
       BY <1>8, <1>9 DEF Call
<1>11. PICK d : d = Function(c)
       OBVIOUS
<1>12. PICK ev : ev = event'
       OBVIOUS
<1>13. ev = [key |-> c.key, does |-> d, of |-> e.key, shift |-> e.shift,
             sure |-> e.sure, caps |-> c.CapsLock,
             prefix |-> IF keyState.e0_received THEN owner ELSE e.key]
       BY <1>4, <1>9, <1>11, <1>12 DEF KeyByte, Deliver
<1>14. /\ ev.key = c.key /\ ev.does = d /\ ev.of = e.key
       /\ (ev.shift <=> e.shift) /\ (ev.sure <=> e.sure) /\ (ev.caps <=> c.CapsLock)
       /\ ev.prefix = IF keyState.e0_received THEN owner ELSE e.key
       BY <1>13
<1>15. CASE keyState.e0_received /\ owner \in KeepPrefix \cup {None}
       BY <1>12, <1>14, <1>15 DEF KeyIsReported
<1>16. CASE keyState.e0_received /\ owner \notin KeepPrefix \cup {None}
  <2>1. e.key = owner /\ owner.e0
        BY <1>1, <1>3, <1>16 DEF Clean, NextIsOf
  <2>2. ev.prefix = ev.of /\ ev.of.e0
        BY <1>14, <1>16, <2>1
  <2>3. ev.key = n + E0
        BY <1>7, <1>10, <1>14, <1>16 DEF E0, PREFIX
  <2>4. ~ev.sure
        BY <1>5, <1>14, <2>1 DEF Sound
  <2> QED BY <1>6, <1>12, <1>14, <2>2, <2>3, <2>4 DEF KeyIsReported
<1>17. CASE ~keyState.e0_received
  <2>1. ~e.key.e0
        BY <1>1, <1>3, <1>4, <1>7, <1>17 DEF Clean, Paired
  <2>2. c.key = n /\ ev.key = n
        BY <1>7, <1>10, <1>14, <1>17
  <2>3. ev.prefix = ev.of /\ ev.key = ev.of.code + (IF ev.of.e0 THEN E0 ELSE 0)
        BY <1>6, <1>7, <1>14, <1>17, <2>1, <2>2
  <2>4. Len(scancode) = 89
        BY ScancodeTable DEF IsRow
  <2>5. ev.does[1] # "outside"
        BY <1>7, <1>11, <1>14, <2>2, <2>4, FunctionDoes
  <2>6. ASSUME ev.sure
        PROVE  \/ d[2] = 0
               \/ /\ d[2] + 32 \in Letters => ev.shift /\ ~ev.caps
                  /\ d[2] \in Letters => ~ev.shift \/ ev.caps
    <3>1. scancode[n + 1] \in Letters /\ e.sure
          BY <1>5, <1>6, <1>14, <2>6 DEF Sound
    <3>2. keyState.Shift \in BOOLEAN /\ keyState.CapsLock \in BOOLEAN
          BY <1>1 DEF KeyStatus
    <3>3. keyState.Shift <=> ev.shift
      <4>1. Leaves(wire, keyState["Shift"], "Shift", 1, e.shift)
            BY <1>1, <1>3, <1>4, <3>1 DEF ShiftFits
      <4>2. \A j \in 1 .. 1 - 1 : FALSE
            OBVIOUS
      <4>3. e.shift <=> keyState["Shift"]
            BY <4>1, <4>2 DEF Leaves
      <4> QED BY <1>14, <4>3
    <3>4. PICK l : l = scancode[n + 1]
          OBVIOUS
    <3>5. l \in 97 .. 122
          BY <3>1, <3>4, LettersAreSmall
    <3>6. CASE d[2] # 0
      <4>1. PICK i \in findChar(unshifted, l) : d[2] = CharAt(i, c.Shift, c.CapsLock)
            BY <1>11, <2>2, <3>4, <3>6, FunctionDoes
      <4>2. d[2] = CharAt(i, keyState.Shift, keyState.CapsLock)
            BY <1>10, <4>1
      <4>3. d[2] = IF keyState.Shift /\ ~keyState.CapsLock THEN l - 32 ELSE l
            BY <3>1, <3>2, <3>4, <4>1, <4>2, LetterIsShown
      <4>4. ev.caps <=> keyState.CapsLock
            BY <1>10, <1>14
      <4>5. l + 32 \notin Letters /\ l - 32 \notin Letters
            BY <3>5, LettersAreSmall
      <4> QED BY <3>3, <4>3, <4>4, <4>5
    <3> QED BY <3>6
  <2>7. 0 \notin Letters /\ 0 + 32 \notin Letters
        BY LettersAreSmall
  <2> QED BY <1>12, <1>14, <2>3, <2>5, <2>6, <2>7 DEF KeyIsReported
<1> QED BY <1>15, <1>16, <1>17

(***************************************************************************)
(* The steps.                                                              *)
(***************************************************************************)
LEMMA KeyboardStep ==
    ASSUME KeyboardInv, KeyIsReported, [KeyboardNext]_keyboardVars
    PROVE  KeyboardInv' /\ KeyIsReported'
<1>1. /\ held \subseteq Keys /\ recent \in held \cup {None}
      /\ wire \in Seq(Entry) /\ keyState \in KeyStatus
      /\ Clean(wire, keyState.e0_received, owner)
      BY DEF KeyboardInv, KeyboardTypeOK
<1>2. ASSUME wire # <<>>
      PROVE  Head(wire) = wire[1] /\ wire[1] \in Entry /\ Sound(wire[1])
  <2>1. Head(wire) = wire[1] /\ wire[1] \in Entry /\ 1 \in 1 .. Len(wire)
        BY <1>1, <1>2
  <2> QED BY <1>1, <2>1 DEF Clean
<1>3. event' = NoEvent => KeyIsReported'
      BY DEF KeyIsReported
<1>4. ASSUME NEW k \in Keys, Press(k)
      PROVE  KeyboardInv' /\ KeyIsReported'
  <2>1. Moves(k, FALSE, held, held \cup {k})
        BY DEF Moves
  <2>2. Send(k, FALSE, held \cup {k}) /\ recent' \in (held \cup {k}) \cup {None}
        BY <1>4 DEF Press
  <2> QED BY <1>3, <2>1, <2>2, SendKeepsInv
<1>5. CASE Repeat
  <2>1. recent \in held /\ recent \in Keys /\ held = held \cup {recent}
        BY <1>1, <1>5 DEF Repeat
  <2>2. Moves(recent, FALSE, held, held)
        BY <2>1 DEF Moves
  <2>3. Send(recent, FALSE, held) /\ recent' \in held \cup {None}
        BY <1>1, <1>5 DEF Repeat
  <2> QED BY <1>3, <2>1, <2>2, <2>3, SendKeepsInv
<1>6. ASSUME NEW k \in Keys, Release(k)
      PROVE  KeyboardInv' /\ KeyIsReported'
  <2>1. Moves(k, TRUE, held, held \ {k})
        BY DEF Moves
  <2>2. Send(k, TRUE, held \ {k}) /\ recent' \in (held \ {k}) \cup {None}
        BY <1>1, <1>6 DEF Release
  <2> QED BY <1>3, <2>1, <2>2, SendKeepsInv
<1>7. CASE LockByte
  <2>1. PICK f \in Locks : /\ Takes(ToggledBy(f))
                           /\ keyState' = [keyState EXCEPT ![f] = ~keyState[f]]
        BY <1>7 DEF LockByte
  <2>2. /\ wire # <<>> /\ wire' = Tail(wire) /\ Head(wire).byte = ToggledBy(f)
        /\ UNCHANGED hands /\ owner' = owner /\ event' = NoEvent
        BY <1>7, <2>1 DEF LockByte, Takes
  <2>3. SetsTo(keyState, keyState', f, ~keyState[f])
        BY <2>1 DEF SetsTo
  <2>4. Handles(wire[1], keyState, keyState', owner, owner)
        BY <1>1, <1>2, <2>2, <2>3, LockHandles
  <2> QED BY <1>3, <2>2, <2>4, HandledKeepsInv
<1>8. CASE ModifierByte
  <2>0. PICK f \in Modifiers : \E c \in SetBy(f) : \E r \in {0, 128} :
          /\ Takes(c + r) /\ keyState' = [keyState EXCEPT ![f] = (r = 0)]
        BY <1>8 DEF ModifierByte
  <2>1. PICK c \in SetBy(f) : \E r \in {0, 128} :
          /\ Takes(c + r) /\ keyState' = [keyState EXCEPT ![f] = (r = 0)]
        BY <2>0
  <2>1a. PICK r \in {0, 128} :
          /\ Takes(c + r) /\ keyState' = [keyState EXCEPT ![f] = (r = 0)]
        BY <2>1
  <2>2. /\ wire # <<>> /\ wire' = Tail(wire) /\ Head(wire).byte = c + r
        /\ UNCHANGED hands /\ owner' = owner /\ event' = NoEvent
        BY <1>8, <2>1a DEF ModifierByte, Takes
  <2>3. SetsTo(keyState, keyState', f, r = 0)
    <3>1. (r = 0) \in BOOLEAN
          OBVIOUS
    <3>2. keyState' = [keyState EXCEPT ![f] = (r = 0)]
          BY <2>1a
    <3> QED BY <3>1, <3>2, Zenon DEF SetsTo
  <2>4. Handles(wire[1], keyState, keyState', owner, owner)
    <3>1. PICK e, s2 : e = wire[1] /\ s2 = keyState'
          OBVIOUS
    <3>2. e \in Entry /\ Sound(e) /\ e.byte = c + r
          BY <1>2, <2>2, <3>1
    <3>3. SetsTo(keyState, s2, f, r = 0)
          BY <2>3, <3>1
    <3>4. Handles(e, keyState, s2, owner, owner)
          BY <1>1, <3>2, <3>3, ModifierHandles
    <3> QED BY <3>1, <3>4
  <2> QED BY <1>3, <2>2, <2>4, HandledKeepsInv
<1>9. CASE PrefixByte
  <2>1. /\ wire # <<>> /\ wire' = Tail(wire) /\ Head(wire).byte = PREFIX
        /\ keyState' = [keyState EXCEPT !.e0_received = TRUE]
        /\ owner' = Head(wire).key /\ UNCHANGED hands /\ event' = NoEvent
        BY <1>9 DEF PrefixByte, Takes
  <2>2. SetsPrefix(keyState, keyState', TRUE)
        BY <2>1 DEF SetsPrefix
  <2>3. Handles(wire[1], keyState, keyState', owner, wire[1].key)
        BY <1>1, <1>2, <2>1, <2>2, PrefixHandles
  <2>4. owner' = wire[1].key
        BY <1>2, <2>1
  <2> QED BY <1>3, <2>1, <2>3, <2>4, HandledKeepsInv
<1>10. CASE KeyByte
  <2>1. /\ wire # <<>> /\ wire' = Tail(wire) /\ Head(wire).byte \notin Named
        /\ keyState' = [keyState EXCEPT !.e0_received = FALSE]
        /\ UNCHANGED hands
        BY <1>10 DEF KeyByte, Deliver
  <2>2. SetsPrefix(keyState, keyState', FALSE)
        BY <2>1 DEF SetsPrefix
  <2>3. Handles(wire[1], keyState, keyState', owner, owner')
        BY <1>1, <1>2, <2>1, <2>2, KeyHandles
  <2>4. KeyboardInv'
        BY <2>1, <2>3, HandledKeepsInv
  <2> QED BY <1>10, <2>4, KeyByteReports
<1>11. CASE UNCHANGED keyboardVars
       BY <1>11 DEF keyboardVars, KeyboardInv, KeyboardTypeOK, KeyIsReported
<1> QED BY <1>4, <1>5, <1>6, <1>7, <1>8, <1>9, <1>10, <1>11 DEF KeyboardNext

LEMMA KeyboardInvariant == KeyboardSpec => [](KeyboardInv /\ KeyIsReported)
<1>1. KeyboardInit => KeyboardInv /\ KeyIsReported
      BY KeyboardInvInit DEF KeyboardInit, KeyIsReported
<1>2. (KeyboardInv /\ KeyIsReported) /\ [KeyboardNext]_keyboardVars
         => (KeyboardInv /\ KeyIsReported)'
      BY KeyboardStep
<1> QED BY <1>1, <1>2, PTL DEF KeyboardSpec

(* When every byte of the keys of a modifier was kept and has been handled,*)
(* the handler takes it for held only if a key of it is held, and for a    *)
(* modifier with one key also if: for every set of keys with codes that    *)
(* the tables have, every buffer and any number of keys held.              *)
THEOREM ModifiersFollow == KeyboardSpec => []ModifiersFollowKeys
<1>1. ASSUME KeyboardInv
      PROVE  ModifiersFollowKeys
  <2>1. ASSUME NEW f \in Modifiers, Settled(KeysOf(f))
        PROVE  /\ keyState[f] => held \cap KeysOf(f) # {}
               /\ \A k \in held : KeysOf(f) = {k} => keyState[f]
    <3>1. wire \in Seq(Entry) /\ keyState[f] \in BOOLEAN
          BY <1>1, StatusParts DEF KeyboardInv, KeyboardTypeOK
    <3>2. PICK v \in BOOLEAN :
            /\ Leaves(wire, keyState[f], f, Len(wire) + 1, v)
            /\ KeysOf(f) \cap lost = {} => Agrees(f, v, held)
          BY <1>1 DEF KeyboardInv, Follows
    <3>3. ASSUME NEW i \in 1 .. Len(wire)
          PROVE  ~Tells(f, wire[i])
      <4>1. wire[i].key \in Keys /\ i \in DOMAIN wire
            BY <3>1, EntryParts
      <4>2. wire[i].key \notin KeysOf(f)
            BY <2>1, <4>1 DEF Settled
      <4> QED BY <4>1, <4>2 DEF Tells, KeysOf
    <3>4. (Len(wire) + 1) - 1 = Len(wire)
          BY <3>1
    <3>5. v <=> keyState[f]
          BY <3>2, <3>3, <3>4 DEF Leaves
    <3>6. Agrees(f, v, held)
          BY <2>1, <3>2 DEF Settled
    <3> QED BY <3>1, <3>5, <3>6 DEF Agrees
  <2> QED BY <2>1 DEF ModifiersFollowKeys
<1> QED BY <1>1, KeyboardInvariant, PTL

(* A key is reported as itself with its prefix, and a letter in the case   *)
(* that Shift asked for when its key went down, however late the byte is   *)
(* handled and whatever was dropped before: the tables have every letter   *)
(* and its capital at the same place, and what is on the wire ahead of the *)
(* letter leaves Shift as it was.                                          *)
THEOREM KeysAreReported == KeyboardSpec => []KeyIsReported
BY KeyboardInvariant, PTL
=============================================================================
