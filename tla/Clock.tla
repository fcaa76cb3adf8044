-------------------------------- MODULE Clock --------------------------------
(***************************************************************************)
(* Reading the real-time clock (kernel/rct.c): SysGetDate and SysGetTime   *)
(* take six registers one by one from a clock that goes on.  The clock is  *)
(* not code of the kernel: its registers hold two decimal digits each, and *)
(* once a second it changes them; while it does, a register may still read *)
(* as before.  The kernel never looks at RTCSA_UIP, which tells of that.   *)
(*                                                                         *)
(* A definition whose name has an underscore and a few words after that of *)
(* another definition is that definition with a plausible mistake: the     *)
(* properties below must reject it.                                        *)
(***************************************************************************)
EXTENDS Integers, FiniteSets

CONSTANTS
    Starts,       \* the dates at which the clock may be found
    MaxSeconds    \* seconds that pass while a function reads, at most

DATE == [second : 0 .. 59, minute : 0 .. 59, hour : 0 .. 23,
         day : 1 .. 31, month : 1 .. 12, year : 0 .. 99]

DaysIn(month, year) ==
    CASE month = 2 -> IF year % 4 = 0 THEN 29 ELSE 28
      [] month \in {4, 6, 9, 11} -> 30
      [] OTHER -> 31

(* The dates that a clock shows.                                           *)
Calendar == {d \in DATE : d.day <= DaysIn(d.month, d.year)}

(* Reading a few registers takes less than a minute.                       *)
ASSUME ClockAssumption == Starts \subseteq Calendar /\ MaxSeconds \in 0 .. 59

VARIABLES
    clock,      \* the date of the clock
    before,     \* the one before, while the clock changes its registers
    passed,     \* seconds that have passed since the function began
    at,         \* "idle", the function that reads, or what it returned
    next,       \* the register it reads next
    date,       \* what it has read; the DATE d of the console
    time,       \* what SysGetTime returned
    moments,    \* history: the dates of the clock since the function began
    torn        \* history: a register was read while the clock changed

chip == <<clock, before>>
reading == <<at, next, date, time, moments, torn>>
clockVars == <<chip, passed, reading>>

ClockInit ==
    /\ clock \in Starts /\ before = clock /\ passed = 0
    /\ at = "idle" /\ next = 1
    /\ date = [second |-> 0, minute |-> 0, hour |-> 0,
               day |-> 0, month |-> 0, year |-> 0]
    /\ time = 0
    /\ moments = {} /\ torn = FALSE

-----------------------------------------------------------------------------
(***************************************************************************)
(* The clock.                                                              *)
(***************************************************************************)
(* The fields that a second carries over.                                  *)
OneSecondOn(d) ==
    LET minute == d.second = 59
        hour   == minute /\ d.minute = 59
        day    == hour /\ d.hour = 23
        month  == day /\ d.day = DaysIn(d.month, d.year)
        year   == month /\ d.month = 12
    IN  [second |-> (d.second + 1) % 60,
         minute |-> IF minute THEN (d.minute + 1) % 60 ELSE d.minute,
         hour   |-> IF hour THEN (d.hour + 1) % 24 ELSE d.hour,
         day    |-> IF month THEN 1 ELSE IF day THEN d.day + 1 ELSE d.day,
         month  |-> IF year THEN 1 ELSE IF month THEN d.month + 1 ELSE d.month,
         year   |-> IF year THEN (d.year + 1) % 100 ELSE d.year]

Reads == at \in {"SysGetDate", "SysGetTime"}

SecondPasses ==
    /\ Reads => passed < MaxSeconds
    /\ before = clock
    /\ passed' = passed + 1
    /\ clock' = OneSecondOn(clock)
    /\ moments' = moments \cup {clock'}
    /\ UNCHANGED <<before, at, next, date, time, torn>>

RegistersSettle ==
    /\ before # clock
    /\ before' = clock
    /\ UNCHANGED <<clock, passed, reading>>

BCD(n) == 16 * (n \div 10) + (n % 10)
Register(r) == {BCD(clock[r]), BCD(before[r])}

-----------------------------------------------------------------------------
(***************************************************************************)
(* SysGetDate and SysGetTime.                                              *)
(***************************************************************************)
Registers == <<"second", "minute", "hour", "day", "month", "year">>
days_per_month == <<31, 28, 31, 30, 31, 30, 31, 31, 30, 31, 30, 31>>

BCDToDec(bcdval) == (bcdval % 16) + (bcdval \div 16) * 10

Begin(function) ==
    /\ at = "idle"
    /\ at' = function /\ next' = 1 /\ passed' = 0
    /\ moments' = {clock, before} /\ torn' = FALSE
    /\ UNCHANGED <<chip, date, time>>

ReadRegister ==
    /\ Reads /\ next <= 6
    /\ \E bcd \in Register(Registers[next]) :
          date' = [date EXCEPT ![Registers[next]] = BCDToDec(bcd)]
    /\ next' = next + 1
    /\ torn' = (torn \/ before # clock)
    /\ UNCHANGED <<chip, passed, at, time, moments>>

ReadSecondsAgain_Not ==
    /\ at = "SysGetDate" /\ next = 7
    /\ at' = "date" /\ next' = 1
    /\ UNCHANGED <<chip, passed, date, time, moments, torn>>

(* The six are read again when the seconds have changed.                   *)
ReadSecondsAgain ==
    /\ at = "SysGetDate" /\ next = 7
    /\ \E bcd \in Register("second") :
          IF date.second # BCDToDec(bcd)
          THEN at' = at /\ torn' = FALSE
          ELSE at' = "date" /\ UNCHANGED torn
    /\ next' = 1
    /\ UNCHANGED <<chip, passed, date, time, moments>>

DAY == 24 * 60 * 60

(* The loop over the months, the current month counted too.                *)
DaysTo[month \in 0 .. 12] ==
    IF month = 0 THEN 0 ELSE DaysTo[month - 1] + days_per_month[month]

TimeOf_NoLeapDay(d) ==
    (d.year * 365 + (IF d.year = 0 THEN 0 ELSE (d.year - 1) \div 4)) * DAY
      + DaysTo[d.month] * DAY
      + (d.day - 1) * DAY + d.hour * 60 * 60 + d.minute * 60 + d.second

(* From the year 69 on the days overflow an int; what is left is right     *)
(* modulo 2^32.                                                            *)
TimeOf(d) ==
    (d.year * 365 + (IF d.year = 0 THEN 0 ELSE (d.year - 1) \div 4)) * DAY
      + DaysTo[d.month] * DAY
      + (IF d.month > 2 /\ d.year % 4 = 0 THEN DAY ELSE 0)
      + (d.day - 1) * DAY + d.hour * 60 * 60 + d.minute * 60 + d.second

ComputeTime ==
    /\ at = "SysGetTime" /\ next = 7
    /\ at' = "time" /\ next' = 1
    /\ time' = TimeOf(date)
    /\ UNCHANGED <<chip, passed, date, moments, torn>>

(* The console has printed it.                                             *)
Return ==
    /\ at \in {"date", "time"}
    /\ at' = "idle"
    /\ moments' = {} /\ torn' = FALSE
    /\ UNCHANGED <<chip, passed, next, date, time>>

ClockNext ==
    \/ SecondPasses \/ RegistersSettle
    \/ \E function \in {"SysGetDate", "SysGetTime"} : Begin(function)
    \/ ReadRegister \/ ReadSecondsAgain \/ ComputeTime
    \/ Return

ClockSpec == ClockInit /\ [][ClockNext]_clockVars

-----------------------------------------------------------------------------
(***************************************************************************)
(* Properties.                                                             *)
(***************************************************************************)

(* The date that SysGetDate returns is one that the clock showed while it  *)
(* read, however many seconds ended meanwhile and whatever they carried    *)
(* over: reading the seconds again is enough.  It is not when a register   *)
(* was read while the clock changed, since nobody waits for that to end.   *)
DateIsAMoment == at = "date" /\ ~torn => date \in moments

(* The days of a year before a month.                                      *)
DaysBefore(month, year) ==
    LET days[m \in 1 .. 12] ==
          IF m = 1 THEN 0 ELSE days[m - 1] + DaysIn(m - 1, year)
    IN  days[month]

(* Seconds from the start of the year 2000, counted by the calendar.       *)
SecondsSince2000(d) ==
    LET days == 365 * d.year + Cardinality({y \in 0 .. d.year - 1 : y % 4 = 0})
                  + DaysBefore(d.month, d.year) + d.day - 1
    IN  days * DAY + (d.hour * 60 + d.minute) * 60 + d.second

(* SysGetTime reads once only.  What it reads is never before the moment it*)
(* was called at, though it may be an hour or a year ahead; what it makes  *)
(* of that counts every second, with the length of the current month added *)
(* and, but for the first year, a day missing: it goes back at the end of a*)
(* month that is longer than the next.                                     *)
TimeIsNotBehind ==
    at = "time" =>
        /\ ~torn => \E m \in moments : SecondsSince2000(date) >= SecondsSince2000(m)
        /\ time = SecondsSince2000(date) + DAY * days_per_month[date.month]
                    - (IF date.year = 0 THEN 0 ELSE DAY)
=============================================================================
