--------------------------------- MODULE Clock ---------------------------------
(***************************************************************************)
(* The time the machine started: the registers of the clock chip, which    *)
(* cstart() (src/kernel/machdep.c) reads one after the other while the     *)
(* clock goes on, and mktime (src/kernel/mktime.c).  A time is a record    *)
(* [sec, min, hour, mday, mon, year]; the chip counts months from 1 and    *)
(* years in two digits, in BCD.                                            *)
(***************************************************************************)
EXTENDS Integers, Sequences

Fields == <<"sec", "min", "hour", "mday", "mon", "year">>
MINUTE == 60
HOUR == 60 * MINUTE
DAY == 24 * HOUR
YEAR == 365 * DAY

BCD_TO_BIN(val) == (val % 16) + (val \div 16) * 10

\* The months of a leap year; tm_mon counts from 0, tm_year from 1900.
month == <<0, 31, 60, 91, 121, 152, 182, 213, 244, 274, 305, 335>>
mktime(tm) ==
  LET year == tm.year - 70
  IN  YEAR * year + DAY * ((year + 1) \div 4) + DAY * month[tm.mon + 1]
        - (IF tm.mon > 1 /\ (year + 2) % 4 # 0 THEN DAY ELSE 0)
        + DAY * (tm.mday - 1) + HOUR * tm.hour + MINUTE * tm.min + tm.sec

\* tm as the registers were read.
StartupTime(tm) ==
  LET bin == [f \in DOMAIN tm |-> BCD_TO_BIN(tm[f])]
  IN  mktime([bin EXCEPT !.mon = @ - 1, !.year = IF @ + 1900 < 1970 THEN @ + 100 ELSE @])

(***************************************************************************)
(* The chip, which nothing of this repository implements: a calendar that  *)
(* goes on by a second, all its registers at once.                         *)
(***************************************************************************)
ToBcd(n) == (n \div 10) * 16 + (n % 10)
FullYear(t) == IF t.year >= 70 THEN 1900 + t.year ELSE 2000 + t.year
Leap(y) == y % 4 = 0 /\ (y % 100 # 0 \/ y % 400 = 0)
MonthLength(y, mon) == CASE mon = 2 -> IF Leap(y) THEN 29 ELSE 28 [] mon \in {4, 6, 9, 11} -> 30 [] OTHER -> 31

TickOf(t) ==
  IF t.sec < 59 THEN [t EXCEPT !.sec = @ + 1]
  ELSE IF t.min < 59 THEN [t EXCEPT !.sec = 0, !.min = @ + 1]
  ELSE LET midnight == [t EXCEPT !.sec = 0, !.min = 0]
       IN  IF t.hour < 23 THEN [midnight EXCEPT !.hour = @ + 1]
           ELSE IF t.mday < MonthLength(FullYear(t), t.mon) THEN [midnight EXCEPT !.hour = 0, !.mday = @ + 1]
           ELSE IF t.mon < 12 THEN [midnight EXCEPT !.hour = 0, !.mday = 1, !.mon = @ + 1]
           ELSE [midnight EXCEPT !.hour = 0, !.mday = 1, !.mon = 1, !.year = (@ + 1) % 100]

\* The times a machine may start at, all before 2038: 32 bits count them.
Calendar ==
  [sec : 0 .. 59, min : 0 .. 59, hour : 0 .. 23, mday : 1 .. 31, mon : 1 .. 12, year : (70 .. 99) \cup (0 .. 37)]

\* The seconds since 1970, counted year by year and month by month: what comes
\* before i is the sum of the lengths from a on.
Before(length, a, b) == LET sum[i \in a .. b] == IF i = a THEN 0 ELSE sum[i - 1] + length[i - 1] IN sum
NewYear == Before([year \in 1970 .. 2069 |-> IF Leap(year) THEN 366 ELSE 365], 1970, 2069)
FirstOf(y) == Before([mon \in 1 .. 12 |-> MonthLength(y, mon)], 1, 12)
Epoch(t) ==
  LET days == NewYear[FullYear(t)] + FirstOf(FullYear(t))[t.mon] + t.mday - 1
  IN  days * DAY + t.hour * HOUR + t.min * MINUTE + t.sec
================================================================================
