------------------------------- MODULE Utils -------------------------------
(***************************************************************************)
(* The calendar of Utils.cpp, by which log files are named and cut.  The   *)
(* clock is given in hours since 1970 (UTC); time_to_tm divides it the way *)
(* the code does, minutes and seconds left out.                            *)
(***************************************************************************)
EXTENDS Integers

\* Mutant: every fourth year from 1970 is taken for the leap year.
leapFirst(i) == i = 0

\* leap_year: of four years from 1970 on the third is a leap year.
leap_year(i) == i = 2

month_days == <<31, 28, 31, 30, 31, 30, 31, 31, 30, 31, 30, 31>>

DaysOfYear(i) == IF leap_year(i) THEN 366 ELSE 365
DaysOfMonth(i, j) == IF leap_year(i) /\ j = 1 THEN 29 ELSE month_days[j + 1]

\* What the loops over years and months have subtracted when they come to i
\* and to j.
DaysBeforeYear(i) ==
    LET d(k) == IF k < i THEN DaysOfYear(k) ELSE 0
    IN  d(0) + d(1) + d(2)
DaysBeforeMonth(i, j) ==
    LET d(k) == IF k < j THEN DaysOfMonth(i, k) ELSE 0
    IN  d(0) + d(1) + d(2) + d(3) + d(4) + d(5) + d(6) + d(7) + d(8) + d(9) + d(10)

First(S) == CHOOSE x \in S : \A y \in S : x <= y

\* Both loops stop at the first year and month that are not over.  A day count
\* equal to a whole month is the first day of the next one, and one equal to a
\* whole year is first taken for a thirteenth month.
time_to_tm(hours) ==
    LET local == hours + 8
        days == local \div 24
        i == First({k \in 0..3 :
                       (days % 1461) - DaysBeforeYear(k) <= DaysOfYear(k)})
        yday == (days % 1461) - DaysBeforeYear(i)
        j == First({k \in 0..11 : yday - DaysBeforeMonth(i, k) <= DaysOfMonth(i, k)})
        over == yday - DaysBeforeMonth(i, j) = DaysOfMonth(i, j)
        mon == IF over THEN j + 1 ELSE j
    IN  [tm_hour |-> local % 24,
         tm_mday |-> IF over THEN 1 ELSE yday - DaysBeforeMonth(i, j) + 1,
         tm_mon  |-> mon % 12,
         tm_year |-> (days \div 1461) * 4 + i + 70 + mon \div 12]

\* The month counts from 0 here.
getNowDay(hours) ==
    LET t == time_to_tm(hours)
    IN  (t.tm_year + 1900) * 10000 + t.tm_mon * 100 + t.tm_mday

-----------------------------------------------------------------------------
\* The Gregorian calendar, for reference.
LeapYear(y) == y % 4 = 0 /\ (y % 100 # 0 \/ y % 400 = 0)
MonthLength(y, m) ==
    IF m \in {4, 6, 9, 11} THEN 30
    ELSE IF m # 2 THEN 31
    ELSE IF LeapYear(y) THEN 29 ELSE 28
NextDate(d) ==
    IF d.day < MonthLength(d.year, d.month) THEN [d EXCEPT !.day = @ + 1]
    ELSE IF d.month < 12 THEN [d EXCEPT !.day = 1, !.month = @ + 1]
    ELSE [year |-> d.year + 1, month |-> 1, day |-> 1]

\* The date of day d since 1970, and of the hour h of that day, in the code's
\* fixed zone.
DateOf(d, h) ==
    LET t == time_to_tm(24 * d - 8 + h)
    IN  [year |-> t.tm_year + 1900, month |-> t.tm_mon + 1, day |-> t.tm_mday]

\* tm_to_time for a day the month has.
monthbegin == <<0, 31, 59, 90, 120, 151, 181, 212, 243, 273, 304, 334>>

tm_to_time(t) ==
    LET days == monthbegin[t.tm_mon + 1] + t.tm_mday - 1
                  + (IF t.tm_year % 4 = 0 /\ t.tm_mon > 1 THEN 1 ELSE 0)
                  + 365 * (t.tm_year - 70) + (t.tm_year - 69) \div 4
    IN  24 * days + t.tm_hour - 8

\* 2100-02-28, after 130 years with 32 leap days: that year is the first that
\* is no leap year in spite of its number.
FinalDay == 130 * 365 + 32 + 58

\* What CalendarExact of MCLog says, for every hour up to that day.
CalendarFollowed ==
    /\ DateOf(0, 0) = [year |-> 1970, month |-> 1, day |-> 1]
    /\ \A d \in 0..(FinalDay - 1) :
           /\ DateOf(d + 1, 0) = NextDate(DateOf(d, 0))
           /\ DateOf(d, 23) = DateOf(d, 0)
           /\ getNowDay(24 * d - 8) < getNowDay(24 * (d + 1) - 8)
           /\ tm_to_time(time_to_tm(24 * d)) = 24 * d
=============================================================================
