------------------------------- MODULE MCLog -------------------------------
(* Log for TLC, with the calendar of Utils, computed once for every tick.   *)
EXTENDS Log, Utils

getNowTimeStr(hours) == time_to_tm(hours).tm_hour

Times == StartTime..(StartTime + MaxTicks)
DayOf == [t \in Times |-> getNowDay(t)]
HourOf == [t \in Times |-> getNowTimeStr(t)]

DayAt(t) == DayOf[t]
HourAt(t) == HourOf[t]

\* time_to_tm follows the Gregorian calendar from 1970 to 2100 in every hour,
\* leap years and the last days of months and years, which its loops treat
\* apart, included; the number that getNowDay makes of it grows from day to
\* day; and tm_to_time is the inverse.  The clock has no part in this: it is
\* looked at once, before the program does anything.
CalendarExact ==
    (now = StartTime /\ called = 0 /\ pc = "new") => CalendarFollowed
=============================================================================
