----------------------------- MODULE Log_proofs -----------------------------
(***************************************************************************)
(* What holds of the log for every size of buffer and file, every calendar *)
(* and clock, and however many files cannot be opened; and of the calendar *)
(* for every day.                                                          *)
(***************************************************************************)
EXTENDS MCLog, SequenceTheorems, TLAPS

-----------------------------------------------------------------------------
(***************************************************************************)
(* The calendar                                                            *)
(***************************************************************************)
Years == 0..3
Months == 0..11

\* Day m of month j of year i of the four years after the first 4 * q.
Place(q, i, j, m) == 1461 * q + (DaysBeforeYear(i) + DaysBeforeMonth(i, j) + m)

IsPlace(q, i, j, m) ==
    q \in Nat /\ i \in Years /\ j \in Months /\ m \in 0..(DaysOfMonth(i, j) - 1)

\* The years in days.
LEMMA YearsFact ==
    /\ DaysBeforeYear(0) = 0 /\ DaysBeforeYear(1) = 365
    /\ DaysBeforeYear(2) = 730 /\ DaysBeforeYear(3) = 1096
    /\ DaysOfYear(0) = 365 /\ DaysOfYear(1) = 365
    /\ DaysOfYear(2) = 366 /\ DaysOfYear(3) = 365
  BY SMT DEF DaysBeforeYear, DaysOfYear, leap_year

\* The months in days.
LEMMA LengthsOfMonths ==
    ASSUME NEW i \in Years
    PROVE  /\ DaysOfMonth(i, 0) = 31 /\ DaysOfMonth(i, 1) = IF i = 2 THEN 29 ELSE 28
           /\ DaysOfMonth(i, 2) = 31 /\ DaysOfMonth(i, 3) = 30 /\ DaysOfMonth(i, 4) = 31
           /\ DaysOfMonth(i, 5) = 30 /\ DaysOfMonth(i, 6) = 31 /\ DaysOfMonth(i, 7) = 31
           /\ DaysOfMonth(i, 8) = 30 /\ DaysOfMonth(i, 9) = 31 /\ DaysOfMonth(i, 10) = 30
           /\ DaysOfMonth(i, 11) = 31
  BY SMT DEF DaysOfMonth, leap_year, month_days, Years

LEMMA MonthsFact ==
    ASSUME NEW i \in Years
    PROVE  LET leap == IF i = 2 THEN 1 ELSE 0
           IN  /\ DaysBeforeMonth(i, 0) = 0 /\ DaysBeforeMonth(i, 1) = 31
               /\ DaysBeforeMonth(i, 2) = 59 + leap /\ DaysBeforeMonth(i, 3) = 90 + leap
               /\ DaysBeforeMonth(i, 4) = 120 + leap /\ DaysBeforeMonth(i, 5) = 151 + leap
               /\ DaysBeforeMonth(i, 6) = 181 + leap /\ DaysBeforeMonth(i, 7) = 212 + leap
               /\ DaysBeforeMonth(i, 8) = 243 + leap /\ DaysBeforeMonth(i, 9) = 273 + leap
               /\ DaysBeforeMonth(i, 10) = 304 + leap /\ DaysBeforeMonth(i, 11) = 334 + leap
<1> USE LengthsOfMonths DEF DaysBeforeMonth
<1>1. DaysBeforeMonth(i, 0) = 0 /\ DaysBeforeMonth(i, 1) = 31
  BY SMT
<1>2. CASE i = 2
  BY <1>1, <1>2, SMT
<1>3. CASE i # 2
  BY <1>1, <1>3, SMT
<1>4. QED
  BY <1>2, <1>3

\* A month is not over before the next one begins, and the last one ends with
\* the year.
LEMMA MonthsFollow ==
    ASSUME NEW i \in Years, NEW j \in Months
    PROVE  /\ DaysBeforeMonth(i, j) \in Nat /\ DaysOfMonth(i, j) \in Nat
           /\ DaysOfMonth(i, j) > 27 /\ DaysOfMonth(i, j) < 32
           /\ j < 11 => DaysBeforeMonth(i, j + 1) = DaysBeforeMonth(i, j) + DaysOfMonth(i, j)
           /\ j = 11 => DaysOfYear(i) = DaysBeforeMonth(i, j) + DaysOfMonth(i, j)
<1>1. DaysOfYear(i) = IF i = 2 THEN 366 ELSE 365
  BY DEF DaysOfYear, leap_year
<1>2. j \in 0..11 /\ (j = 0 \/ j = 1 \/ j = 2 \/ j = 3 \/ j = 4 \/ j = 5 \/ j = 6 \/ j = 7
                       \/ j = 8 \/ j = 9 \/ j = 10 \/ j = 11)
  BY SMT DEF Months
<1>3. QED
  BY <1>1, <1>2, LengthsOfMonths, MonthsFact, SMT

LEMMA MonthsApart ==
    ASSUME NEW i \in Years, NEW j \in Months, NEW k \in Months, k < j
    PROVE  DaysBeforeMonth(i, j) >= DaysBeforeMonth(i, k) + DaysOfMonth(i, k)
<1>1. j \in 0..11 /\ k \in 0..11
  BY DEF Months
<1>2. (j = 1 \/ j = 2 \/ j = 3 \/ j = 4 \/ j = 5 \/ j = 6 \/ j = 7
                       \/ j = 8 \/ j = 9 \/ j = 10 \/ j = 11)
  BY <1>1, SMT
<1>3. k = 0 \/ k = 1 \/ k = 2 \/ k = 3 \/ k = 4 \/ k = 5 \/ k = 6 \/ k = 7
                       \/ k = 8 \/ k = 9 \/ k = 10
  BY <1>1, SMT
<1>4. QED
  BY <1>1, <1>2, <1>3, LengthsOfMonths, MonthsFact, SMT

LEMMA FirstFact ==
    ASSUME NEW S, S \subseteq Nat, NEW x \in S, \A y \in S : x <= y
    PROVE  First(S) = x
<1>1. \A y \in S : y <= x /\ x <= y => y = x
  OBVIOUS
<1>2. QED
  BY <1>1 DEF First

\* The year at which the first loop stops: the first day of a year is the last
\* one, and one too many, of the year before.
YearStop(i, rest) == IF rest = 0 /\ i > 0 THEN i - 1 ELSE i

LEMMA YearFact ==
    ASSUME NEW i \in Years, NEW rest \in Nat, rest < DaysOfYear(i)
    PROVE  First({k \in 0..3 : (DaysBeforeYear(i) + rest) - DaysBeforeYear(k) <= DaysOfYear(k)})
              = YearStop(i, rest)
<1> DEFINE S == {k \in 0..3 : (DaysBeforeYear(i) + rest) - DaysBeforeYear(k) <= DaysOfYear(k)}
<1>1. i \in 0..3 /\ (i = 0 \/ i = 1 \/ i = 2 \/ i = 3)
  BY DEF Years
<1>2. YearStop(i, rest) \in S
  BY <1>1, YearsFact DEF YearStop
<1>3. ASSUME NEW y \in S
      PROVE  YearStop(i, rest) <= y
  <2>1. y \in 0..3 /\ (y = 0 \/ y = 1 \/ y = 2 \/ y = 3)
          /\ (DaysBeforeYear(i) + rest) - DaysBeforeYear(y) <= DaysOfYear(y)
    OBVIOUS
  <2>2. QED
    BY <1>1, <2>1, YearsFact DEF YearStop
<1>4. S \subseteq Nat
  OBVIOUS
<1> HIDE DEF S
<1>5. First(S) = YearStop(i, rest)
  BY <1>2, <1>3, <1>4, FirstFact
<1>6. QED
  BY <1>5 DEF S

\* The same for the months of a year.
MonthStop(j, m) == IF m = 0 /\ j > 0 THEN j - 1 ELSE j

LEMMA MonthFact ==
    ASSUME NEW i \in Years, NEW j \in Months, NEW m \in 0..(DaysOfMonth(i, j) - 1)
    PROVE  First({k \in 0..11 : (DaysBeforeMonth(i, j) + m) - DaysBeforeMonth(i, k)
                                   <= DaysOfMonth(i, k)})
              = MonthStop(j, m)
<1> DEFINE S == {k \in 0..11 : (DaysBeforeMonth(i, j) + m) - DaysBeforeMonth(i, k)
                                   <= DaysOfMonth(i, k)}
<1>1. /\ j \in 0..11 /\ DaysBeforeMonth(i, j) \in Nat /\ DaysOfMonth(i, j) \in Nat /\ m \in Nat
      /\ m < DaysOfMonth(i, j)
  BY MonthsFollow DEF Months
<1>2. MonthStop(j, m) \in S
  <2>1. CASE m = 0 /\ j > 0
    <3>1. j - 1 \in Months /\ j - 1 < 11 /\ (j - 1) + 1 = j
      BY <1>1, <2>1 DEF Months
    <3>2. DaysBeforeMonth(i, (j - 1) + 1) = DaysBeforeMonth(i, j - 1) + DaysOfMonth(i, j - 1)
      BY <3>1, MonthsFollow
    <3>3. DaysBeforeMonth(i, j - 1) \in Nat /\ DaysOfMonth(i, j - 1) \in Nat
      BY <3>1, MonthsFollow
    <3>4. QED
      BY <1>1, <2>1, <3>1, <3>2, <3>3 DEF MonthStop, Months
  <2>2. CASE ~(m = 0 /\ j > 0)
    BY <1>1, <2>2 DEF MonthStop
  <2>3. QED
    BY <2>1, <2>2
<1>3. ASSUME NEW y \in S
      PROVE  MonthStop(j, m) <= y
  <2>1. y \in Months /\ y \in 0..11
          /\ (DaysBeforeMonth(i, j) + m) - DaysBeforeMonth(i, y) <= DaysOfMonth(i, y)
    BY DEF Months
  <2>2. DaysBeforeMonth(i, y) \in Nat /\ DaysOfMonth(i, y) \in Nat
    BY <2>1, MonthsFollow
  <2>3. CASE y >= j
    BY <1>1, <2>1, <2>3 DEF MonthStop
  <2>4. CASE y < j
    <3>1. DaysBeforeMonth(i, j) >= DaysBeforeMonth(i, y) + DaysOfMonth(i, y)
      BY <2>1, <2>4, MonthsApart
    <3>2. m = 0
      BY <1>1, <2>1, <2>2, <3>1
    <3>3. y >= j - 1
      <4>1. SUFFICES ASSUME y < j - 1
                     PROVE  FALSE
        BY <1>1, <2>1
      <4>2. j - 1 \in Months /\ (j - 1) + 1 = j /\ j - 1 < 11
        BY <1>1, <2>1, <4>1 DEF Months
      <4>3. DaysBeforeMonth(i, j - 1) >= DaysBeforeMonth(i, y) + DaysOfMonth(i, y)
        BY <2>1, <4>1, <4>2, MonthsApart
      <4>4. DaysBeforeMonth(i, (j - 1) + 1) = DaysBeforeMonth(i, j - 1) + DaysOfMonth(i, j - 1)
              /\ DaysOfMonth(i, j - 1) > 27
              /\ DaysBeforeMonth(i, j - 1) \in Nat /\ DaysOfMonth(i, j - 1) \in Nat
        BY <4>2, MonthsFollow
      <4>5. QED
        BY <1>1, <2>1, <2>2, <4>2, <4>3, <4>4
    <3>4. QED
      BY <1>1, <2>1, <2>4, <3>2, <3>3 DEF MonthStop
  <2>5. QED
    BY <1>1, <2>1, <2>3, <2>4
<1>4. S \subseteq Nat
  OBVIOUS
<1> HIDE DEF S
<1>5. First(S) = MonthStop(j, m)
  BY <1>2, <1>3, <1>4, FirstFact
<1>6. QED
  BY <1>5 DEF S

LEMMA PlaceFact ==
    ASSUME NEW q, NEW i, NEW j, NEW m, IsPlace(q, i, j, m)
    PROVE  LET d == Place(q, i, j, m)
               rest == DaysBeforeMonth(i, j) + m
           IN  /\ d \in Nat /\ rest \in Nat /\ rest < DaysOfYear(i)
               /\ d % 1461 = DaysBeforeYear(i) + rest
               /\ d \div 1461 = q
<1>1. q \in Nat /\ i \in Years /\ j \in Months /\ m \in Nat /\ m < DaysOfMonth(i, j)
  <2>1. i \in Years /\ j \in Months /\ m \in 0..(DaysOfMonth(i, j) - 1) /\ q \in Nat
    BY DEF IsPlace
  <2>2. QED
    BY <2>1, MonthsFollow
<1>2. /\ DaysBeforeMonth(i, j) \in Nat /\ DaysOfMonth(i, j) \in Nat
  BY <1>1, MonthsFollow
<1>3. PICK rest \in Nat : rest = DaysBeforeMonth(i, j) + m
  BY <1>1, <1>2
<1>4. DaysBeforeMonth(i, j) + DaysOfMonth(i, j) <= DaysOfYear(i)
  <2>1. CASE j = 11
    BY <1>1, <1>2, <2>1, MonthsFollow
  <2>2. CASE j # 11
    <3>1. 11 \in Months /\ j < 11
      BY <1>1, <2>2 DEF Months
    <3>2. DaysBeforeMonth(i, 11) >= DaysBeforeMonth(i, j) + DaysOfMonth(i, j)
      BY <1>1, <3>1, MonthsApart
    <3>3. DaysOfYear(i) = DaysBeforeMonth(i, 11) + DaysOfMonth(i, 11)
            /\ DaysBeforeMonth(i, 11) \in Nat /\ DaysOfMonth(i, 11) \in Nat
      BY <1>1, <3>1, MonthsFollow
    <3>4. QED
      BY <1>2, <3>2, <3>3
  <2>3. QED
    BY <2>1, <2>2
<1>5. DaysOfYear(i) \in Nat /\ DaysBeforeYear(i) \in Nat /\ DaysBeforeYear(i) + DaysOfYear(i) <= 1461
  BY <1>1, YearsFact DEF Years
<1>6. rest < DaysOfYear(i)
  BY <1>1, <1>2, <1>3, <1>4, <1>5
<1>7. PICK r \in Nat : r = DaysBeforeYear(i) + rest /\ r < 1461
  BY <1>5, <1>6
<1>8. (1461 * q + r) \in Nat /\ (1461 * q + r) % 1461 = r /\ (1461 * q + r) \div 1461 = q
  BY <1>1, <1>7
<1>9. Place(q, i, j, m) = 1461 * q + r
  <2>1. DaysBeforeYear(i) + DaysBeforeMonth(i, j) + m = DaysBeforeYear(i) + rest
    BY <1>1, <1>2, <1>3, <1>5
  <2>2. QED
    BY <1>7, <2>1 DEF Place
<1>10. QED
  BY <1>3, <1>6, <1>7, <1>8, <1>9

\* The time of hour h of a day.
IsTime(t, q, i, j, m, h) ==
    t = [tm_hour |-> h, tm_mday |-> m + 1, tm_mon |-> j, tm_year |-> 4 * q + i + 70]

\* time_to_tm in every hour of every day.
LEMMA TimeFact ==
    ASSUME NEW q, NEW i, NEW j, NEW m, IsPlace(q, i, j, m), NEW h \in 0..23
    PROVE  IsTime(time_to_tm(24 * Place(q, i, j, m) - 8 + h), q, i, j, m, h)
<1>1. q \in Nat /\ i \in Years /\ i \in 0..3 /\ j \in Months /\ j \in 0..11
        /\ m \in 0..(DaysOfMonth(i, j) - 1)
  BY DEF IsPlace, Years, Months
<1>2. /\ DaysBeforeMonth(i, j) \in Nat /\ DaysOfMonth(i, j) \in Nat
      /\ m \in Nat /\ m < DaysOfMonth(i, j)
  BY <1>1, MonthsFollow
<1>3. PICK d \in Nat : d = Place(q, i, j, m)
  BY PlaceFact
<1>4. PICK rest \in Nat : rest = DaysBeforeMonth(i, j) + m
  BY <1>2
<1>5. d % 1461 = DaysBeforeYear(i) + rest /\ d \div 1461 = q /\ rest < DaysOfYear(i)
  BY <1>3, <1>4, PlaceFact
<1> DEFINE hours == 24 * d - 8 + h
<1> DEFINE local == hours + 8
<1> DEFINE days == local \div 24
<1> DEFINE y == First({k \in 0..3 :
                          (days % 1461) - DaysBeforeYear(k) <= DaysOfYear(k)})
<1> DEFINE yday == (days % 1461) - DaysBeforeYear(y)
<1> DEFINE n == First({k \in 0..11 : yday - DaysBeforeMonth(y, k) <= DaysOfMonth(y, k)})
<1> DEFINE over == yday - DaysBeforeMonth(y, n) = DaysOfMonth(y, n)
<1> DEFINE mon == IF over THEN n + 1 ELSE n
<1>6. time_to_tm(hours) = [tm_hour |-> local % 24,
                           tm_mday |-> IF over THEN 1 ELSE yday - DaysBeforeMonth(y, n) + 1,
                           tm_mon  |-> mon % 12,
                           tm_year |-> (days \div 1461) * 4 + y + 70 + mon \div 12]
  BY DEF time_to_tm
<1>7. days = d /\ local % 24 = h
  OBVIOUS
<1> HIDE DEF days, local, hours
<1>8. y = YearStop(i, rest)
  BY <1>1, <1>5, <1>7, YearFact
<1> HIDE DEF y
<1>9. (IF over THEN 1 ELSE yday - DaysBeforeMonth(y, n) + 1) = m + 1
        /\ mon % 12 = j /\ y + mon \div 12 = i /\ y \in Nat /\ mon \in Nat
  <2>1. CASE rest = 0 /\ i > 0
    <3>1. m = 0 /\ j = 0
      <4>1. m = 0 /\ DaysBeforeMonth(i, j) = 0
        BY <1>2, <1>4, <2>1
      <4>2. j > 0 => DaysBeforeMonth(i, j) >= DaysBeforeMonth(i, 0) + DaysOfMonth(i, 0)
        BY <1>1, MonthsApart DEF Months
      <4>3. QED
        BY <1>1, <4>1, <4>2, MonthsFact, LengthsOfMonths
    <3>2. y = i - 1 /\ y \in Years
      BY <1>1, <1>8, <2>1 DEF YearStop, Years
    <3>3. yday = DaysOfYear(y)
      BY <1>1, <1>5, <1>7, <2>1, <3>2, YearsFact
    <3>4. PICK l \in Months : l = 11
      BY DEF Months
    <3>5. yday = DaysBeforeMonth(y, l) + DaysOfMonth(y, l)
            /\ DaysBeforeMonth(y, l) \in Nat /\ DaysOfMonth(y, l) \in Nat
      BY <3>2, <3>3, <3>4, MonthsFollow
    <3> HIDE DEF yday
    <3>6. n = l
      <4>1. l \in {k \in 0..11 : yday - DaysBeforeMonth(y, k) <= DaysOfMonth(y, k)}
        BY <3>4, <3>5
      <4>2. ASSUME NEW k \in 0..11, yday - DaysBeforeMonth(y, k) <= DaysOfMonth(y, k)
            PROVE  l <= k
        <5>1. SUFFICES ASSUME k < l
                       PROVE  FALSE
          BY <3>4
        <5>2. k \in Months
          BY DEF Months
        <5>3. DaysBeforeMonth(y, l) >= DaysBeforeMonth(y, k) + DaysOfMonth(y, k)
          BY <3>2, <5>1, <5>2, MonthsApart
        <5>4. DaysOfMonth(y, l) > 27 /\ DaysBeforeMonth(y, k) \in Nat /\ DaysOfMonth(y, k) \in Nat
          BY <3>2, <5>2, MonthsFollow
        <5>5. QED
          BY <3>5, <4>2, <5>3, <5>4
      <4>3. QED
        BY <4>1, <4>2, FirstFact
    <3> HIDE DEF n
    <3>7. over /\ mon = 12
      BY <3>4, <3>5, <3>6
    <3> HIDE DEF over, mon
    <3>8. mon % 12 = j /\ y + mon \div 12 = i /\ y \in Nat /\ mon \in Nat
      <4>1. mon % 12 = 0 /\ mon \div 12 = 1
        BY <3>7
      <4>2. QED
        BY <1>1, <3>1, <3>2, <3>7, <4>1 DEF Years
    <3>9. QED
      BY <3>1, <3>7, <3>8
  <2>2. CASE ~(rest = 0 /\ i > 0)
    <3>1. y = i
      BY <1>8, <2>2 DEF YearStop
    <3>2. yday = DaysBeforeMonth(i, j) + m
      BY <1>1, <1>4, <1>5, <1>7, <3>1, YearsFact
    <3> HIDE DEF yday
    <3>3. n = MonthStop(j, m)
      BY <1>1, <3>1, <3>2, MonthFact
    <3> HIDE DEF n
    <3>4. CASE m = 0 /\ j > 0
      <4>1. n = j - 1 /\ n \in Months /\ n < 11 /\ n + 1 = j
        BY <1>1, <3>3, <3>4 DEF MonthStop, Months
      <4>2. DaysBeforeMonth(i, n + 1) = DaysBeforeMonth(i, n) + DaysOfMonth(i, n)
              /\ DaysBeforeMonth(i, n) \in Nat /\ DaysOfMonth(i, n) \in Nat
        BY <1>1, <4>1, MonthsFollow
      <4>3. over /\ mon = j
        BY <1>1, <1>2, <3>1, <3>2, <3>4, <4>1, <4>2
      <4>4. QED
        BY <1>1, <3>1, <3>4, <4>3
    <3>5. CASE ~(m = 0 /\ j > 0)
      <4>1. n = j
        BY <3>3, <3>5 DEF MonthStop
      <4>2. ~over /\ mon = j /\ yday - DaysBeforeMonth(y, n) + 1 = m + 1
        BY <1>1, <1>2, <3>1, <3>2, <4>1
      <4>3. QED
        BY <1>1, <3>1, <4>2
    <3>6. QED
      BY <3>4, <3>5
  <2>3. QED
    BY <2>1, <2>2
<1> HIDE DEF mon, over, n, yday
<1>10. (days \div 1461) * 4 + y + 70 + mon \div 12 = 4 * q + i + 70
  BY <1>1, <1>5, <1>7, <1>9
<1>11. QED
  BY <1>3, <1>6, <1>7, <1>9, <1>10 DEF hours, IsTime

\* Every day is at one place.
LEMMA MonthOf ==
    ASSUME NEW i \in Years, NEW yday \in Nat, yday < DaysOfYear(i)
    PROVE  \E j \in Months : \E m \in 0..(DaysOfMonth(i, j) - 1) :
               yday = DaysBeforeMonth(i, j) + m
<1> DEFINE In(j) == DaysBeforeMonth(i, j) <= yday /\ yday < DaysBeforeMonth(i, j) + DaysOfMonth(i, j)
<1>1. DaysOfYear(i) = IF i = 2 THEN 366 ELSE 365
  BY DEF DaysOfYear, leap_year
<1>2. \/ In(0) \/ In(1) \/ In(2) \/ In(3) \/ In(4) \/ In(5) \/ In(6) \/ In(7) \/ In(8)
      \/ In(9) \/ In(10) \/ In(11)
  BY <1>1, LengthsOfMonths, MonthsFact, SMT
<1>3. \E j \in Months : In(j)
  BY <1>2, SMT DEF Months
<1>4. PICK j \in Months : In(j)
  BY <1>3
<1>5. DaysBeforeMonth(i, j) \in Nat /\ DaysOfMonth(i, j) \in Nat
  BY MonthsFollow
<1>6. PICK m \in Nat : m = yday - DaysBeforeMonth(i, j)
  BY <1>4, <1>5
<1>7. m \in 0..(DaysOfMonth(i, j) - 1) /\ yday = DaysBeforeMonth(i, j) + m
  BY <1>4, <1>5, <1>6
<1>8. QED
  BY <1>7

LEMMA PlaceOf ==
    ASSUME NEW d \in Nat
    PROVE  \E q, i, j, m : IsPlace(q, i, j, m) /\ d = Place(q, i, j, m)
<1>1. PICK q \in Nat, r \in 0..1460 : d = 1461 * q + r
  <2>1. d \div 1461 \in Nat /\ d % 1461 \in 0..1460 /\ d = 1461 * (d \div 1461) + (d % 1461)
    OBVIOUS
  <2>2. QED
    BY <2>1
<1>2. PICK i \in Years : DaysBeforeYear(i) <= r /\ r < DaysBeforeYear(i) + DaysOfYear(i)
  <2>1. 0 \in Years /\ 1 \in Years /\ 2 \in Years /\ 3 \in Years
    BY DEF Years
  <2>2. CASE r < 365
    BY <2>1, <2>2, YearsFact
  <2>3. CASE 365 <= r /\ r < 730
    BY <2>1, <2>3, YearsFact
  <2>4. CASE 730 <= r /\ r < 1096
    BY <2>1, <2>4, YearsFact
  <2>5. CASE 1096 <= r
    BY <2>1, <2>5, YearsFact
  <2>6. QED
    BY <2>2, <2>3, <2>4, <2>5
<1>3. DaysBeforeYear(i) \in Nat /\ DaysOfYear(i) \in Nat
  BY YearsFact DEF Years
<1>4. PICK yday \in Nat : yday = r - DaysBeforeYear(i) /\ yday < DaysOfYear(i)
  BY <1>2, <1>3
<1>5. PICK j \in Months : \E m \in 0..(DaysOfMonth(i, j) - 1) :
               yday = DaysBeforeMonth(i, j) + m
  BY <1>4, MonthOf
<1>6. PICK m \in 0..(DaysOfMonth(i, j) - 1) : yday = DaysBeforeMonth(i, j) + m
  BY <1>5
<1>7. IsPlace(q, i, j, m)
  BY DEF IsPlace
<1>8. DaysBeforeMonth(i, j) \in Nat /\ DaysOfMonth(i, j) \in Nat
  BY MonthsFollow
<1>9. d = Place(q, i, j, m)
  BY <1>1, <1>3, <1>4, <1>6, <1>8 DEF Place
<1>10. QED
  BY <1>7, <1>9

\* Where the next day is.
NextPlace(q, i, j, m, r, k, l, n) ==
    \/ m + 1 < DaysOfMonth(i, j) /\ r = q /\ k = i /\ l = j /\ n = m + 1
    \/ m + 1 = DaysOfMonth(i, j) /\ j < 11 /\ r = q /\ k = i /\ l = j + 1 /\ n = 0
    \/ m + 1 = DaysOfMonth(i, j) /\ j = 11 /\ i < 3 /\ r = q /\ k = i + 1 /\ l = 0 /\ n = 0
    \/ m + 1 = DaysOfMonth(i, j) /\ j = 11 /\ i = 3 /\ r = q + 1 /\ k = 0 /\ l = 0 /\ n = 0

LEMMA NextPlaceFact ==
    ASSUME NEW q, NEW i, NEW j, NEW m, IsPlace(q, i, j, m)
    PROVE  \E r, k, l, n :
               /\ IsPlace(r, k, l, n) /\ NextPlace(q, i, j, m, r, k, l, n)
               /\ Place(q, i, j, m) + 1 = Place(r, k, l, n)
<1>1. q \in Nat /\ i \in Years /\ i \in 0..3 /\ j \in Months /\ j \in 0..11
        /\ m \in 0..(DaysOfMonth(i, j) - 1)
  BY DEF IsPlace, Years, Months
<1>2. /\ DaysBeforeMonth(i, j) \in Nat /\ DaysOfMonth(i, j) \in Nat
      /\ m \in Nat /\ m < DaysOfMonth(i, j)
  BY <1>1, MonthsFollow
<1>3. \A k \in 0..3 : DaysBeforeYear(k) \in Nat /\ DaysOfYear(k) \in Nat
  BY YearsFact
<1>4. i < 3 => DaysBeforeYear(i + 1) = DaysBeforeYear(i) + DaysOfYear(i)
  BY <1>1, YearsFact
<1>5. CASE m + 1 < DaysOfMonth(i, j)
  <2>1. IsPlace(q, i, j, m + 1)
    BY <1>1, <1>2, <1>5 DEF IsPlace
  <2>2. Place(q, i, j, m) + 1 = Place(q, i, j, m + 1)
    BY <1>1, <1>2, <1>3 DEF Place
  <2>3. QED
    BY <1>5, <2>1, <2>2 DEF NextPlace
<1>6. CASE m + 1 = DaysOfMonth(i, j) /\ j < 11
  <2>1. j + 1 \in Months
    BY <1>1, <1>6 DEF Months
  <2>2. DaysOfMonth(i, j + 1) > 27 /\ DaysOfMonth(i, j + 1) \in Nat
    BY <1>1, <2>1, MonthsFollow
  <2>3. IsPlace(q, i, j + 1, 0)
    BY <1>1, <2>1, <2>2 DEF IsPlace
  <2>4. DaysBeforeMonth(i, j + 1) = DaysBeforeMonth(i, j) + DaysOfMonth(i, j)
    BY <1>1, <1>6, MonthsFollow
  <2>5. Place(q, i, j, m) + 1 = Place(q, i, j + 1, 0)
    BY <1>1, <1>2, <1>3, <1>6, <2>4 DEF Place
  <2>6. QED
    BY <1>6, <2>3, <2>5 DEF NextPlace
<1>7. CASE m + 1 = DaysOfMonth(i, j) /\ j = 11
  <2>1. DaysOfYear(i) = DaysBeforeMonth(i, j) + DaysOfMonth(i, j)
    BY <1>1, <1>7, MonthsFollow
  <2>2. \A k \in Years : DaysBeforeMonth(k, 0) = 0 /\ DaysOfMonth(k, 0) = 31
    BY MonthsFact, LengthsOfMonths
  <2>3. \A k \in Years, r \in Nat : IsPlace(r, k, 0, 0)
    BY <2>2, SMT DEF IsPlace, Months
  <2>4. CASE i < 3
    <3>1. i + 1 \in Years
      BY <1>1, <2>4 DEF Years
    <3>2. DaysBeforeMonth(i + 1, 0) = 0
      BY <2>2, <3>1
    <3>3. Place(q, i, j, m) + 1 = Place(q, i + 1, 0, 0)
      BY <1>1, <1>2, <1>3, <1>4, <1>7, <2>1, <2>4, <3>2 DEF Place
    <3>4. IsPlace(q, i + 1, 0, 0)
      BY <1>1, <2>3, <3>1
    <3>5. QED
      BY <1>7, <2>4, <3>3, <3>4 DEF NextPlace
  <2>5. CASE i = 3
    <3>1. 0 \in Years
      BY DEF Years
    <3>2. DaysBeforeMonth(0, 0) = 0 /\ DaysBeforeYear(0) = 0
      BY <2>2, <3>1, YearsFact
    <3>3. DaysBeforeYear(i) + DaysOfYear(i) = 1461
      BY <2>5, YearsFact
    <3>4. Place(q, i, j, m) + 1 = Place(q + 1, 0, 0, 0)
      <4>1. DaysBeforeYear(i) \in Nat /\ DaysOfYear(i) \in Nat
        BY <1>1, <1>3
      <4>2. DaysBeforeYear(i) + DaysBeforeMonth(i, j) + m + 1 = 1461
        BY <1>2, <1>7, <2>1, <3>3, <4>1
      <4>3. Place(q + 1, 0, 0, 0) = 1461 * (q + 1)
        BY <1>1, <3>2 DEF Place
      <4>4. QED
        BY <1>1, <1>2, <4>1, <4>2, <4>3 DEF Place
    <3>5. IsPlace(q + 1, 0, 0, 0)
      BY <1>1, <2>3, <3>1
    <3>6. QED
      BY <1>7, <2>5, <3>4, <3>5 DEF NextPlace
  <2>6. QED
    BY <1>1, <2>4, <2>5
<1>8. QED
  BY <1>1, <1>2, <1>5, <1>6, <1>7

\* The date of each hour, and the number that getNowDay makes of it.
LEMMA DateFact ==
    ASSUME NEW q, NEW i, NEW j, NEW m, IsPlace(q, i, j, m), NEW h \in 0..23
    PROVE  /\ DateOf(Place(q, i, j, m), h)
                 = [year |-> 1970 + 4 * q + i, month |-> j + 1, day |-> m + 1]
           /\ getNowDay(24 * Place(q, i, j, m) - 8 + h)
                 = (1970 + 4 * q + i) * 10000 + j * 100 + m + 1
<1>1. q \in Nat /\ i \in 0..3 /\ j \in 0..11 /\ m \in Nat
  BY MonthsFollow DEF IsPlace, Years, Months
<1> DEFINE t == time_to_tm(24 * Place(q, i, j, m) - 8 + h)
<1>2. IsTime(t, q, i, j, m, h)
  BY TimeFact
<1> HIDE DEF t
<1>3. t.tm_year + 1900 = 1970 + 4 * q + i /\ t.tm_mon = j /\ t.tm_mday = m + 1
  BY <1>1, <1>2 DEF IsTime
<1>4. DateOf(Place(q, i, j, m), h)
         = [year |-> t.tm_year + 1900, month |-> t.tm_mon + 1, day |-> t.tm_mday]
  BY DEF DateOf, t
<1>5. getNowDay(24 * Place(q, i, j, m) - 8 + h)
         = (t.tm_year + 1900) * 10000 + t.tm_mon * 100 + t.tm_mday
  BY DEF getNowDay, t
<1>6. getNowDay(24 * Place(q, i, j, m) - 8 + h) = (1970 + 4 * q + i) * 10000 + j * 100 + (m + 1)
  BY <1>3, <1>5
<1>7. (1970 + 4 * q + i) * 10000 + j * 100 + (m + 1) = (1970 + 4 * q + i) * 10000 + j * 100 + m + 1
  BY <1>1
<1>8. QED
  BY <1>3, <1>4, <1>6, <1>7

\* tm_to_time is the inverse of time_to_tm, in every hour of every day.
LEMMA InverseFact ==
    ASSUME NEW q, NEW i, NEW j, NEW m, IsPlace(q, i, j, m), NEW h \in 0..23
    PROVE  tm_to_time(time_to_tm(24 * Place(q, i, j, m) - 8 + h)) = 24 * Place(q, i, j, m) - 8 + h
<1>1. q \in Nat /\ i \in Years /\ i \in 0..3 /\ j \in Months /\ j \in 0..11 /\ m \in Nat
  BY MonthsFollow DEF IsPlace, Years, Months
<1> DEFINE t == time_to_tm(24 * Place(q, i, j, m) - 8 + h)
<1>2. IsTime(t, q, i, j, m, h)
  BY TimeFact
<1> HIDE DEF t
<1>3. t.tm_hour = h /\ t.tm_mday = m + 1 /\ t.tm_mon = j /\ t.tm_year = 4 * q + i + 70
  BY <1>2 DEF IsTime
<1> DEFINE leap == IF t.tm_year % 4 = 0 /\ t.tm_mon > 1 THEN 1 ELSE 0
<1> DEFINE days == monthbegin[t.tm_mon + 1] + t.tm_mday - 1 + leap
                     + 365 * (t.tm_year - 70) + (t.tm_year - 69) \div 4
<1>4. tm_to_time(t) = 24 * days + t.tm_hour - 8
  BY DEF tm_to_time
<1>5. leap = IF i = 2 /\ j > 1 THEN 1 ELSE 0
  <2>1. (4 * q + i + 70) % 4 = 0 <=> i = 2
    BY <1>1
  <2>2. QED
    BY <1>1, <1>3, <2>1
<1> HIDE DEF leap
<1>6. monthbegin[j + 1] + leap = DaysBeforeMonth(i, j) /\ monthbegin[j + 1] \in Nat /\ leap \in Nat
  <2>1. \/ j = 0 \/ j = 1 \/ j = 2 \/ j = 3 \/ j = 4 \/ j = 5 \/ j = 6 \/ j = 7 \/ j = 8 \/ j = 9
        \/ j = 10 \/ j = 11
    BY <1>1
  <2>2. QED
    BY <1>1, <1>5, <2>1, MonthsFact, SMT DEF monthbegin
<1>7. 365 * (4 * q + i) + (4 * q + i + 1) \div 4 = 1461 * q + DaysBeforeYear(i)
  <2>1. i = 0 \/ i = 1 \/ i = 2 \/ i = 3
    BY <1>1
  <2>2. (4 * q + i + 1) \div 4 = q + (IF i = 3 THEN 1 ELSE 0)
    BY <1>1
  <2>3. QED
    BY <1>1, <2>1, <2>2, YearsFact
<1>8. DaysBeforeYear(i) \in Nat /\ DaysBeforeMonth(i, j) \in Nat
  BY <1>1, YearsFact, MonthsFollow
<1>9. days = Place(q, i, j, m)
  <2>1. t.tm_year - 70 = 4 * q + i /\ t.tm_year - 69 = 4 * q + i + 1
    BY <1>1, <1>3
  <2>2. PICK x \in Int : x = (4 * q + i + 1) \div 4
    BY <1>1
  <2>3. days = monthbegin[j + 1] + (m + 1) - 1 + leap + 365 * (4 * q + i) + x
    BY <1>3, <2>1, <2>2
  <2>4. days = DaysBeforeMonth(i, j) + m + (1461 * q + DaysBeforeYear(i))
    BY <1>1, <1>6, <1>7, <1>8, <2>2, <2>3
  <2>5. QED
    BY <1>1, <1>8, <2>4 DEF Place
<1> HIDE DEF days
<1>10. 24 * Place(q, i, j, m) - 8 + h = 24 * Place(q, i, j, m) + h - 8
  BY <1>1, PlaceFact
<1>11. QED
  BY <1>3, <1>4, <1>9, <1>10 DEF t

\* The months of the code are those of the Gregorian calendar, up to the year
\* 2100.
LEMMA GregorianFact ==
    ASSUME NEW q, NEW i, NEW j, NEW m, IsPlace(q, i, j, m), Place(q, i, j, m) < FinalDay
    PROVE  \/ MonthLength(1970 + 4 * q + i, j + 1) = DaysOfMonth(i, j)
           \/ m + 1 < MonthLength(1970 + 4 * q + i, j + 1) /\ m + 1 < DaysOfMonth(i, j)
<1>1. q \in Nat /\ i \in Years /\ i \in 0..3 /\ j \in Months /\ j \in 0..11 /\ m \in Nat
  BY MonthsFollow DEF IsPlace, Years, Months
<1>2. DaysBeforeYear(i) \in Nat /\ DaysBeforeMonth(i, j) \in Nat /\ DaysOfMonth(i, j) \in Nat
  BY <1>1, YearsFact, MonthsFollow
<1>3. 1461 * q + DaysBeforeYear(i) + DaysBeforeMonth(i, j) + m < 47540
  BY <1>1, <1>2 DEF Place, FinalDay
<1>4. q < 33
  BY <1>1, <1>2, <1>3
<1>5. CASE j # 1
  <2>1. \/ j = 0 \/ j = 2 \/ j = 3 \/ j = 4 \/ j = 5 \/ j = 6 \/ j = 7 \/ j = 8 \/ j = 9
        \/ j = 10 \/ j = 11
    BY <1>1, <1>5
  <2>2. QED
    BY <1>1, <2>1, LengthsOfMonths, SMT DEF MonthLength
<1>6. CASE j = 1
  <2>1. DaysOfMonth(i, j) = (IF i = 2 THEN 29 ELSE 28) /\ DaysBeforeMonth(i, j) = 31
    BY <1>1, <1>6, LengthsOfMonths, MonthsFact
  <2>2. PICK y \in Nat : y = 1970 + 4 * q + i
    BY <1>1
  <2>3. MonthLength(y, j + 1) = IF LeapYear(y) THEN 29 ELSE 28
    BY <1>6, SMT DEF MonthLength
  <2>4. y % 4 = 0 <=> i = 2
    BY <1>1, <2>2
  <2>5. CASE i # 2
    BY <2>1, <2>2, <2>3, <2>4, <2>5 DEF LeapYear
  <2>6. CASE i = 2 /\ q < 32
    <3>1. y < 2100 /\ y > 1970
      BY <1>1, <2>2, <2>6
    <3>2. y % 100 = 0 => y = 2000
      BY <3>1
    <3>3. 2000 % 400 = 0
      OBVIOUS
    <3>4. LeapYear(y)
      BY <2>4, <2>6, <3>2, <3>3 DEF LeapYear
    <3>5. QED
      BY <2>1, <2>2, <2>3, <2>6, <3>4
  <2>7. CASE i = 2 /\ q = 32
    <3>1. DaysBeforeYear(i) = 730
      BY <2>7, YearsFact
    <3>2. m < 27
      BY <1>1, <1>3, <2>1, <2>7, <3>1
    <3>3. MonthLength(y, j + 1) \in {28, 29}
      BY <2>3
    <3>4. QED
      BY <1>1, <2>1, <2>2, <2>7, <3>2, <3>3
  <2>8. QED
    BY <1>1, <1>4, <2>5, <2>6, <2>7
<1>7. QED
  BY <1>5, <1>6

LEMMA NextDateFact ==
    ASSUME NEW y, NEW j, NEW m
    PROVE  NextDate([year |-> y, month |-> j, day |-> m])
              = IF m < MonthLength(y, j) THEN [year |-> y, month |-> j, day |-> m + 1]
                ELSE IF j < 12 THEN [year |-> y, month |-> j + 1, day |-> 1]
                ELSE [year |-> y + 1, month |-> 1, day |-> 1]
<1> DEFINE date == [year |-> y, month |-> j, day |-> m]
<1>1. date.year = y /\ date.month = j /\ date.day = m
  OBVIOUS
<1>2. [date EXCEPT !.day = m + 1] = [year |-> y, month |-> j, day |-> m + 1]
  OBVIOUS
<1>3. [date EXCEPT !.day = 1] = [year |-> y, month |-> j, day |-> 1]
  OBVIOUS
<1>4. [[year |-> y, month |-> j, day |-> 1] EXCEPT !.month = j + 1]
         = [year |-> y, month |-> j + 1, day |-> 1]
  OBVIOUS
<1>5. [date EXCEPT !.day = 1, !.month = j + 1] = [[date EXCEPT !.day = 1] EXCEPT !.month = j + 1]
  OBVIOUS
<1> HIDE DEF date
<1>6. NextDate(date) = IF m < MonthLength(y, j) THEN [date EXCEPT !.day = m + 1]
                       ELSE IF j < 12 THEN [date EXCEPT !.day = 1, !.month = j + 1]
                       ELSE [year |-> y + 1, month |-> 1, day |-> 1]
  BY <1>1 DEF NextDate
<1>7. [date EXCEPT !.day = 1, !.month = j + 1] = [year |-> y, month |-> j + 1, day |-> 1]
  BY <1>3, <1>4, <1>5
<1>8. NextDate(date) = IF m < MonthLength(y, j) THEN [year |-> y, month |-> j, day |-> m + 1]
                       ELSE IF j < 12 THEN [year |-> y, month |-> j + 1, day |-> 1]
                       ELSE [year |-> y + 1, month |-> 1, day |-> 1]
  BY <1>2, <1>6, <1>7
<1>9. QED
  BY <1>8 DEF date

\* From one day to the next.
LEMMA DayFact ==
    ASSUME NEW d \in 0..(FinalDay - 1)
    PROVE  /\ DateOf(d + 1, 0) = NextDate(DateOf(d, 0))
           /\ \A h \in 0..23 : DateOf(d, h) = DateOf(d, 0)
           /\ getNowDay(24 * d - 8) < getNowDay(24 * (d + 1) - 8)
           /\ tm_to_time(time_to_tm(24 * d)) = 24 * d
<1>1. d \in Nat /\ d < FinalDay /\ d + 1 \in Nat
  <2>1. FinalDay \in Nat
    BY DEF FinalDay
  <2>2. QED
    BY <2>1
<1>2. PICK q, i, j, m : IsPlace(q, i, j, m) /\ d = Place(q, i, j, m)
  BY <1>1, PlaceOf
<1>3. PICK r, k, l, n : /\ IsPlace(r, k, l, n) /\ NextPlace(q, i, j, m, r, k, l, n)
                        /\ d + 1 = Place(r, k, l, n)
  BY <1>2, NextPlaceFact
<1>4. /\ q \in Nat /\ i \in 0..3 /\ j \in 0..11 /\ m \in Nat
      /\ r \in Nat /\ k \in 0..3 /\ l \in 0..11 /\ n \in Nat
  BY <1>2, <1>3, MonthsFollow DEF IsPlace, Years, Months
<1>5. PICK w \in Nat : w = DaysOfMonth(i, j) /\ w > 27 /\ w < 32
  BY <1>2, MonthsFollow DEF IsPlace
<1>6. PICK y \in Nat : y = 1970 + 4 * q + i
  BY <1>4
<1>7. \A h \in 0..23 : DateOf(d, h) = [year |-> y, month |-> j + 1, day |-> m + 1]
  BY <1>2, <1>6, DateFact
<1>8. DateOf(d + 1, 0) = [year |-> 1970 + 4 * r + k, month |-> l + 1, day |-> n + 1]
  BY <1>3, DateFact
<1>9. /\ \/ m + 1 < w /\ 1970 + 4 * r + k = y /\ l = j /\ n = m + 1
         \/ m + 1 = w /\ j < 11 /\ 1970 + 4 * r + k = y /\ l = j + 1 /\ n = 0
         \/ m + 1 = w /\ j = 11 /\ 1970 + 4 * r + k = y + 1 /\ l = 0 /\ n = 0
  BY <1>3, <1>4, <1>5, <1>6 DEF NextPlace
<1>10. MonthLength(y, j + 1) = w \/ (m + 1 < MonthLength(y, j + 1) /\ m + 1 < w)
  BY <1>1, <1>2, <1>5, <1>6, GregorianFact
<1>11. DateOf(d + 1, 0) = NextDate(DateOf(d, 0))
  <2>1. DateOf(d, 0) = [year |-> y, month |-> j + 1, day |-> m + 1]
    BY <1>7
  <2>2. PICK o \in Nat, p \in Nat : o = j + 1 /\ p = m + 1
    BY <1>4
  <2>3. NextDate(DateOf(d, 0))
           = IF p < MonthLength(y, o) THEN [year |-> y, month |-> o, day |-> p + 1]
             ELSE IF o < 12 THEN [year |-> y, month |-> o + 1, day |-> 1]
             ELSE [year |-> y + 1, month |-> 1, day |-> 1]
    BY <2>1, <2>2, NextDateFact
  <2>4. CASE p < MonthLength(y, o) /\ p < w
    <3>1. NextDate(DateOf(d, 0)) = [year |-> y, month |-> o, day |-> p + 1]
      BY <2>3, <2>4
    <3>2. 1970 + 4 * r + k = y /\ l + 1 = o /\ n + 1 = p + 1
      BY <1>4, <1>5, <1>9, <2>2, <2>4
    <3>3. QED
      BY <1>8, <3>1, <3>2
  <2>5. CASE ~(p < w) /\ o < 12
    <3>1. ~(p < MonthLength(y, o))
      BY <1>10, <2>2, <2>5
    <3>2. NextDate(DateOf(d, 0)) = [year |-> y, month |-> o + 1, day |-> 1]
      BY <2>3, <2>5, <3>1
    <3>3. 1970 + 4 * r + k = y /\ l + 1 = o + 1 /\ n + 1 = 1
      BY <1>4, <1>5, <1>9, <2>2, <2>5
    <3>4. QED
      BY <1>8, <3>2, <3>3
  <2>6. CASE ~(p < w) /\ ~(o < 12)
    <3>1. ~(p < MonthLength(y, o))
      BY <1>10, <2>2, <2>6
    <3>2. NextDate(DateOf(d, 0)) = [year |-> y + 1, month |-> 1, day |-> 1]
      BY <2>3, <2>6, <3>1
    <3>3. 1970 + 4 * r + k = y + 1 /\ l + 1 = 1 /\ n + 1 = 1
      BY <1>4, <1>5, <1>9, <2>2, <2>6
    <3>4. QED
      BY <1>8, <3>2, <3>3
  <2>7. QED
    BY <1>10, <2>2, <2>4, <2>5, <2>6
<1>12. getNowDay(24 * d - 8) < getNowDay(24 * (d + 1) - 8)
  <2>1. 24 * d - 8 + 0 = 24 * d - 8 /\ 24 * (d + 1) - 8 + 0 = 24 * (d + 1) - 8
    BY <1>1
  <2>2. getNowDay(24 * d - 8) = y * 10000 + j * 100 + m + 1
    BY <1>2, <1>6, <2>1, DateFact
  <2>3. getNowDay(24 * (d + 1) - 8) = (1970 + 4 * r + k) * 10000 + l * 100 + n + 1
    BY <1>3, <2>1, DateFact
  <2>4. PICK z \in Nat : z = 1970 + 4 * r + k
    BY <1>4
  <2>5. y * 10000 + j * 100 + m + 1 < z * 10000 + l * 100 + n + 1
    BY <1>4, <1>5, <1>9, <2>4
  <2>6. QED
    BY <2>2, <2>3, <2>4, <2>5
<1>13. tm_to_time(time_to_tm(24 * d)) = 24 * d
  <2>1. 24 * d - 8 + 8 = 24 * d
    BY <1>1
  <2>2. tm_to_time(time_to_tm(24 * d - 8 + 8)) = 24 * d - 8 + 8
    BY <1>2, InverseFact
  <2>3. QED
    BY <2>1, <2>2
<1>14. QED
  BY <1>7, <1>11, <1>12, <1>13

LEMMA CalendarFact == CalendarFollowed
<1>1. DateOf(0, 0) = [year |-> 1970, month |-> 1, day |-> 1]
  <2>1. 0 \in Years /\ 0 \in Months /\ DaysBeforeYear(0) = 0 /\ DaysBeforeMonth(0, 0) = 0
          /\ DaysOfMonth(0, 0) = 31
    BY YearsFact, MonthsFact, LengthsOfMonths DEF Years, Months
  <2>2. IsPlace(0, 0, 0, 0) /\ Place(0, 0, 0, 0) = 0
    BY <2>1 DEF IsPlace, Place
  <2>3. DateOf(Place(0, 0, 0, 0), 0) = [year |-> 1970 + 4 * 0 + 0, month |-> 0 + 1, day |-> 0 + 1]
    BY <2>2, DateFact
  <2>4. QED
    BY <2>2, <2>3
<1>2. QED
  BY <1>1, DayFact DEF CalendarFollowed

LEMMA HourFact ==
    ASSUME NEW t \in Nat
    PROVE  \E q, i, j, m : \E h \in 0..23 :
               /\ IsPlace(q, i, j, m) /\ t = 24 * Place(q, i, j, m) - 8 + h
               /\ (t + 8) \div 24 = Place(q, i, j, m)
<1>1. PICK d \in Nat, h \in 0..23 : t = 24 * d - 8 + h /\ (t + 8) \div 24 = d
  <2>1. /\ (t + 8) \div 24 \in Nat /\ (t + 8) % 24 \in 0..23
        /\ t + 8 = 24 * ((t + 8) \div 24) + ((t + 8) % 24)
    OBVIOUS
  <2>2. PICK d \in Nat, h \in 0..23 : d = (t + 8) \div 24 /\ t + 8 = 24 * d + h
    BY <2>1
  <2>3. QED
    BY <2>2
<1>2. PICK q, i, j, m : IsPlace(q, i, j, m) /\ d = Place(q, i, j, m)
  BY PlaceOf
<1>3. IsPlace(q, i, j, m) /\ t = 24 * Place(q, i, j, m) - 8 + h /\ (t + 8) \div 24 = Place(q, i, j, m)
  BY <1>1, <1>2
<1>4. QED
  BY <1>3

\* tm_to_time is the inverse of time_to_tm in every hour from 1970 on, without
\* an end: both take every fourth year for a leap year.
THEOREM TimeInverse == \A t \in Nat : tm_to_time(time_to_tm(t)) = t
  BY HourFact, InverseFact

\* getNowDay gives two hours the same number just if they are in the same day,
\* so that the names that openFile makes of it tell the days apart.
THEOREM DaysApart ==
    \A s, t \in Nat : getNowDay(s) = getNowDay(t) <=> (s + 8) \div 24 = (t + 8) \div 24
<1> SUFFICES ASSUME NEW s \in Nat, NEW t \in Nat
             PROVE  getNowDay(s) = getNowDay(t) <=> (s + 8) \div 24 = (t + 8) \div 24
  OBVIOUS
<1>1. PICK q, i, j, m : \E h \in 0..23 :
               /\ IsPlace(q, i, j, m) /\ s = 24 * Place(q, i, j, m) - 8 + h
               /\ (s + 8) \div 24 = Place(q, i, j, m)
  BY HourFact
<1>2. PICK r, k, l, n : \E h \in 0..23 :
               /\ IsPlace(r, k, l, n) /\ t = 24 * Place(r, k, l, n) - 8 + h
               /\ (t + 8) \div 24 = Place(r, k, l, n)
  BY HourFact
<1>3. IsPlace(q, i, j, m) /\ IsPlace(r, k, l, n)
  BY <1>1, <1>2
<1>4. /\ q \in Nat /\ i \in 0..3 /\ j \in 0..11 /\ m \in Nat
      /\ r \in Nat /\ k \in 0..3 /\ l \in 0..11 /\ n \in Nat
  BY <1>3, MonthsFollow DEF IsPlace, Years, Months
<1>5. m < 31 /\ n < 31
  <2>1. DaysOfMonth(i, j) < 32 /\ m < DaysOfMonth(i, j) /\ DaysOfMonth(i, j) \in Nat
    BY <1>3, MonthsFollow DEF IsPlace
  <2>2. DaysOfMonth(k, l) < 32 /\ n < DaysOfMonth(k, l) /\ DaysOfMonth(k, l) \in Nat
    BY <1>3, MonthsFollow DEF IsPlace
  <2>3. QED
    BY <1>4, <2>1, <2>2
<1>6. getNowDay(s) = (1970 + 4 * q + i) * 10000 + j * 100 + m + 1
  BY <1>1, DateFact
<1>7. getNowDay(t) = (1970 + 4 * r + k) * 10000 + l * 100 + n + 1
  BY <1>2, DateFact
<1>8. CASE getNowDay(s) = getNowDay(t)
  <2>1. PICK y \in Nat, z \in Nat : y = 1970 + 4 * q + i /\ z = 1970 + 4 * r + k
    BY <1>4
  <2>2. y * 10000 + j * 100 + m = z * 10000 + l * 100 + n
    BY <1>4, <1>6, <1>7, <1>8, <2>1
  <2>3. y = z /\ j = l /\ m = n
    BY <1>4, <1>5, <2>2
  <2>4. q = r /\ i = k
    BY <1>4, <2>1, <2>3
  <2>5. QED
    BY <1>1, <1>2, <1>8, <2>3, <2>4
<1>9. CASE (s + 8) \div 24 = (t + 8) \div 24
  <2>1. Place(q, i, j, m) = Place(r, k, l, n)
    BY <1>1, <1>2, <1>9
  <2>2. getNowDay(24 * Place(q, i, j, m) - 8 + 0) = getNowDay(s)
    BY <1>3, <1>6, DateFact
  <2>3. getNowDay(24 * Place(r, k, l, n) - 8 + 0) = getNowDay(t)
    BY <1>3, <1>7, DateFact
  <2>4. QED
    BY <1>9, <2>1, <2>2, <2>3
<1>10. QED
  BY <1>8, <1>9

-----------------------------------------------------------------------------
(***************************************************************************)
(* The log                                                                 *)
(***************************************************************************)
Lines == 1..MaxLines

\* Every file holds lines.
FilesOK == \A f \in DOMAIN files : files[f] \in Seq(Lines)

\* Where the thread has a file, and where it has lines in its hands.
Phases ==
    /\ pc \in {"take", "write"} => open
    /\ pc \in {"new", "name", "open"} => ~open
    /\ pc # "write" => tmpData = <<>>

\* _nNowUseSize follows the open file, and is tested before lines are taken.
SizeFollowed ==
    /\ open => name \in DOMAIN files
    /\ open /\ pc = "lastDay" => Len(files[name]) = 0
    /\ open /\ pc # "lastDay" => nNowUseSize = Len(files[name]) + Len(tmpData)
    /\ pc = "take" => nNowUseSize < FileSize
    /\ pc = "write" => Len(files[name]) < FileSize

IInv == TypeOK /\ FilesOK /\ Phases /\ SizeFollowed /\ LinesInOrder

USE LogAssumption

\* The initial state satisfies the inductive invariant.
LEMMA InitIInv == Init => IInv
<1> SUFFICES ASSUME Init PROVE IInv
  OBVIOUS
<1>1. TypeOK
  <2>1. 0 \in 0..MaxLines /\ 0 \in 0..MaxFails /\ StartTime \in Nat /\ 0 <= BufferLines
    BY DEF LogAssumption
  <2>2. <<>> \in Seq(1..MaxLines) /\ Len(<<>>) = 0
    OBVIOUS
  <2>3. QED
    BY <2>1, <2>2 DEF Init, TypeOK
<1>3. FilesOK /\ Phases /\ SizeFollowed
  BY DEF Init, FilesOK, Phases, SizeFollowed
<1>2. LinesInOrder
  BY ConcatEmptySeq, EmptySeq DEF Init, LinesInOrder
<1>4. QED
  BY <1>1, <1>2, <1>3 DEF IInv

\* A line added at the end of the buffer is at the end of all lines.
LEMMA AppendLast ==
    ASSUME NEW a \in Seq(Lines), NEW b \in Seq(Lines), NEW c \in Seq(Lines),
           NEW x \in Lines
    PROVE  Append(a \o b \o c, x) = a \o b \o Append(c, x)
<1>1. a \o b \in Seq(Lines) /\ a \o b \o c \in Seq(Lines)
  BY ConcatProperties
<1>2. <<x>> \in Seq(Lines)
  OBVIOUS
<1>3. Append(a \o b \o c, x) = (a \o b \o c) \o <<x>>
  BY <1>1, AppendIsConcat
<1>4. a \o b \o Append(c, x) = (a \o b) \o (c \o <<x>>)
  BY AppendIsConcat
<1>5. QED
  BY <1>1, <1>2, <1>3, <1>4, ConcatAssociative

\* Taking the buffer, and writing what was taken, changes nothing of the whole.
LEMMA Handed ==
    ASSUME NEW S, NEW a \in Seq(S), NEW b \in Seq(S)
    PROVE  /\ a \o <<>> \o b = a \o b \o <<>>
           /\ \A c \in Seq(S) : a \o b \o c = (a \o b) \o <<>> \o c
<1>1. a \o b \in Seq(S)
  BY ConcatProperties
<1>2. QED
  BY <1>1, ConcatEmptySeq

\* The types.
LEMMA NextTypeOK == IInv /\ [Next]_vars => TypeOK'
<1> SUFFICES ASSUME IInv, [Next]_vars PROVE TypeOK'
  OBVIOUS
<1> USE DEF IInv, TypeOK
<1>1. CASE UNCHANGED vars
  BY <1>1 DEF vars, clockVars, bufferVars, fileVars
<1>2. CASE Tick
  BY <1>2 DEF Tick, bufferVars, fileVars
<1>3. CASE log
  <2>1. called + 1 \in 1..MaxLines /\ called' = called + 1
    BY <1>3 DEF log, Calls
  <2>2. PICK c \in 1..MaxLines : c = called + 1
    BY <2>1
  <2>3. data' = Append(data, c) /\ accepted' = Append(accepted, c) /\ called' = c
    BY <1>3, <2>1, <2>2 DEF log
  <2>4. data' \in Seq(1..MaxLines) /\ accepted' \in Seq(1..MaxLines)
           /\ Len(data') = Len(data) + 1
    BY <2>3, AppendProperties
  <2>5. sinceTick' \in Nat
    BY <1>3 DEF log, Calls
  <2>6. Len(data') <= BufferLines
    BY <2>4, <1>3 DEF log
  <2>7. QED
    BY <1>3, <2>2, <2>3, <2>4, <2>5, <2>6 DEF log, fileVars
<1>4. CASE logDrop
  BY <1>4 DEF logDrop, Calls, fileVars
<1>5. CASE start \/ doStart
  BY <1>5 DEF start, doStart, clockVars, bufferVars, fileVars
<1>6. CASE Turn
  BY <1>6 DEF Turn, Goes, clockVars, bufferVars
<1>7. CASE NameDay
  BY <1>7 DEF NameDay, Goes, clockVars, bufferVars
<1>8. CASE OpenFile
  BY <1>8 DEF OpenFile, Goes, clockVars, bufferVars
<1>9. CASE OpenFails
  BY <1>9 DEF OpenFails, Goes, clockVars, bufferVars
<1>10. CASE LastDay
  BY <1>10 DEF LastDay, Goes, clockVars, bufferVars
<1>11. CASE Take
  BY <1>11 DEF Take, clockVars, fileVars
<1>12. CASE TakeNothing
  BY <1>12 DEF TakeNothing, Goes, clockVars, bufferVars, fileVars
<1>13. CASE Write
  <2>1. written' \in Seq(1..MaxLines)
    BY <1>13, ConcatProperties DEF Write
  <2>2. QED
    BY <1>13, <2>1 DEF Write, Goes, clockVars, bufferVars, fileVars
<1>14. CASE Idle
  BY <1>14 DEF Idle, Goes, clockVars, bufferVars, fileVars
<1>15. QED
  BY <1>1, <1>2, <1>3, <1>4, <1>5, <1>6, <1>7, <1>8, <1>9, <1>10, <1>11, <1>12,
     <1>13, <1>14 DEF Next, LogThread

\* The files, and where the thread is.
LEMMA NextPhases == IInv /\ [Next]_vars => (FilesOK /\ Phases)'
<1> SUFFICES ASSUME IInv, [Next]_vars PROVE (FilesOK /\ Phases)'
  OBVIOUS
<1> USE DEF FilesOK, Phases
<1>0. TypeOK /\ FilesOK /\ Phases
  BY DEF IInv
<1>1. CASE UNCHANGED vars \/ Tick \/ log \/ logDrop
  BY <1>0, <1>1 DEF vars, clockVars, bufferVars, fileVars, Tick, log, logDrop
<1>2. CASE start \/ doStart
  BY <1>0, <1>2 DEF start, doStart, clockVars, bufferVars, fileVars
<1>3. CASE Turn
  BY <1>0, <1>3 DEF Turn, Goes, MustChange
<1>4. CASE NameDay \/ OpenFails
  BY <1>0, <1>4 DEF NameDay, OpenFails, Goes
<1>5. CASE OpenFile
  <2>1. \A f \in DOMAIN files' : files'[f] = <<>> \/ (f \in DOMAIN files /\ files'[f] = files[f])
    BY <1>5 DEF OpenFile
  <2>2. <<>> \in Seq(Lines)
    OBVIOUS
  <2>3. QED
    BY <1>0, <1>5, <2>1, <2>2 DEF OpenFile, Goes
<1>6. CASE LastDay
  BY <1>0, <1>6 DEF LastDay, Goes
<1>7. CASE Take
  BY <1>0, <1>7 DEF Take, fileVars
<1>8. CASE TakeNothing
  BY <1>0, <1>8 DEF TakeNothing, Goes, fileVars
<1>9. CASE Write
  <2>1. tmpData \in Seq(Lines)
    BY <1>0 DEF TypeOK, Lines
  <2>2. \A f \in DOMAIN files :
            files[f] \o tmpData \in Seq(Lines)
    BY <1>0, <2>1, ConcatProperties
  <2>3. \A f \in DOMAIN files' : f \in DOMAIN files
            /\ (files'[f] = files[f] \/ files'[f] = files[f] \o tmpData)
    BY <1>9 DEF Write
  <2>4. QED
    BY <1>0, <1>9, <2>2, <2>3 DEF Write, Goes, fileVars
<1>10. CASE Idle
  BY <1>0, <1>10 DEF Idle, Goes, fileVars
<1>11. QED
  BY <1>1, <1>2, <1>3, <1>4, <1>5, <1>6, <1>7, <1>8, <1>9, <1>10 DEF Next, LogThread

\* The size that is counted.
LEMMA NextSize == IInv /\ [Next]_vars => SizeFollowed'
<1> SUFFICES ASSUME IInv, [Next]_vars PROVE SizeFollowed'
  OBVIOUS
<1> USE DEF SizeFollowed
<1>0. TypeOK /\ FilesOK /\ Phases /\ SizeFollowed
  BY DEF IInv
<1>a. tmpData \in Seq(Lines) /\ data \in Seq(Lines) /\ nNowUseSize \in Nat
  BY <1>0 DEF TypeOK, Lines
<1>1. CASE UNCHANGED vars \/ Tick \/ log \/ logDrop
  BY <1>0, <1>1 DEF vars, clockVars, bufferVars, fileVars, Tick, log, logDrop
<1>2. CASE start \/ doStart
  BY <1>0, <1>2 DEF start, doStart, clockVars, bufferVars, fileVars, Phases
<1>3. CASE Turn
  <2>1. pc' = "take" => ~(nNowUseSize >= FileSize)
    BY <1>3 DEF Turn, Goes, MustChange
  <2>2. (open' => open) /\ pc = "turn" /\ pc' \in {"idle", "take", "name"}
    BY <1>3 DEF Turn, Goes
  <2>3. UNCHANGED <<name, files, nNowUseSize, tmpData>>
    BY <1>3 DEF Turn
  <2>4. QED
    BY <1>0, <1>a, <2>1, <2>2, <2>3
<1>4. CASE NameDay \/ OpenFails
  BY <1>0, <1>4 DEF NameDay, OpenFails, Goes, Phases
<1>5. CASE OpenFile
  BY <1>0, <1>5 DEF OpenFile, Goes
<1>6. CASE LastDay
  <2>1. tmpData = <<>> /\ tmpData' = tmpData
    BY <1>0, <1>6 DEF LastDay, Goes, Phases
  <2>2. pc = "lastDay" /\ pc' \in {"take", "idle"} /\ nNowUseSize' = 0
          /\ UNCHANGED <<name, open, files>>
    BY <1>6 DEF LastDay, Goes
  <2>3. QED
    BY <1>0, <2>1, <2>2
<1>7. CASE Take
  <2>1. tmpData = <<>> /\ open
    BY <1>0, <1>7 DEF Take, Phases
  <2>2. pc = "take" /\ pc' = "write" /\ tmpData' = data
          /\ nNowUseSize' = nNowUseSize + Len(data) /\ UNCHANGED <<name, open, files>>
    BY <1>7 DEF Take, fileVars
  <2>3. nNowUseSize = Len(files[name]) /\ Len(files[name]) < FileSize
    BY <1>0, <1>a, <2>1, <2>2
  <2>4. QED
    BY <1>0, <2>1, <2>2, <2>3
<1>8. CASE TakeNothing
  BY <1>0, <1>8 DEF TakeNothing, Goes, fileVars
<1>9. CASE Write
  <2>1. pc = "write" /\ pc' = "turn" /\ open /\ tmpData' = <<>>
          /\ UNCHANGED <<name, open, nNowUseSize>>
    BY <1>0, <1>9 DEF Write, Goes, fileVars, Phases
  <2>2. name \in DOMAIN files /\ files[name] \in Seq(Lines)
    BY <1>0, <2>1 DEF FilesOK
  <2>3. files'[name] = files[name] \o tmpData /\ DOMAIN files' = DOMAIN files
    BY <1>9, <2>2 DEF Write
  <2>4. Len(files[name] \o tmpData) = Len(files[name]) + Len(tmpData)
    BY <1>a, <2>2, ConcatProperties
  <2>5. QED
    BY <1>0, <1>a, <2>1, <2>2, <2>3, <2>4
<1>10. CASE Idle
  BY <1>0, <1>10 DEF Idle, Goes, fileVars
<1>11. QED
  BY <1>1, <1>2, <1>3, <1>4, <1>5, <1>6, <1>7, <1>8, <1>9, <1>10 DEF Next, LogThread

\* The order of the lines.
LEMMA NextLines == IInv /\ [Next]_vars => LinesInOrder'
<1> SUFFICES ASSUME IInv, [Next]_vars PROVE LinesInOrder'
  OBVIOUS
<1>0. TypeOK /\ Phases /\ LinesInOrder
  BY DEF IInv
<1>a. /\ written \in Seq(Lines) /\ tmpData \in Seq(Lines)
      /\ data \in Seq(Lines) /\ accepted \in Seq(Lines)
  BY <1>0 DEF TypeOK, Lines
<1>b. called \in Nat /\ lDropCount \in Nat
  BY <1>0 DEF TypeOK
<1>1. CASE log
  <2>1. called + 1 \in Lines /\ called' = called + 1
    BY <1>0, <1>1 DEF log, Calls, TypeOK, Lines
  <2>2. PICK c \in Lines : c = called + 1
    BY <2>1
  <2>3. data' = Append(data, c) /\ accepted' = Append(accepted, c)
          /\ called' = c /\ UNCHANGED <<written, tmpData, lDropCount>>
    BY <1>1, <2>1, <2>2 DEF log
  <2>4. accepted' = written \o tmpData \o Append(data, c)
    <3>1. accepted = written \o tmpData \o data
      BY <1>0 DEF LinesInOrder
    <3>2. Append(written \o tmpData \o data, c) = written \o tmpData \o Append(data, c)
      <4>1. /\ written \in Seq(Lines) /\ tmpData \in Seq(Lines)
            /\ data \in Seq(Lines) /\ c \in Lines
        BY <1>a, <2>2
      <4>2. QED
        BY <4>1, AppendLast, ZenonT(60)
    <3>3. QED
      BY <2>3, <3>1, <3>2, Zenon
  <2>5. Len(Append(accepted, c)) = Len(accepted) + 1
    BY <1>a, AppendProperties
  <2>6. Len(accepted) + 1 + lDropCount = c
    <3>1. Len(accepted) \in Nat
      BY <1>a, LenProperties
    <3>2. Len(accepted) + lDropCount = called
      BY <1>0, Zenon DEF LinesInOrder
    <3>3. QED
      BY <1>b, <2>2, <3>1, <3>2
  <2>7. QED
    BY <2>3, <2>4, <2>5, <2>6 DEF LinesInOrder
<1>2. CASE logDrop
  <2>1. called' = called + 1 /\ lDropCount' = lDropCount + 1
          /\ UNCHANGED <<accepted, written, tmpData, data>>
    BY <1>2 DEF logDrop, Calls
  <2>2. Len(accepted) \in Nat
    BY <1>a, LenProperties
  <2>3. Len(accepted) + lDropCount = called
    BY <1>0, Zenon DEF LinesInOrder
  <2>4. Len(accepted) + (lDropCount + 1) = called + 1
    BY <1>b, <2>2, <2>3
  <2>5. accepted = written \o tmpData \o data
    BY <1>0, Zenon DEF LinesInOrder
  <2>6. QED
    BY <2>1, <2>4, <2>5, Zenon DEF LinesInOrder
<1>3. CASE Take
  <2>1. tmpData = <<>> /\ tmpData' = data /\ data' = <<>>
          /\ UNCHANGED <<called, lDropCount, accepted, written>>
    BY <1>0, <1>3 DEF Take, Phases
  <2>2. QED
    BY <1>0, <1>a, <2>1, Handed DEF LinesInOrder
<1>4. CASE Write
  <2>1. written' = written \o tmpData /\ tmpData' = <<>>
          /\ UNCHANGED <<called, lDropCount, accepted, data>>
    BY <1>4 DEF Write, bufferVars
  <2>2. QED
    BY <1>0, <1>a, <2>1, Handed DEF LinesInOrder
<1>5. CASE UNCHANGED vars \/ Tick \/ start \/ doStart \/ Turn \/ NameDay \/ OpenFile
           \/ OpenFails \/ LastDay \/ TakeNothing \/ Idle
  <2>1. UNCHANGED <<called, lDropCount, accepted, data, written, tmpData>>
    BY <1>5 DEF vars, bufferVars, Tick, start, doStart, Turn, NameDay, OpenFile,
                OpenFails, LastDay, TakeNothing, Idle
  <2>2. QED
    BY <1>0, <2>1 DEF LinesInOrder
<1>6. QED
  BY <1>1, <1>2, <1>3, <1>4, <1>5 DEF Next, LogThread

\* Hence the inductive invariant holds in every reachable state.
THEOREM Invariance == Spec => []IInv
<1>1. IInv /\ [Next]_vars => IInv'
  BY NextTypeOK, NextPhases, NextSize, NextLines DEF IInv
<1>2. QED
  BY <1>1, InitIInv, PTL DEF Spec

\* The buffer never grows past its limit, and the variables keep their types.
THEOREM TypeCorrect == Spec => []TypeOK
BY Invariance, PTL DEF IInv

\* No accepted line is lost, repeated or overtaken between log and the
\* stream, and every other one was counted as dropped.
THEOREM LinesSafe == Spec => []LinesInOrder
BY Invariance, PTL DEF IInv

\* Lines only go to a file that has not reached its size.
THEOREM SizeSafe == Spec => []SizeRespected
<1>1. IInv => SizeRespected
  BY DEF IInv, Phases, SizeFollowed, SizeRespected
<1>2. QED
  BY <1>1, Invariance, PTL

\* time_to_tm follows the Gregorian calendar up to the end of February 2100,
\* getNowDay grows from day to day and tm_to_time is the inverse, as the runs
\* look at them.
THEOREM CalendarRight == Spec => []CalendarExact
  BY CalendarFact, PTL DEF CalendarExact
=============================================================================
