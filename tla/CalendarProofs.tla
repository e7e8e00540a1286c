--------------------------- MODULE CalendarProofs ---------------------------
(* Proofs about the dates of Calendar and the year view of Takvim. *)
EXTENDS Takvim, FiniteSetTheorems, TLAPS

LEMMA MonthLength ==
    ASSUME NEW y \in Nat, NEW m \in 1..12
    PROVE  /\ DaysIn(y, m) \in 28..31
           /\ m \in {1, 12} => DaysIn(y, m) = 31
BY DEF DaysIn

\* Up to a week further on: the same month, or the first days of the next one.
LEMMA DaysLater ==
    ASSUME NEW t, IsTime(t), NEW k \in 1..7
    PROVE  LET day  == t.d + k
               rest == t.d + k - DaysIn(t.y, t.m)
           IN  AddDate(t, 0, k) =
                  IF day <= DaysIn(t.y, t.m) THEN Time(t.y, t.m, day, t.h)
                  ELSE IF t.m < 12 THEN Time(t.y, t.m + 1, rest, t.h)
                  ELSE Time(t.y + 1, 1, rest, t.h)
<1>1. t \in [y : Nat, m : 1..12, d : 1..31, h : 0..23]
  BY DEF IsTime
<1> DEFINE u == Time(t.y, t.m, t.d + k, t.h)
           D == DaysIn(t.y, t.m)
<1>2. AddDate(t, 0, k) = CarryDay(u)
  BY <1>1 DEF AddDate, CarryMonth, Time
<1>3. D \in 28..31
  BY <1>1, MonthLength
<1>4. CASE t.d + k <= D
  BY <1>1, <1>2, <1>3, <1>4 DEF CarryDay, Time
<1>5. CASE t.d + k > D
  <2>1. AddDate(t, 0, k) = CarryMonth(Time(t.y, t.m + 1, t.d + k - D, t.h))
    BY <1>1, <1>2, <1>3, <1>5 DEF CarryDay, Time
  <2> QED
    BY <1>1, <1>3, <1>5, <2>1 DEF CarryMonth, Time
<1> QED
  BY <1>1, <1>3, <1>4, <1>5

LEMMA AddDays ==
    ASSUME NEW t, IsTime(t), NEW k \in 1..7
    PROVE  /\ IsTime(AddDate(t, 0, k))
           /\ Before(t, AddDate(t, 0, k))
           /\ AddDate(t, 0, k).h = t.h
<1>1. t \in [y : Nat, m : 1..12, d : 1..31, h : 0..23] /\ t.d <= DaysIn(t.y, t.m)
  BY DEF IsTime
<1> DEFINE D == DaysIn(t.y, t.m)
<1>2. /\ D \in 28..31 /\ (t.m = 12 => D = 31)
      /\ t.m < 12 => DaysIn(t.y, t.m + 1) \in 28..31
      /\ DaysIn(t.y + 1, 1) = 31
  BY <1>1, MonthLength
<1>3. CASE t.d + k <= D
  <2>1. AddDate(t, 0, k) = Time(t.y, t.m, t.d + k, t.h)
    BY <1>3, DaysLater
  <2> QED
    BY <1>1, <1>2, <1>3, <2>1 DEF IsTime, Before, Time
<1>4. CASE t.d + k > D /\ t.m < 12
  <2>1. AddDate(t, 0, k) = Time(t.y, t.m + 1, t.d + k - D, t.h)
    BY <1>1, <1>2, <1>4, DaysLater
  <2> QED
    BY <1>1, <1>2, <1>4, <2>1 DEF IsTime, Before, Time
<1>5. CASE t.d + k > D /\ t.m = 12
  <2>1. AddDate(t, 0, k) = Time(t.y + 1, 1, t.d + k - D, t.h)
    BY <1>1, <1>2, <1>5, DaysLater
  <2> QED
    BY <1>1, <1>2, <1>5, <2>1 DEF IsTime, Before, Time
<1> QED
  BY <1>1, <1>2, <1>3, <1>4, <1>5

\* A month further on: the same day of the next month or, when that month is too
\* short, one of the first three days of the month after it.
LEMMA AddMonth ==
    ASSUME NEW t, IsTime(t)
    PROVE  LET u == AddDate(t, 1, 0)
               gap == MonthNumber(u) - MonthNumber(t)
           IN  /\ IsTime(u)
               /\ Before(t, u)
               /\ \/ gap = 1 /\ u.d = t.d
                  \/ gap = 2 /\ t.d > 28 /\ u.d \in 1..3
<1>1. t \in [y : Nat, m : 1..12, d : 1..31, h : 0..23] /\ t.d <= DaysIn(t.y, t.m)
  BY DEF IsTime
<1>2. CASE t.m = 12
  <2>1. DaysIn(t.y + 1, 1) = 31
    BY <1>1, MonthLength
  <2>2. AddDate(t, 1, 0) = Time(t.y + 1, 1, t.d, t.h)
    BY <1>1, <1>2, <2>1 DEF AddDate, CarryMonth, CarryDay, Time
  <2> QED
    BY <1>1, <1>2, <2>1, <2>2 DEF IsTime, Before, Time, MonthNumber
<1>3. CASE t.m < 12
  <2> DEFINE D == DaysIn(t.y, t.m + 1)
  <2>1. D \in 28..31 /\ (t.m + 1 = 12 => D = 31)
    BY <1>1, <1>3, MonthLength
  <2>2. AddDate(t, 1, 0) = CarryDay(Time(t.y, t.m + 1, t.d, t.h))
    BY <1>1, <1>3 DEF AddDate, CarryMonth, Time
  <2>3. CASE t.d <= D
    <3>1. AddDate(t, 1, 0) = Time(t.y, t.m + 1, t.d, t.h)
      BY <1>1, <2>1, <2>2, <2>3 DEF CarryDay, Time
    <3> QED
      BY <1>1, <1>3, <2>1, <2>3, <3>1 DEF IsTime, Before, Time, MonthNumber
  <2>4. CASE t.d > D
    <3>1. t.m + 2 \in 1..12 /\ t.d - D \in 1..3 /\ t.d > 28
      BY <1>1, <1>3, <2>1, <2>4
    <3>2. AddDate(t, 1, 0) = Time(t.y, t.m + 2, t.d - D, t.h)
      BY <1>1, <2>1, <2>2, <2>4, <3>1 DEF CarryDay, CarryMonth, Time
    <3>3. DaysIn(t.y, t.m + 2) \in 28..31
      BY <1>1, <3>1, MonthLength
    <3> QED
      BY <1>1, <1>3, <3>1, <3>2, <3>3 DEF IsTime, Before, Time, MonthNumber
  <2> QED
    BY <1>1, <2>1, <2>3, <2>4
<1> QED
  BY <1>1, <1>2, <1>3

\* For every time and every rule, nextSchedule gives a date that exists and that
\* is strictly later (what Scheduler assumes of Period).
THEOREM NextIsLater ==
    ASSUME NEW t, IsTime(t), NEW r \in Repeat
    PROVE  IsTime(NextSchedule(t, r)) /\ Before(t, NextSchedule(t, r))
BY AddDays, AddMonth DEF NextSchedule, Repeat

LEMMA SameHour ==
    ASSUME NEW t, NEW r \in Repeat
    PROVE  NextSchedule(t, r).h = t.h
<1>1. /\ \A u : CarryMonth(u).h = u.h
      /\ \A u : CarryDay(u).h = u.h
  BY DEF CarryMonth, CarryDay, Time
<1>2. \A months, days : AddDate(t, months, days).h = t.h
  BY <1>1 DEF AddDate, Time
<1> QED
  BY <1>2 DEF NextSchedule, Repeat

-----------------------------------------------------------------------------
(* Counting days *)

LEMMA ByFour ==
    ASSUME NEW y \in Nat
    PROVE  y \div 4 = ((y - 1) \div 4) + (IF y % 4 = 0 THEN 1 ELSE 0)
OBVIOUS

LEMMA ByHundred ==
    ASSUME NEW y \in Nat
    PROVE  y \div 100 = ((y - 1) \div 100) + (IF y % 100 = 0 THEN 1 ELSE 0)
OBVIOUS

LEMMA ByFourHundred ==
    ASSUME NEW y \in Nat
    PROVE  y \div 400 = ((y - 1) \div 400) + (IF y % 400 = 0 THEN 1 ELSE 0)
OBVIOUS

LEMMA Multiples ==
    ASSUME NEW y \in Nat
    PROVE  /\ y % 400 = 0 => y % 100 = 0
           /\ y % 100 = 0 => y % 4 = 0
OBVIOUS

\* LeapsBefore counts the years that Leap finds.
LEMMA LeapYear ==
    ASSUME NEW y \in Nat
    PROVE  /\ LeapsBefore(y) \in Int
           /\ LeapsBefore(y + 1) = (y \div 4) - (y \div 100) + (y \div 400)
           /\ LeapsBefore(y + 1) = LeapsBefore(y) + (IF Leap(y) THEN 1 ELSE 0)
<1>1. (y + 1) - 1 = y
  OBVIOUS
<1>2. LeapsBefore(y + 1) = (y \div 4) - (y \div 100) + (y \div 400)
  BY <1>1 DEF LeapsBefore
<1> DEFINE a == IF y % 4 = 0 THEN 1 ELSE 0
           b == IF y % 100 = 0 THEN 1 ELSE 0
           c == IF y % 400 = 0 THEN 1 ELSE 0
<1>3. (IF Leap(y) THEN 1 ELSE 0) = a - b + c
  BY Multiples DEF Leap
<1> DEFINE q4   == (y - 1) \div 4
           q100 == (y - 1) \div 100
           q400 == (y - 1) \div 400
<1>4. /\ q4 \in Int /\ q100 \in Int /\ q400 \in Int
      /\ a \in Int /\ b \in Int /\ c \in Int
  OBVIOUS
<1>5. y \div 4 = q4 + a
  BY ByFour
<1>6. y \div 100 = q100 + b
  BY ByHundred
<1>7. y \div 400 = q400 + c
  BY ByFourHundred
<1>8. LeapsBefore(y) = q4 - q100 + q400
  BY DEF LeapsBefore
<1> HIDE DEF a, b, c, q4, q100, q400
<1>9. LeapsBefore(y + 1) = LeapsBefore(y) + (a - b + c)
  BY <1>2, <1>4, <1>5, <1>6, <1>7, <1>8
<1> QED
  BY <1>2, <1>3, <1>4, <1>8, <1>9

\* The number of days before a month begins.
Elapsed(y, m) ==
    365 * y + LeapsBefore(y) + DaysBeforeMonth[m]
        + (IF m > 2 /\ Leap(y) THEN 1 ELSE 0)

LEMMA MonthStarts ==
    /\ DaysBeforeMonth[1] = 0 /\ DaysBeforeMonth[2] = 31
    /\ DaysBeforeMonth[3] = 59 /\ DaysBeforeMonth[4] = 90
    /\ DaysBeforeMonth[5] = 120 /\ DaysBeforeMonth[6] = 151
    /\ DaysBeforeMonth[7] = 181 /\ DaysBeforeMonth[8] = 212
    /\ DaysBeforeMonth[9] = 243 /\ DaysBeforeMonth[10] = 273
    /\ DaysBeforeMonth[11] = 304 /\ DaysBeforeMonth[12] = 334
BY DEF DaysBeforeMonth

LEMMA ElapsedType ==
    ASSUME NEW y \in Nat, NEW m \in 1..12
    PROVE  Elapsed(y, m) \in Int
<1>1. DaysBeforeMonth[m] \in Int
  BY MonthStarts
<1>2. LeapsBefore(y) \in Int
  BY LeapYear
<1> QED
  BY <1>1, <1>2 DEF Elapsed

\* A month begins when the one before it is over.
LEMMA ElapsedMonth ==
    ASSUME NEW y \in Nat, NEW m \in 1..11
    PROVE  Elapsed(y, m + 1) = Elapsed(y, m) + DaysIn(y, m)
<1>1. LeapsBefore(y) \in Int
  BY LeapYear
<1>2. CASE m \in {1, 2}
  BY <1>1, <1>2, MonthStarts DEF Elapsed, DaysIn
<1>3. CASE m \in 3..11
  <2>1. DaysBeforeMonth[m + 1] = DaysBeforeMonth[m]
                                    + (IF m \in {4, 6, 9, 11} THEN 30 ELSE 31)
    BY <1>3, MonthStarts
  <2>2. DaysBeforeMonth[m] \in Int
    BY MonthStarts
  <2> QED
    BY <1>1, <1>3, <2>1, <2>2 DEF Elapsed, DaysIn
<1> QED
  BY <1>2, <1>3

LEMMA ElapsedYear ==
    ASSUME NEW y \in Nat
    PROVE  Elapsed(y + 1, 1) = Elapsed(y, 12) + 31
<1>1. /\ LeapsBefore(y) \in Int
      /\ LeapsBefore(y + 1) = LeapsBefore(y) + (IF Leap(y) THEN 1 ELSE 0)
  BY LeapYear
<1>2. DaysBeforeMonth[1] = 0 /\ DaysBeforeMonth[12] = 334
  BY MonthStarts
<1>3. Elapsed(y + 1, 1) = 365 * (y + 1) + LeapsBefore(y + 1)
  BY <1>1, <1>2 DEF Elapsed
<1>4. Elapsed(y, 12) = 365 * y + LeapsBefore(y) + 334
                          + (IF Leap(y) THEN 1 ELSE 0)
  BY <1>2 DEF Elapsed
<1> QED
  BY <1>1, <1>3, <1>4

LEMMA DayNumberIs ==
    ASSUME NEW t, IsTime(t)
    PROVE  DayNumber(t) = Elapsed(t.y, t.m) + t.d /\ DayNumber(t) \in Int
<1>1. t.y \in Nat /\ t.m \in 1..12 /\ t.d \in Int
  BY DEF IsTime
<1>2. Elapsed(t.y, t.m) \in Int
  BY <1>1, ElapsedType
<1>3. DayNumber(t) = Elapsed(t.y, t.m) + t.d
  BY DEF DayNumber, Elapsed
<1> QED
  BY <1>1, <1>2, <1>3

\* AddDate adds as many days as it is given, whatever it carries.
LEMMA DaysCounted ==
    ASSUME NEW t, IsTime(t), NEW k \in 1..7
    PROVE  DayNumber(AddDate(t, 0, k)) = DayNumber(t) + k
<1> DEFINE u == AddDate(t, 0, k)
           D == DaysIn(t.y, t.m)
<1>1. /\ t.y \in Nat /\ t.m \in 1..12 /\ t.d \in Int
      /\ D \in Int /\ (t.m = 12 => D = 31)
  BY MonthLength DEF IsTime
<1>2. /\ DayNumber(u) = Elapsed(u.y, u.m) + u.d
      /\ DayNumber(t) = Elapsed(t.y, t.m) + t.d
      /\ Elapsed(t.y, t.m) \in Int
  BY <1>1, AddDays, DayNumberIs, ElapsedType
<1>3. CASE t.d + k <= D
  <2>1. u = Time(t.y, t.m, t.d + k, t.h)
    BY <1>3, DaysLater
  <2> QED
    BY <1>1, <1>2, <2>1 DEF Time
<1>4. CASE ~(t.d + k <= D) /\ t.m < 12
  <2>1. u = Time(t.y, t.m + 1, t.d + k - D, t.h)
    BY <1>4, DaysLater
  <2>2. Elapsed(t.y, t.m + 1) = Elapsed(t.y, t.m) + D
    BY <1>1, <1>4, ElapsedMonth
  <2>3. u.y = t.y /\ u.m = t.m + 1 /\ u.d = t.d + k - D
    BY <2>1 DEF Time
  <2> QED
    BY <1>1, <1>2, <2>2, <2>3
<1>5. CASE ~(t.d + k <= D) /\ t.m = 12
  <2>1. u = Time(t.y + 1, 1, t.d + k - D, t.h)
    BY <1>5, DaysLater
  <2>2. Elapsed(t.y + 1, 1) = Elapsed(t.y, t.m) + D
    BY <1>1, <1>5, ElapsedYear
  <2>3. u.y = t.y + 1 /\ u.m = 1 /\ u.d = t.d + k - D
    BY <2>1 DEF Time
  <2> QED
    BY <1>1, <1>2, <2>2, <2>3
<1> QED
  BY <1>1, <1>3, <1>4, <1>5

-----------------------------------------------------------------------------
(* The day before, and the two zones *)

\* The day before, at any hour: a time, one day less, and the next day of it is
\* the day it is before.
LEMMA DayBefore ==
    ASSUME NEW t, IsTime(t), t.y > 0, NEW h \in 0..23
    PROVE  LET p == AtHour(PreviousDay(t), h)
           IN  /\ IsTime(p) /\ p.h = h
               /\ DayNumber(p) = DayNumber(t) - 1
               /\ AddDate(p, 0, 1) = AtHour(t, h)
<1> DEFINE p == AtHour(PreviousDay(t), h)
<1>1. t \in [y : Nat, m : 1..12, d : 1..31, h : 0..23] /\ t.d <= DaysIn(t.y, t.m)
  BY DEF IsTime
<1>2. IsTime(p) /\ p.h = h /\ AddDate(p, 0, 1) = AtHour(t, h)
  <2>1. CASE t.d > 1
    <3>1. p = Time(t.y, t.m, t.d - 1, h)
      BY <2>1 DEF AtHour, PreviousDay, Time
    <3>2. DaysIn(t.y, t.m) \in 28..31
      BY <1>1, MonthLength
    <3>3. IsTime(p) /\ p.h = h
      BY <1>1, <2>1, <3>1, <3>2 DEF IsTime, Time
    <3> QED
      BY <1>1, <2>1, <3>1, <3>2, <3>3, DaysLater DEF AtHour, Time
  <2>2. CASE t.d = 1 /\ t.m > 1
    <3>1. p = Time(t.y, t.m - 1, DaysIn(t.y, t.m - 1), h)
      BY <2>2 DEF AtHour, PreviousDay, Time
    <3>2. DaysIn(t.y, t.m - 1) \in 28..31
      BY <1>1, <2>2, MonthLength
    <3>3. IsTime(p) /\ p.h = h
      BY <1>1, <2>2, <3>1, <3>2 DEF IsTime, Time
    <3> QED
      BY <1>1, <2>2, <3>1, <3>2, <3>3, DaysLater DEF AtHour, Time
  <2>3. CASE t.d = 1 /\ t.m = 1
    <3>1. p = Time(t.y - 1, 12, 31, h)
      BY <1>1, <2>3 DEF AtHour, PreviousDay, Time
    <3>2. DaysIn(t.y - 1, 12) = 31
      BY <1>1, MonthLength
    <3>3. IsTime(p) /\ p.h = h
      BY <1>1, <3>1, <3>2 DEF IsTime, Time
    <3> QED
      BY <1>1, <2>3, <3>1, <3>2, <3>3, DaysLater DEF AtHour, Time
  <2> QED
    BY <1>1, <2>1, <2>2, <2>3
<1>3. DayNumber(AtHour(t, h)) = DayNumber(t)
  BY DEF DayNumber, AtHour, Time
<1>4. DayNumber(p) \in Int /\ DayNumber(AtHour(t, h)) = DayNumber(p) + 1
  BY <1>2, DaysCounted, DayNumberIs
<1> QED
  BY <1>2, <1>3, <1>4

\* The day before the next day.
LEMMA BackAgain ==
    ASSUME NEW t, IsTime(t), NEW h \in 0..23
    PROVE  LET p == PreviousDay(AtHour(AddDate(t, 0, 1), h))
           IN  p.y = t.y /\ p.m = t.m /\ p.d = t.d
<1> DEFINE D == DaysIn(t.y, t.m)
<1>1. t \in [y : Nat, m : 1..12, d : 1..31, h : 0..23] /\ t.d <= D
  BY DEF IsTime
<1>2. D \in 28..31 /\ (t.m = 12 => D = 31)
  BY <1>1, MonthLength
<1>3. CASE t.d < D
  <2>1. AddDate(t, 0, 1) = Time(t.y, t.m, t.d + 1, t.h)
    BY <1>1, <1>2, <1>3, DaysLater
  <2> QED
    BY <1>1, <2>1 DEF AtHour, PreviousDay, Time
<1>4. CASE t.d = D /\ t.m < 12
  <2>1. AddDate(t, 0, 1) = Time(t.y, t.m + 1, 1, t.h)
    BY <1>1, <1>2, <1>4, DaysLater
  <2>2. AtHour(AddDate(t, 0, 1), h) = Time(t.y, t.m + 1, 1, h)
    BY <2>1 DEF AtHour, Time
  <2>3. t.m + 1 > 1 /\ (t.m + 1) - 1 = t.m
    BY <1>1
  <2> QED
    BY <1>4, <2>2, <2>3 DEF PreviousDay, Time
<1>5. CASE t.d = D /\ t.m = 12
  <2>1. AddDate(t, 0, 1) = Time(t.y + 1, 1, 1, t.h)
    BY <1>1, <1>2, <1>5, DaysLater
  <2> QED
    BY <1>1, <1>2, <1>5, <2>1 DEF AtHour, PreviousDay, Time
<1> QED
  BY <1>1, <1>2, <1>3, <1>4, <1>5

-----------------------------------------------------------------------------
(* Plans *)

\* What the assumption says of the fields of a form, and of a form.
LEMMA FormYears == \A y \in Years : y \in Nat /\ y > 2016
<1> SUFFICES ASSUME NEW y \in Years PROVE y \in Nat /\ y > 2016
  OBVIOUS
<1>1. y \in Nat /\ y \notin 0..2016
  BY FormAssumption
<1> QED
  BY <1>1

LEMMA FormFields ==
    ASSUME NEW y \in Years, NEW m \in Months, NEW d \in Days, NEW h \in Hours
    PROVE  /\ y \in Nat /\ y > 2016
           /\ m \in 1..12 /\ d \in 1..31 /\ h \in 0..23
BY FormYears, FormAssumption

LEMMA FormTime ==
    ASSUME NEW t \in [y : Years, m : Months, d : Days, h : Hours]
    PROVE  /\ t \in [y : Nat, m : 1..12, d : 1..31, h : 0..23]
           /\ t.y > 0
<1>1. t.y \in Years /\ t.m \in Months /\ t.d \in Days /\ t.h \in Hours
  OBVIOUS
<1>2. t.y \in Nat /\ t.y > 0 /\ t.m \in 1..12 /\ t.d \in 1..31 /\ t.h \in 0..23
  BY <1>1, FormFields
<1> QED
  BY <1>2

\* The stored time of a form exists: going back over midnight, over the first of
\* a month or over New Year ends on a day that month has.
LEMMA StoredTime ==
    ASSUME NEW t, IsTime(t), t.y > 0
    PROVE  IsTime(ToUTC(t))
<1>1. t \in [y : Nat, m : 1..12, d : 1..31, h : 0..23] /\ t.d <= DaysIn(t.y, t.m)
  BY DEF IsTime
<1>2. CASE t.h >= 3
  BY <1>1, <1>2 DEF ToUTC, AtHour, Time, IsTime
<1>3. CASE t.h < 3
  <2>1. CASE t.d > 1
    <3>1. ToUTC(t) = Time(t.y, t.m, t.d - 1, t.h + 21)
      BY <1>1, <1>3, <2>1 DEF ToUTC, AtHour, PreviousDay, Time
    <3>2. DaysIn(t.y, t.m) \in 28..31
      BY <1>1, MonthLength
    <3> QED
      BY <1>1, <1>3, <2>1, <3>1, <3>2 DEF IsTime, Time
  <2>2. CASE t.d = 1 /\ t.m > 1
    <3>1. ToUTC(t) = Time(t.y, t.m - 1, DaysIn(t.y, t.m - 1), t.h + 21)
      BY <1>1, <1>3, <2>2 DEF ToUTC, AtHour, PreviousDay, Time
    <3>2. DaysIn(t.y, t.m - 1) \in 28..31
      BY <1>1, <2>2, MonthLength
    <3> QED
      BY <1>1, <1>3, <2>2, <3>1, <3>2 DEF IsTime, Time
  <2>3. CASE t.d = 1 /\ t.m = 1
    <3>1. ToUTC(t) = Time(t.y - 1, 12, 31, t.h + 21)
      BY <1>1, <1>3, <2>3 DEF ToUTC, AtHour, PreviousDay, Time
    <3>2. DaysIn(t.y - 1, 12) = 31
      BY <1>1, MonthLength
    <3> QED
      BY <1>1, <1>3, <3>1, <3>2 DEF IsTime, Time
  <2> QED
    BY <1>1, <2>1, <2>2, <2>3
<1> QED
  BY <1>1, <1>2, <1>3

\* The two conversions undo each other.
LEMMA ThereAndBack ==
    ASSUME NEW t, IsTime(t), t.y > 0
    PROVE  ToIstanbul(ToUTC(t)) = t
<1>1. t \in [y : Nat, m : 1..12, d : 1..31, h : 0..23]
  BY DEF IsTime
<1>2. \A h \in 0..23 : AtHour(AtHour(t, h), t.h) = t
  BY <1>1 DEF AtHour, Time
<1>3. CASE t.h >= 3
  <2>1. ToUTC(t) = AtHour(t, t.h - 3) /\ ToUTC(t).h = t.h - 3
    BY <1>3 DEF ToUTC, AtHour, Time
  <2>2. t.h - 3 < 21 /\ (t.h - 3) + 3 = t.h /\ t.h - 3 \in 0..23
    BY <1>1, <1>3
  <2> QED
    BY <1>2, <2>1, <2>2 DEF ToIstanbul
<1>4. CASE t.h < 3
  <2> DEFINE p == AtHour(PreviousDay(t), t.h + 21)
  <2>1. ToUTC(t) = p
    BY <1>1, <1>4 DEF ToUTC
  <2>2. t.h + 21 \in 0..23 /\ ~(t.h + 21 < 21) /\ (t.h + 21) - 21 = t.h
    BY <1>1, <1>4
  <2>3. p.h = t.h + 21 /\ AddDate(p, 0, 1) = AtHour(t, t.h + 21)
    BY <2>2, DayBefore
  <2>4. ToIstanbul(p) = AtHour(AddDate(p, 0, 1), t.h)
    BY <2>2, <2>3 DEF ToIstanbul
  <2> QED
    BY <1>2, <2>1, <2>2, <2>3, <2>4
<1> QED
  BY <1>1, <1>3, <1>4

\* The hour the page shows depends on the stored hour alone, and the shown day
\* is the stored one or, late in its evening, the next.
LEMMA ShownDay ==
    ASSUME NEW t, IsTime(t)
    PROVE  /\ IsTime(ToIstanbul(t))
           /\ ToIstanbul(t).h = IF t.h < 21 THEN t.h + 3 ELSE t.h - 21
           /\ DayNumber(ToIstanbul(t)) =
                 DayNumber(t) + (IF t.h < 21 THEN 0 ELSE 1)
<1>1. t \in [y : Nat, m : 1..12, d : 1..31, h : 0..23] /\ DayNumber(t) \in Int
  BY DayNumberIs DEF IsTime
<1>2. \A u, h : DayNumber(AtHour(u, h)) = DayNumber(u)
  BY DEF DayNumber, AtHour, Time
<1>3. \A u : \A h \in 0..23 :
         IsTime(u) => IsTime(AtHour(u, h)) /\ AtHour(u, h).h = h
  BY DEF IsTime, AtHour, Time
<1>4. CASE t.h < 21
  BY <1>1, <1>2, <1>3, <1>4 DEF ToIstanbul
<1>5. CASE ~(t.h < 21)
  <2>1. ToIstanbul(t) = AtHour(AddDate(t, 0, 1), t.h - 21)
    BY <1>5 DEF ToIstanbul
  <2>2. t.h - 21 \in 0..23
    BY <1>1, <1>5
  <2> DEFINE u == AddDate(t, 0, 1)
  <2>3. IsTime(u) /\ DayNumber(u) = DayNumber(t) + 1
    BY AddDays, DaysCounted
  <2> HIDE DEF u
  <2>4. IsTime(AtHour(u, t.h - 21)) /\ AtHour(u, t.h - 21).h = t.h - 21
    BY <1>3, <2>2, <2>3
  <2>5. DayNumber(AtHour(u, t.h - 21)) = DayNumber(t) + 1
    BY <1>2, <2>3
  <2> QED
    BY <1>5, <2>1, <2>4, <2>5 DEF u
<1> QED
  BY <1>4, <1>5

LEMMA StartsOK == Init => TypeOK
<1> SUFFICES ASSUME Init PROVE TypeOK
  OBVIOUS
<1>1. /\ form \in [y : Years, m : Months, d : Days, h : Hours]
      /\ form.d <= DaysIn(form.y, form.m)
  BY DEF Init
<1>2. IsTime(form) /\ form.y > 0
  BY <1>1, FormTime DEF IsTime
<1>3. IsTime(at)
  BY <1>2, StoredTime DEF Init
<1> QED
  BY <1>1, <1>2, <1>3, FormAssumption DEF Init, TypeOK

LEMMA StepOK == TypeOK /\ [Reschedule]_vars => TypeOK' /\ [Before(at, at')]_vars
<1> SUFFICES ASSUME TypeOK, [Reschedule]_vars
             PROVE  TypeOK' /\ [Before(at, at')]_vars
  OBVIOUS
<1>1. CASE Reschedule
  <2>1. rule \in Repeat /\ IsTime(at)
    BY FormAssumption DEF TypeOK
  <2>2. IsTime(at') /\ Before(at, at')
    BY <1>1, <2>1, NextIsLater DEF Reschedule
  <2>3. count' \in 0..MaxRepeats
    BY <1>1, FormAssumption DEF Reschedule, TypeOK
  <2> QED
    BY <1>1, <2>2, <2>3 DEF Reschedule, TypeOK
<1>2. CASE UNCHANGED vars
  BY <1>2 DEF vars, TypeOK
<1> QED
  BY <1>1, <1>2

\* Every time a plan is ever stored with is a date that exists.
THEOREM TypeCorrect == Spec => []TypeOK
<1>1. TypeOK /\ [Reschedule]_vars => TypeOK'
  BY StepOK
<1> QED
  BY StartsOK, <1>1, PTL DEF Spec

\* For every form, year and rule: a repetition is strictly later.
THEOREM RepetitionsAdvance == Spec => StrictlyLater
<1>1. TypeOK /\ [Reschedule]_vars => [Before(at, at')]_vars
  BY StepOK
<1> QED
  BY <1>1, TypeCorrect, PTL DEF Spec, StrictlyLater

\* For every form and however many repetitions: a monthly plan skips at most one
\* month.  MonthlyDrift is inductive: a plan past the skip is in the first three
\* days of a month, where no month is too short for it.
THEOREM OneSkipAtMost == Spec => []MonthlyDrift
<1>1. Init => MonthlyDrift
  <2> SUFFICES ASSUME Init PROVE MonthlyDrift
    OBVIOUS
  <2>1. IsTime(at)
    BY StartsOK DEF TypeOK
  <2> QED
    BY <2>1 DEF Init, MonthlyDrift, MonthNumber, IsTime
<1>2. TypeOK /\ MonthlyDrift /\ [Reschedule]_vars => MonthlyDrift'
  <2> SUFFICES ASSUME TypeOK, MonthlyDrift, [Reschedule]_vars,
                      rule' = "monthly"
               PROVE  MonthlyDrift'
    BY DEF MonthlyDrift
  <2>1. CASE UNCHANGED vars
    BY <2>1 DEF vars, MonthlyDrift
  <2>2. CASE Reschedule
    <3> DEFINE start == ToUTC(form)
               gap   == MonthNumber(at) - MonthNumber(start) - count
               move  == MonthNumber(at') - MonthNumber(at)
    <3>1. /\ rule = "monthly" /\ form' = form /\ count' = count + 1
          /\ at' = AddDate(at, 1, 0)
      BY <2>2 DEF Reschedule, NextSchedule
    <3>2. /\ IsTime(at)
          /\ \/ move = 1 /\ at'.d = at.d
             \/ move = 2 /\ at.d > 28 /\ at'.d \in 1..3
          /\ IsTime(at')
      BY <3>1, AddMonth DEF TypeOK
    <3>3. IsTime(start)
      <4>1. IsTime(form) /\ form.y > 0
        BY FormTime DEF TypeOK
      <4> QED
        BY <4>1, StoredTime
    <3>4. /\ count \in Nat
          /\ gap \in {0, 1}
          /\ gap = 0 => at.d = start.d
          /\ gap = 1 => start.d > 28 /\ at.d \in 1..3
      BY <3>1, FormAssumption DEF TypeOK, MonthlyDrift
    <3>5. MonthNumber(at) \in Int /\ MonthNumber(at') \in Int
          /\ MonthNumber(start) \in Int /\ start.d \in Int /\ at.d \in Int
      BY <3>2, <3>3 DEF IsTime, MonthNumber
    <3>6. MonthNumber(at') - MonthNumber(start) - count' = gap + move - 1
      BY <3>1, <3>4, <3>5
    <3>7. /\ gap + move - 1 \in {0, 1}
          /\ gap + move - 1 = 0 => at'.d = start.d
          /\ gap + move - 1 = 1 => start.d > 28 /\ at'.d \in 1..3
      BY <3>2, <3>4, <3>5
    <3>8. /\ ToUTC(form') = start
          /\ MonthNumber(at') - MonthNumber(ToUTC(form')) - count'
                = gap + move - 1
      BY <3>1, <3>6
    <3> QED
      BY <3>7, <3>8 DEF MonthlyDrift
  <2> QED
    BY <2>1, <2>2
<1> QED
  BY <1>1, <1>2, StartsOK, TypeCorrect, PTL DEF Spec

\* The stored hour is that of the first occurrence: AddDate never changes it.
Stored ==
    /\ at.h = ToUTC(form).h
    /\ count = 0 => at = ToUTC(form)

LEMMA FormOK == TypeOK => IsTime(form) /\ form.y > 0 /\ IsTime(ToUTC(form))
BY FormTime, StoredTime DEF TypeOK

LEMMA StoredStays == Spec => []Stored
<1>1. Init => Stored
  BY DEF Init, Stored
<1>2. TypeOK /\ Stored /\ [Reschedule]_vars => Stored'
  <2> SUFFICES ASSUME TypeOK, Stored, [Reschedule]_vars PROVE Stored'
    OBVIOUS
  <2>1. CASE Reschedule
    <3>1. rule \in Repeat /\ count \in Nat
      BY FormAssumption DEF TypeOK
    <3>2. at'.h = at.h /\ form' = form /\ count' = count + 1
      BY <2>1, <3>1, SameHour DEF Reschedule
    <3>3. count' # 0
      BY <3>1, <3>2
    <3> QED
      BY <3>2, <3>3 DEF Stored
  <2>2. CASE UNCHANGED vars
    BY <2>2 DEF vars, Stored
  <2> QED
    BY <2>1, <2>2
<1> QED
  BY <1>1, <1>2, TypeCorrect, PTL DEF Spec

\* For every form and however many repetitions: the page shows the hour that was
\* submitted, and the first occurrence as it was submitted.
THEOREM ShownWhenSubmitted == Spec => []ShownAsSubmitted
<1>1. TypeOK /\ Stored => ShownAsSubmitted
  <2> SUFFICES ASSUME TypeOK, Stored PROVE ShownAsSubmitted
    OBVIOUS
  <2> DEFINE first == ToUTC(form)
  <2>1. /\ IsTime(form) /\ IsTime(first) /\ IsTime(at)
        /\ ToIstanbul(first) = form
    BY FormOK, ThereAndBack DEF TypeOK
  <2>2. at.h = first.h /\ (count = 0 => at = first)
    BY DEF Stored
  <2> HIDE DEF first
  <2>3. ToIstanbul(at).h = ToIstanbul(first).h
    BY <2>1, <2>2, ShownDay
  <2> QED
    BY <2>1, <2>2, <2>3 DEF ShownAsSubmitted
<1> QED
  BY <1>1, StoredStays, TypeCorrect, PTL

\* The stored days are counted from the first stored one.
Counted ==
    rule # "monthly" => DayNumber(at) = DayNumber(ToUTC(form)) + count * Step

LEMMA CountedStays == Spec => []Counted
<1>1. Init => Counted
  <2> SUFFICES ASSUME Init PROVE Counted
    OBVIOUS
  <2>1. DayNumber(at) \in Int
    BY StartsOK, DayNumberIs DEF TypeOK
  <2>2. at = ToUTC(form) /\ count = 0 /\ Step \in Int
    BY DEF Init, Step
  <2> QED
    BY <2>1, <2>2 DEF Counted
<1>2. TypeOK /\ Counted /\ [Reschedule]_vars => Counted'
  <2> SUFFICES ASSUME TypeOK, Counted, [Reschedule]_vars, rule' # "monthly"
               PROVE  Counted'
    BY DEF Counted
  <2> DEFINE n == DayNumber(at)
             n0 == DayNumber(ToUTC(form))
  <2>1. CASE Reschedule
    <3>1. /\ rule \in {"daily", "weekly"} /\ rule' = rule /\ form' = form
          /\ count \in Nat /\ count' = count + 1
          /\ at' = NextSchedule(at, rule)
      BY <2>1, FormAssumption DEF Reschedule, TypeOK, Repeat
    <3>2. IsTime(at) /\ n \in Int /\ n0 \in Int
      BY FormOK, DayNumberIs DEF TypeOK
    <3>3. n = n0 + count * Step
      BY <3>1 DEF Counted
    <3>4. DayNumber(at') = n + Step /\ Step' = Step /\ n0' = n0
      BY <3>1, <3>2, DaysCounted DEF NextSchedule, Step
    <3> HIDE DEF n, n0
    <3>5. DayNumber(at') = n0' + count' * Step'
      BY <3>1, <3>2, <3>3, <3>4 DEF Step
    <3> QED
      BY <3>5 DEF Counted, n0
  <2>2. CASE UNCHANGED vars
    BY <2>2 DEF vars, Counted, Step
  <2> QED
    BY <2>1, <2>2
<1> QED
  BY <1>1, <1>2, TypeCorrect, PTL DEF Spec

\* For every form and however many repetitions: the n-th repetition of a daily or
\* weekly plan is shown n days or weeks after the day the form named.  The stored
\* days are that far apart, and the shift between the zones is the same for all.
THEOREM RepetitionsEvenlySpaced == Spec => []EvenlySpaced
<1>1. TypeOK /\ Stored /\ Counted => EvenlySpaced
  <2> SUFFICES ASSUME TypeOK, Stored, Counted, rule # "monthly"
               PROVE  DayNumber(ToIstanbul(at)) = DayNumber(form) + count * Step
    BY DEF EvenlySpaced
  <2> DEFINE first == ToUTC(form)
             shift == IF first.h < 21 THEN 0 ELSE 1
             n     == DayNumber(at)
             n0    == DayNumber(first)
             gone  == count * Step
  <2>1. /\ IsTime(first) /\ IsTime(at) /\ ToIstanbul(first) = form
        /\ at.h = first.h
    BY FormOK, ThereAndBack DEF TypeOK, Stored
  <2>2. DayNumber(ToIstanbul(at)) = n + shift
    BY <2>1, ShownDay
  <2>3. DayNumber(form) = n0 + shift
    BY <2>1, ShownDay
  <2>4. n = n0 + gone /\ n \in Int /\ n0 \in Int
    BY <2>1, DayNumberIs DEF Counted
  <2>5. shift \in Int
    OBVIOUS
  <2>6. gone \in Int
    BY FormAssumption DEF TypeOK, Step
  <2> HIDE DEF shift, n, n0, gone
  <2>7. n + shift = (n0 + shift) + gone
    BY <2>4, <2>5, <2>6
  <2> QED
    BY <2>2, <2>3, <2>7 DEF gone
<1> QED
  BY <1>1, StoredStays, CountedStays, TypeCorrect, PTL

-----------------------------------------------------------------------------
(* The order of stored times *)

LEMMA LeapsGrow ==
    ASSUME NEW y \in Nat, NEW z \in Nat, y <= z
    PROVE  LeapsBefore(y) <= LeapsBefore(z)
<1> DEFINE a == (y - 1) \div 4
           b == (z - 1) \div 4
<1>1. /\ (y - 1) \div 100 = a \div 25 /\ (z - 1) \div 100 = b \div 25
      /\ a \in Int /\ b \in Int /\ a <= b
  OBVIOUS
<1>2. (y - 1) \div 400 <= (z - 1) \div 400
  OBVIOUS
<1>3. (y - 1) \div 400 \in Int /\ (z - 1) \div 400 \in Int
  OBVIOUS
<1> DEFINE c == (y - 1) \div 400
           e == (z - 1) \div 400
<1>4. LeapsBefore(y) = a - (a \div 25) + c /\ LeapsBefore(z) = b - (b \div 25) + e
  BY <1>1 DEF LeapsBefore
<1> HIDE DEF a, b, c, e
<1>5. a - (a \div 25) <= b - (b \div 25)
  BY <1>1
<1>6. a \div 25 \in Int /\ b \div 25 \in Int
  BY <1>1
<1> QED
  BY <1>1, <1>2, <1>3, <1>4, <1>5, <1>6 DEF c, e

\* A year is over before the next begins, and a month before the next.
LEMMA YearsApart ==
    ASSUME NEW y \in Nat, NEW z \in Nat, y < z, NEW m \in 1..12, NEW n \in 1..12
    PROVE  Elapsed(y, m) + DaysIn(y, m) <= Elapsed(z, n)
<1>1. /\ LeapsBefore(y) \in Int /\ LeapsBefore(z) \in Int
      /\ LeapsBefore(y + 1) = LeapsBefore(y) + (IF Leap(y) THEN 1 ELSE 0)
  BY LeapYear
<1>2. LeapsBefore(y + 1) <= LeapsBefore(z)
  BY LeapsGrow
<1>3. /\ DaysBeforeMonth[m] + DaysIn(y, m) + (IF m > 2 /\ Leap(y) THEN 1 ELSE 0)
            <= 365 + (IF Leap(y) THEN 1 ELSE 0)
      /\ DaysBeforeMonth[m] \in Int /\ DaysIn(y, m) \in Int
      /\ DaysBeforeMonth[n] \in Nat
  BY MonthStarts DEF DaysIn
<1>4. Elapsed(z, n) >= 365 * z + LeapsBefore(z)
  BY <1>1, <1>3 DEF Elapsed
<1>5. Elapsed(y, m) + DaysIn(y, m) <=
         365 * y + LeapsBefore(y) + 365 + (IF Leap(y) THEN 1 ELSE 0)
  BY <1>1, <1>3 DEF Elapsed
<1>6. Elapsed(y, m) \in Int /\ Elapsed(z, n) \in Int
  BY ElapsedType
<1> QED
  BY <1>1, <1>2, <1>3, <1>4, <1>5, <1>6

LEMMA MonthsApart ==
    ASSUME NEW y \in Nat, NEW m \in 1..12, NEW n \in 1..12, m < n
    PROVE  Elapsed(y, m) + DaysIn(y, m) <= Elapsed(y, n)
<1> DEFINE leap == IF Leap(y) THEN 1 ELSE 0
           past(k) == DaysBeforeMonth[k] + (IF k > 2 THEN leap ELSE 0)
<1>1. LeapsBefore(y) \in Int /\ leap \in {0, 1}
  BY LeapYear
<1>2. \A k \in 1..12 : Elapsed(y, k) = 365 * y + LeapsBefore(y) + past(k)
  BY <1>1, MonthStarts DEF Elapsed
<1>3. \A k \in 1..12 : past(k) \in Int /\ DaysIn(y, k) \in Int
  BY <1>1, MonthStarts DEF DaysIn
<1>4. \A k \in 1..11 : past(k + 1) = past(k) + DaysIn(y, k)
  BY <1>1, <1>2, <1>3, ElapsedMonth
<1>5. \A k \in 1..12 : DaysIn(y, k) > 0
  BY MonthLength
<1> HIDE DEF past
<1>6. past(m) + DaysIn(y, m) <= past(n)
  BY <1>3, <1>4, <1>5
<1> QED
  BY <1>1, <1>2, <1>3, <1>6

\* The hours since the beginning of year 0.
Moment(t) == 24 * DayNumber(t) + t.h

LEMMA InHours ==
    ASSUME NEW a \in Int, NEW b \in Int, NEW h \in 0..23, NEW k \in 0..23,
           a < b \/ (a = b /\ h < k)
    PROVE  24 * a + h < 24 * b + k
OBVIOUS

LEMMA BeforeIsEarlier ==
    ASSUME NEW s, IsTime(s), NEW t, IsTime(t), Before(s, t)
    PROVE  Moment(s) < Moment(t)
<1>1. /\ s.y \in Nat /\ s.m \in 1..12 /\ s.d \in 1..31 /\ s.h \in 0..23
      /\ t.y \in Nat /\ t.m \in 1..12 /\ t.d \in 1..31 /\ t.h \in 0..23
      /\ s.d <= DaysIn(s.y, s.m)
  BY DEF IsTime
<1> DEFINE from == Elapsed(s.y, s.m)
           upTo == Elapsed(t.y, t.m)
           D    == DaysIn(s.y, s.m)
<1>2. /\ DayNumber(s) = from + s.d /\ DayNumber(t) = upTo + t.d
      /\ from \in Int /\ upTo \in Int /\ D \in Int
  BY <1>1, DayNumberIs, ElapsedType, MonthLength
<1>3. CASE s.y < t.y \/ (s.y = t.y /\ s.m < t.m)
  <2>1. from + D <= upTo
    BY <1>1, <1>3, YearsApart, MonthsApart
  <2> HIDE DEF from, upTo, D
  <2>2. DayNumber(s) < DayNumber(t) /\ DayNumber(s) \in Int /\ DayNumber(t) \in Int
    BY <1>1, <1>2, <2>1 DEF D
  <2> QED
    BY <1>1, <2>2, InHours DEF Moment
<1>4. CASE s.y = t.y /\ s.m = t.m
  <2>1. from = upTo
    BY <1>4
  <2>2. s.d < t.d \/ (s.d = t.d /\ s.h < t.h)
    BY <1>1, <1>4 DEF Before
  <2> HIDE DEF from, upTo, D
  <2>3. /\ DayNumber(s) \in Int /\ DayNumber(t) \in Int
        /\ \/ DayNumber(s) < DayNumber(t)
           \/ DayNumber(s) = DayNumber(t) /\ s.h < t.h
    BY <1>1, <1>2, <2>1, <2>2
  <2> QED
    BY <1>1, <2>3, InHours DEF Moment
<1> QED
  BY <1>1, <1>3, <1>4 DEF Before

\* Any two times are comparable.
LEMMA BeforeOrEqual ==
    ASSUME NEW s, IsTime(s), NEW t, IsTime(t)
    PROVE  Before(s, t) \/ s = t \/ Before(t, s)
<1>1. /\ s \in [y : Nat, m : 1..12, d : 1..31, h : 0..23]
      /\ t \in [y : Nat, m : 1..12, d : 1..31, h : 0..23]
  BY DEF IsTime
<1>2. s.y = t.y /\ s.m = t.m /\ s.d = t.d /\ s.h = t.h => s = t
  BY <1>1
<1> QED
  BY <1>1, <1>2 DEF Before

\* The stored time is three hours back.
LEMMA ThreeHours ==
    ASSUME NEW t, IsTime(t), t.y > 0
    PROVE  Moment(ToUTC(t)) = Moment(t) - 3
<1>1. t.h \in 0..23 /\ DayNumber(t) \in Int
  BY DayNumberIs DEF IsTime
<1>2. CASE t.h >= 3
  <2>1. ToUTC(t) = AtHour(t, t.h - 3)
    BY <1>2 DEF ToUTC
  <2>2. DayNumber(ToUTC(t)) = DayNumber(t) /\ ToUTC(t).h = t.h - 3
    BY <2>1 DEF DayNumber, AtHour, Time
  <2> QED
    BY <1>1, <2>2 DEF Moment
<1>3. CASE t.h < 3
  <2>1. ToUTC(t) = AtHour(PreviousDay(t), t.h + 21) /\ t.h + 21 \in 0..23
    BY <1>1, <1>3 DEF ToUTC
  <2>2. DayNumber(ToUTC(t)) = DayNumber(t) - 1 /\ ToUTC(t).h = t.h + 21
    BY <2>1, DayBefore
  <2> QED
    BY <1>1, <2>2 DEF Moment
<1> QED
  BY <1>1, <1>2, <1>3

\* GetPendingMessages compares and sorts texts of stored times.  For any two forms
\* of any years, this is the order of the times they name, in hours: over midnight
\* between the zones, ends of months, leap days and New Year.  (So Scheduler may
\* take a date for a number.)
THEOREM StoredOrder ==
    ASSUME NEW s, IsTime(s), s.y > 0, NEW t, IsTime(t), t.y > 0
    PROVE  /\ Before(ToUTC(s), ToUTC(t)) <=> Moment(s) < Moment(t)
           /\ ToUTC(s) = ToUTC(t) <=> s = t
<1> DEFINE u == ToUTC(s)
           v == ToUTC(t)
<1>1. IsTime(u) /\ IsTime(v) /\ Moment(u) = Moment(s) - 3 /\ Moment(v) = Moment(t) - 3
  BY StoredTime, ThreeHours
<1>2. Moment(s) \in Int /\ Moment(t) \in Int
  BY DayNumberIs DEF Moment, IsTime
<1>3. u = v => s = t
  BY ThereAndBack
<1> HIDE DEF u, v
<1>4. Before(u, v) => Moment(s) < Moment(t)
  BY <1>1, <1>2, BeforeIsEarlier
<1>5. Before(v, u) => Moment(t) < Moment(s)
  BY <1>1, <1>2, BeforeIsEarlier
<1>6. Before(u, v) \/ u = v \/ Before(v, u)
  BY <1>1, BeforeOrEqual
<1> QED
  BY <1>2, <1>3, <1>4, <1>5, <1>6 DEF u, v

-----------------------------------------------------------------------------
(* The year view *)

\* The day before the first of the next month is the last of the month.
LEMMA MonthsEnd ==
    ASSUME NEW y \in Nat, NEW m \in 1..12
    PROVE  DaysInMonth(y, m) = DaysIn(y, m)
<1>1. CASE m < 12
  <2>1. CarryMonth(Time(y, m + 1, 1, 0)) = Time(y, m + 1, 1, 0)
    BY <1>1 DEF CarryMonth, Time
  <2>2. m + 1 > 1 /\ (m + 1) - 1 = m
    BY <1>1
  <2> QED
    BY <2>1, <2>2 DEF DaysInMonth, PreviousDay, Time
<1>2. CASE m = 12
  <2>1. CarryMonth(Time(y, m + 1, 1, 0)) = Time(y + 1, 1, 1, 0)
    BY <1>2 DEF CarryMonth, Time
  <2>2. DaysIn(y, 12) = 31
    BY MonthLength
  <2> QED
    BY <1>2, <2>1, <2>2 DEF DaysInMonth, PreviousDay, Time
<1> QED
  BY <1>1, <1>2

\* Every date that exists has its cell on the page of its year.
LEMMA OneCell ==
    ASSUME NEW t, IsTime(t)
    PROVE  Cells(t.y, Date(t)) = {Date(t)}
<1>1. /\ t.y \in Nat /\ t.m \in 1..12 /\ t.d \in 1..31
      /\ t.d <= DaysIn(t.y, t.m)
  BY DEF IsTime
<1>2. Date(t) \in {t.y} \X (1..12) \X (1..31)
  BY <1>1 DEF Date
<1>3. Date(t)[2] = t.m /\ Date(t)[3] = t.d
  BY DEF Date
<1>4. Date(t)[3] <= DaysInMonth(t.y, Date(t)[2])
  BY <1>1, <1>3, MonthsEnd
<1> QED
  BY <1>2, <1>4 DEF Cells

\* For every plan and repetition: a message has exactly one badge, on the day it
\* is shown for or, in Istanbul's first three hours, on the day before.
THEOREM BadgedOnce == Spec => []OneBadge
<1>1. TypeOK => OneBadge
  <2> SUFFICES ASSUME TypeOK PROVE OneBadge
    OBVIOUS
  <2> DEFINE shown == ToIstanbul(at)
             next  == AddDate(at, 0, 1)
  <2>1. IsTime(at) /\ at.h \in 0..23
    BY DEF TypeOK, IsTime
  <2>2. Cells(BadgeYear(at), BadgeDate(at)) = {Date(at)}
    BY <2>1, OneCell DEF BadgeYear, BadgeDate
  <2>3. Cardinality({Date(at)}) = 1
    BY FS_Singleton
  <2>4. {Date(at)} = IF shown.h >= 3 THEN {Date(shown)}
                                     ELSE {Date(PreviousDay(shown))}
    <3>1. CASE at.h < 21
      <4>1. shown = AtHour(at, at.h + 3)
        BY <3>1 DEF ToIstanbul
      <4> QED
        BY <2>1, <4>1 DEF AtHour, Time, Date
    <3>2. CASE ~(at.h < 21)
      <4>1. shown = AtHour(next, at.h - 21)
        BY <3>2 DEF ToIstanbul
      <4>2. at.h - 21 \in 0..23 /\ ~(at.h - 21 >= 3)
        BY <2>1, <3>2
      <4>3. Date(PreviousDay(shown)) = Date(at)
        BY <2>1, <4>1, <4>2, BackAgain DEF Date
      <4>4. shown.h = at.h - 21
        BY <4>1 DEF AtHour, Time
      <4> QED
        BY <4>2, <4>3, <4>4
    <3> QED
      BY <3>1, <3>2
  <2> QED
    BY <2>2, <2>3, <2>4 DEF OneBadge
<1> QED
  BY <1>1, TypeCorrect, PTL

LEMMA Weeks ==
    ASSUME NEW n \in Int, NEW k \in Int
    PROVE  (n + 7 * k) % 7 = n % 7
OBVIOUS

\* What Zeller's congruence adds for a month agrees with the days before the
\* month, whole weeks aside; in January and February it counts the year before.
Zeller(m) == (13 * (m + 1)) \div 5

LEMMA ZellerMonths ==
    /\ \A m \in 3..12 : DaysBeforeMonth[m] = Zeller(m) + 7 * (4 * m - 5)
    /\ \A m \in 1..2 :
         DaysBeforeMonth[m] + 1 = Zeller(m + 12) + 7 * (4 * m - 9)
<1>1. /\ Zeller(3) = 10 /\ Zeller(4) = 13 /\ Zeller(5) = 15 /\ Zeller(6) = 18
      /\ Zeller(7) = 20 /\ Zeller(8) = 23 /\ Zeller(9) = 26
      /\ Zeller(10) = 28 /\ Zeller(11) = 31 /\ Zeller(12) = 33
      /\ Zeller(1 + 12) = 36 /\ Zeller(2 + 12) = 39
  BY DEF Zeller
<1>2. \A m \in 3..12 : DaysBeforeMonth[m] = Zeller(m) + 7 * (4 * m - 5)
  BY <1>1, MonthStarts
<1>3. \A m \in 1..2 :
         DaysBeforeMonth[m] + 1 = Zeller(m + 12) + 7 * (4 * m - 9)
  BY <1>1, MonthStarts
<1> QED
  BY <1>2, <1>3

\* The day of the week goes round with the days.
LEMMA WeekdayCounts ==
    ASSUME NEW t, IsTime(t), t.y > 0
    PROVE  Weekday(t) = (DayNumber(t) + 6) % 7
<1> DEFINE y    == t.y
           m    == t.m
           d    == t.d
           gone == DaysBeforeMonth[m]
           leap == IF Leap(y) THEN 1 ELSE 0
           from == LeapsBefore(y)
           upTo == LeapsBefore(y + 1)
           n    == DayNumber(t)
<1>1. /\ y \in Nat /\ y - 1 \in Nat /\ m \in 1..12 /\ d \in Int
      /\ n \in Int /\ leap \in Int
  BY DayNumberIs DEF IsTime
<1>2. from \in Int /\ upTo = from + leap
  BY <1>1, LeapYear
<1>3. upTo = (y \div 4) - (y \div 100) + (y \div 400)
  BY <1>1, LeapYear
<1>4. from = ((y - 1) \div 4) - ((y - 1) \div 100) + ((y - 1) \div 400)
  BY DEF LeapsBefore
<1>5. gone \in Int
  BY <1>1, MonthStarts
<1>6. n = 365 * y + from + gone + (IF m > 2 THEN leap ELSE 0) + d
  BY DEF DayNumber
<1>7. CASE m > 2
  <2> DEFINE z    == Zeller(m)
             q4   == y \div 4
             q100 == y \div 100
             q400 == y \div 400
  <2>1. Weekday(t) = (d + z + y + q4 - q100 + q400 + 6) % 7
    BY <1>1, <1>7 DEF Weekday, Zeller
  <2>2. gone = z + 7 * (4 * m - 5) /\ z \in Int
    <3>1. gone = z + 7 * (4 * m - 5)
      BY <1>1, <1>7, ZellerMonths
    <3>2. z \in Int
      BY <1>1 DEF Zeller
    <3> QED
      BY <3>1, <3>2
  <2>3. upTo = q4 - q100 + q400 /\ q4 \in Int /\ q100 \in Int /\ q400 \in Int
    BY <1>1, <1>3
  <2> HIDE DEF y, m, d, gone, leap, from, upTo, n, z, q4, q100, q400
  <2>4. d + z + y + q4 - q100 + q400 + 6 = d + z + y + upTo + 6
    BY <1>1, <2>2, <2>3
  <2>5. Weekday(t) = (d + z + y + upTo + 6) % 7
    BY <2>1, <2>4
  <2>6. n + 6 = (d + z + y + upTo + 6) + 7 * (52 * y + (4 * m - 5))
    BY <1>1, <1>2, <1>5, <1>6, <1>7, <2>2
  <2> QED
    BY <1>1, <1>2, <2>2, <2>5, <2>6, Weeks DEF n
<1>8. CASE ~(m > 2)
  <2> DEFINE z    == Zeller(m + 12)
             b    == y - 1
             q4   == b \div 4
             q100 == b \div 100
             q400 == b \div 400
  <2>1. Weekday(t) = (d + z + b + q4 - q100 + q400 + 6) % 7
    BY <1>1, <1>8 DEF Weekday, Zeller
  <2>2. gone + 1 = z + 7 * (4 * m - 9) /\ z \in Int
    <3>1. gone + 1 = z + 7 * (4 * m - 9)
      BY <1>1, <1>8, ZellerMonths
    <3>2. z \in Int
      BY <1>1 DEF Zeller
    <3> QED
      BY <3>1, <3>2
  <2>3. from = q4 - q100 + q400 /\ q4 \in Int /\ q100 \in Int /\ q400 \in Int
    BY <1>1, <1>4
  <2> HIDE DEF m, d, gone, leap, from, upTo, n, z, q4, q100, q400
  <2>4. d + z + b + q4 - q100 + q400 + 6 = d + z + b + from + 6
    BY <1>1, <2>2, <2>3
  <2>5. Weekday(t) = (d + z + b + from + 6) % 7
    BY <2>1, <2>4
  <2>6. n + 6 = (d + z + b + from + 6) + 7 * (52 * y + (4 * m - 9))
    BY <1>1, <1>2, <1>5, <1>6, <1>8, <2>2
  <2> QED
    BY <1>1, <1>2, <2>2, <2>5, <2>6, Weeks DEF n
<1> QED
  BY <1>7, <1>8

\* The first of the month is in the column of its day of the week, and the days
\* after it follow.
LEMMA ColumnCounts ==
    ASSUME NEW t, IsTime(t), t.y > 0
    PROVE  Column(t.y, t.m, t.d) = (DayNumber(t) + 5) % 7
<1> DEFINE first == Time(t.y, t.m, 1, 0)
           n     == DayNumber(t)
           n0    == DayNumber(first)
           d     == t.d
<1>1. /\ t.y \in Nat /\ t.m \in 1..12 /\ d \in 1..31
      /\ DaysIn(t.y, t.m) \in 28..31
  BY MonthLength DEF IsTime
<1>2. IsTime(first) /\ first.y > 0
  BY <1>1 DEF IsTime, Time
<1>3. n = Elapsed(t.y, t.m) + d /\ n0 = Elapsed(t.y, t.m) + 1
      /\ Elapsed(t.y, t.m) \in Int
  BY <1>1, <1>2, DayNumberIs, ElapsedType DEF Time
<1>4. Column(t.y, t.m, d) = (((((n0 + 6) % 7) + 6) % 7) + d - 1) % 7
  BY <1>2, WeekdayCounts DEF Column, StartOffset
<1> HIDE DEF n, n0, d
<1>5. n \in Int /\ n0 \in Int /\ n0 = n - d + 1
  BY <1>1, <1>3
<1>6. (((((n0 + 6) % 7) + 6) % 7) + d - 1) % 7 = (n + 5) % 7
  BY <1>1, <1>5
<1> QED
  BY <1>4, <1>6 DEF n, d

LEMMA Weekend ==
    ASSUME NEW n \in Int
    PROVE  (n + 5) % 7 >= 5 <=> (n + 6) % 7 \in {0, 6}
OBVIOUS

\* For every form and however many repetitions: a weekly plan keeps its column,
\* and the columns coloured as a weekend are those of its weekend days.  The
\* stored days are whole weeks apart, and columns and days of the week go round
\* with the days.
THEOREM WeeklyKeepsColumn == Spec => []WeeklyInColumn
<1> DEFINE Late == at.y > 0 /\ ToUTC(form).y > 0
<1>1. Spec => []Late
  <2>1. TypeOK => ToUTC(form).y > 0
    <3> SUFFICES ASSUME TypeOK PROVE ToUTC(form).y > 0
      OBVIOUS
    <3>1. form.y \in Years
      BY DEF TypeOK
    <3>2. form.y \in Nat /\ form.y > 1
      BY <3>1, FormYears
    <3> QED
      BY <3>2 DEF ToUTC, AtHour, PreviousDay, Time
  <2>2. Init /\ TypeOK => Late
    BY <2>1 DEF Init
  <2>3. TypeOK /\ TypeOK' /\ Late /\ [Reschedule]_vars => Late'
    <3> SUFFICES ASSUME TypeOK, TypeOK', Late, [Reschedule]_vars PROVE Late'
      OBVIOUS
    <3>1. Before(at, at') \/ at' = at
      BY StepOK DEF vars
    <3>2. at.y \in Nat /\ at'.y \in Nat
      BY DEF TypeOK, IsTime
    <3>3. at'.y > 0
      BY <3>1, <3>2 DEF Before
    <3>4. form' = form
      BY DEF Reschedule, vars
    <3> QED
      BY <3>3, <3>4
  <2> QED
    BY <2>2, <2>3, StartsOK, TypeCorrect, PTL DEF Spec
<1>2. TypeOK /\ Late /\ Counted => WeeklyInColumn
  <2> SUFFICES ASSUME TypeOK, Late, Counted, rule = "weekly"
               PROVE  WeeklyInColumn
    BY DEF WeeklyInColumn
  <2> DEFINE first == ToUTC(form)
             n     == DayNumber(at)
             n0    == DayNumber(first)
  <2>1. IsTime(first) /\ IsTime(at) /\ n \in Int /\ n0 \in Int
    BY FormOK, DayNumberIs DEF TypeOK
  <2>2. n = n0 + count * 7 /\ count \in Int
    BY FormAssumption DEF Counted, Step, TypeOK
  <2>3. /\ Column(at.y, at.m, at.d) = (n + 5) % 7
        /\ Column(first.y, first.m, first.d) = (n0 + 5) % 7
        /\ Weekday(at) = (n + 6) % 7
    BY <2>1, ColumnCounts, WeekdayCounts
  <2> HIDE DEF n, n0, first
  <2>4. n + 5 = (n0 + 5) + 7 * count
    BY <2>1, <2>2
  <2>5. (n + 5) % 7 = (n0 + 5) % 7
    BY <2>1, <2>2, <2>4, Weeks
  <2>6. IsWeekend(at.y, at.m, at.d) <=> Weekday(at) \in {0, 6}
    BY <2>1, <2>3, Weekend DEF IsWeekend
  <2> QED
    BY <2>3, <2>5, <2>6 DEF WeeklyInColumn, first
<1> QED
  BY <1>1, <1>2, CountedStays, TypeCorrect, PTL
=============================================================================
