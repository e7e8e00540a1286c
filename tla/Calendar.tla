------------------------------ MODULE Calendar ------------------------------
(***************************************************************************)
(* When a scheduled message is due: the time a form names (Istanbul wall   *)
(* clock), the UTC time stored for it, the times nextSchedule gives the    *)
(* repetitions, and the time the index page shows.                         *)
(*                                                                         *)
(* A time is a date and an hour; minutes go along unchanged everywhere.    *)
(* Istanbul is UTC+3 all the year round since 2016, so years before 2017   *)
(* are left out.                                                           *)
(***************************************************************************)
EXTENDS Integers

CONSTANTS
    Years,      \* the years, months, days and hours forms may name
    Months,
    Days,
    Hours,
    Rules,      \* the repeat rules they may name
    MaxRepeats  \* bound: repetitions followed

Repeat == {"daily", "weekly", "monthly"}

ASSUME FormAssumption ==
    /\ Years \subseteq Nat \ 0..2016
    /\ Months \subseteq 1..12
    /\ Days \subseteq 1..31
    /\ Hours \subseteq 0..23
    /\ Rules \subseteq Repeat
    /\ MaxRepeats \in Nat

-----------------------------------------------------------------------------
(* Dates *)

Leap(y) == y % 4 = 0 /\ (y % 100 # 0 \/ y % 400 = 0)

DaysIn(y, m) ==
    IF m = 2 THEN IF Leap(y) THEN 29 ELSE 28
    ELSE IF m \in {4, 6, 9, 11} THEN 30 ELSE 31

IsTime(t) ==
    /\ t \in [y : Nat, m : 1..12, d : 1..31, h : 0..23]
    /\ t.d <= DaysIn(t.y, t.m)

\* The order of times, which is also that of their RFC 3339 texts: the one
\* GetPendingMessages selects and sorts by.
Before(s, t) ==
    \/ s.y < t.y
    \/ s.y = t.y /\ s.m < t.m
    \/ s.y = t.y /\ s.m = t.m /\ s.d < t.d
    \/ s.y = t.y /\ s.m = t.m /\ s.d = t.d /\ s.h < t.h

Time(year, month, day, hour) == [y |-> year, m |-> month, d |-> day, h |-> hour]

\* The year is not carried.
CarryMonthOnly(t) ==
    IF t.m > 12 THEN Time(t.y, t.m - 12, t.d, t.h) ELSE t

\* The first months of the next year, when the month is past December.
CarryMonth(t) ==
    IF t.m > 12 THEN Time(t.y + 1, t.m - 12, t.d, t.h) ELSE t

\* The first days of the next month, when the day is past the end of its month.
CarryDay(t) ==
    IF t.d > DaysIn(t.y, t.m)
    THEN CarryMonth(Time(t.y, t.m + 1, t.d - DaysIn(t.y, t.m), t.h))
    ELSE t

\* The days are not brought into range.
AddUncarried(t, months, days) ==
    CarryMonth(Time(t.y, t.m + months, t.d + days, t.h))

\* time.AddDate.  time.Date brings the sum into range: the months first, then
\* the days.  With one month or a week added, one carry of each is enough.
AddDate(t, months, days) ==
    CarryDay(CarryMonth(Time(t.y, t.m + months, t.d + days, t.h)))

PreviousDay(t) ==
    IF t.d > 1 THEN Time(t.y, t.m, t.d - 1, t.h)
    ELSE IF t.m > 1 THEN Time(t.y, t.m - 1, DaysIn(t.y, t.m - 1), t.h)
    ELSE Time(t.y - 1, 12, 31, t.h)

AtHour(t, h) == Time(t.y, t.m, t.d, h)

-----------------------------------------------------------------------------
(* wami *)

\* Only the hour is shifted.
ShiftHour(t) == AtHour(t, (t.h + 21) % 24)

\* handleScheduleSubmit parses in Istanbul, CreateScheduledMessage stores UTC.
ToUTC(t) ==
    IF t.h >= 3 THEN AtHour(t, t.h - 3) ELSE AtHour(PreviousDay(t), t.h + 21)

\* GetAllScheduled turns the stored time back into Istanbul's.
ToIstanbul(t) ==
    IF t.h < 21 THEN AtHour(t, t.h + 3)
    ELSE AtHour(AddDate(t, 0, 1), t.h - 21)

\* A week of six days, and a month of thirty.
NextByDays(t, rule) ==
    CASE rule = "daily"   -> AddDate(t, 0, 1)
      [] rule = "weekly"  -> AddDate(t, 0, 6)
      [] rule = "monthly" -> CarryDay(AddDate(t, 0, 30))

\* nextSchedule, on the stored time.
NextSchedule(t, rule) ==
    CASE rule = "daily"   -> AddDate(t, 0, 1)
      [] rule = "weekly"  -> AddDate(t, 0, 7)
      [] rule = "monthly" -> AddDate(t, 1, 0)

VARIABLES
    rule,       \* repeat_rule of the plan
    form,       \* the wall-clock time it was submitted for
    at,         \* scheduled_at of its pending row
    count       \* its repetitions so far

vars == <<rule, form, at, count>>

\* A plan is submitted; the form's date field admits only dates that exist.
Init ==
    /\ rule \in Rules
    /\ form \in [y : Years, m : Months, d : Days, h : Hours]
    /\ form.d <= DaysIn(form.y, form.m)
    /\ at = ToUTC(form)
    /\ count = 0

\* process sent the pending row and inserted the next one.
Reschedule ==
    /\ count < MaxRepeats
    /\ at' = NextSchedule(at, rule)
    /\ count' = count + 1
    /\ UNCHANGED <<rule, form>>

Spec == Init /\ [][Reschedule]_vars

-----------------------------------------------------------------------------
(* Properties *)

TypeOK ==
    /\ rule \in Rules
    /\ form \in [y : Years, m : Months, d : Days, h : Hours]
    /\ IsTime(form)
    /\ IsTime(at)
    /\ count \in 0..MaxRepeats

\* A repetition is strictly later, as a date and as the text the query compares:
\* otherwise the pending rows of a plan would be due all at once, for ever.
StrictlyLater == [][Before(at, at')]_vars

\* The number of days before the given date, counted from year 0: the reference
\* that the carries are checked against.
DaysBeforeMonth == <<0, 31, 59, 90, 120, 151, 181, 212, 243, 273, 304, 334>>
LeapsBefore(y) == ((y - 1) \div 4) - ((y - 1) \div 100) + ((y - 1) \div 400)
DayNumber(t) ==
    365 * t.y + LeapsBefore(t.y) + DaysBeforeMonth[t.m]
        + (IF t.m > 2 /\ Leap(t.y) THEN 1 ELSE 0) + t.d

Step == IF rule = "daily" THEN 1 ELSE 7

\* Daily and weekly repetitions keep their distance over months, years and leap
\* days: the n-th is n days or weeks after the time the form named.
EvenlySpaced ==
    rule # "monthly" =>
        DayNumber(ToIstanbul(at)) = DayNumber(form) + count * Step

\* The page shows a repetition at the hour that was submitted, and the first
\* occurrence exactly as submitted, across the change of day between the zones.
ShownAsSubmitted ==
    /\ ToIstanbul(at).h = form.h
    /\ count = 0 => ToIstanbul(at) = form

MonthNumber(t) == 12 * t.y + t.m

\* However often a monthly plan repeats, it skips at most one month, and only a
\* plan of the last days of a month moves, to one of the first days.
MonthlyDrift ==
    rule = "monthly" =>
        LET start == ToUTC(form)
            gap   == MonthNumber(at) - MonthNumber(start) - count
        IN  /\ gap \in {0, 1}
            /\ gap = 0 => at.d = start.d
            /\ gap = 1 => start.d > 28 /\ at.d \in 1..3
=============================================================================
