------------------------------- MODULE Takvim -------------------------------
(***************************************************************************)
(* The year view of templates/takvim.templ: for every month a card with    *)
(* the days in columns from Monday to Sunday, and on a day a badge with    *)
(* the number of messages GetScheduledCountByDay counts for it.  (No route *)
(* leads to the page and nothing calls the query; both are complete.)      *)
(*                                                                         *)
(* Here the page is drawn for a plan of Calendar, between its repetitions. *)
(***************************************************************************)
EXTENDS Calendar, FiniteSets

Date(t) == <<t.y, t.m, t.d>>

\* Zeller's congruence, from Sunday = 0: what time.Time.Weekday returns.
Weekday(t) ==
    LET y == IF t.m < 3 THEN t.y - 1 ELSE t.y
        m == IF t.m < 3 THEN t.m + 12 ELSE t.m
    IN  (t.d + (13 * (m + 1)) \div 5 + y + y \div 4 - y \div 100 + y \div 400 + 6)
            % 7

-----------------------------------------------------------------------------
(* MonthCard *)

\* Sunday in the first column.
SundayFirst(year, month) == Weekday(Time(year, month, 1, 0))

\* startOffset: the empty cells before the first day, Monday in the first column.
StartOffset(year, month) == (Weekday(Time(year, month, 1, 0)) + 6) % 7

\* The month is passed on as it is, and the day before its first is the last.
ThisMonthsZeroth(year, month) == PreviousDay(Time(year, month, 1, 0)).d

\* time.Date(year, month + 1, 0): the day before the first of the next month.
DaysInMonth(year, month) ==
    PreviousDay(CarryMonth(Time(year, month + 1, 1, 0))).d

\* The grid is filled from left to right, seven cells a row.
Column(year, month, day) == (StartOffset(year, month) + day - 1) % 7

\* isWeekend colours the last two columns.
IsWeekend(year, month, day) == Column(year, month, day) >= 5

\* The cells of a year that carry the badge of the given date.
Cells(year, date) ==
    {c \in {year} \X (1..12) \X (1..31) :
        c = date /\ c[3] <= DaysInMonth(year, c[2])}

-----------------------------------------------------------------------------
(* GetScheduledCountByDay *)

\* Every row of the year, sent or not.
BadgeYear(t) == t.y

\* date(scheduled_at): the date of the stored time, which is UTC.
BadgeDate(t) == Date(t)

-----------------------------------------------------------------------------
(* Properties *)

\* A message has its badge in one cell of one year's page, on the day the index
\* page shows for it or, in Istanbul's first three hours, on the day before.
OneBadge ==
    LET shown == ToIstanbul(at)
        cells == Cells(BadgeYear(at), BadgeDate(at))
    IN  /\ Cardinality(cells) = 1
        /\ cells = IF shown.h >= 3 THEN {Date(shown)}
                                   ELSE {Date(PreviousDay(shown))}

\* A weekly plan keeps its column in the year view, and its side of the weekend,
\* over all ends of months, years and Februaries.
WeeklyInColumn ==
    LET first == ToUTC(form)
    IN  rule = "weekly" =>
            /\ Column(at.y, at.m, at.d) = Column(first.y, first.m, first.d)
            /\ IsWeekend(at.y, at.m, at.d) <=> Weekday(at) \in {0, 6}
=============================================================================
