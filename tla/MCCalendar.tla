----------------------------- MODULE MCCalendar -----------------------------
(* Instances of Calendar and Takvim around the ends of months, years and days. *)
EXTENDS Takvim

\* A year before a leap year, a leap year, and a century that is none.
LeapYears == {2023, 2024, 2100}
AllMonths == 1..12
AllDays == 1..31
\* The last hours Istanbul is a day ahead, and the first it is not.
EdgeHours == {0, 2, 3, 23}
=============================================================================
