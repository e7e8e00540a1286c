SPECIFICATION Spec
CONSTANTS
    Years <- LeapYears
    Months <- AllMonths
    Days <- AllDays
    Hours <- EdgeHours
    Rules <- Repeat
    MaxRepeats = 14
INVARIANTS TypeOK EvenlySpaced ShownAsSubmitted MonthlyDrift OneBadge WeeklyInColumn
PROPERTY StrictlyLater
CHECK_DEADLOCK FALSE
