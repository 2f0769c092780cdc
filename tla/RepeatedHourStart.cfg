\* Starts in the second pass of a repeated time too.
SPECIFICATION Spec
CONSTANTS
    Minute = 1
    Hour = 2
    DayTicks = 6
    WeekDays = 2
    YearMonths = 2
    MonthFirst <- FirstDays
    Summer <- SummerTime
    Shift = 2
    Starts <- AllStarts
    Frequencies = {"minutely", "hourly", "daily", "weekly", "monthly", "yearly", "once"}
    Horizon = 80
    None = None
\* The clock stops at Horizon, and a "once" schedule ends.
CHECK_DEADLOCK FALSE
INVARIANTS
    ClockChangesAsDocumented
