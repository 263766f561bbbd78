SPECIFICATION Spec
CONSTANTS
    MinutesPerHour = 2
    HoursPerDay = 4
    DaysPerWeek = 3
    MonthLength <- Months
    Forward = 34
    Back = 82
    MaxDelay = 3
INVARIANTS
    NextRunRight

CHECK_DEADLOCK FALSE
