SPECIFICATION Spec
CONSTANTS
    MaxDay <- MCMaxDay
    TickDays <- MCTickDays
    Nanoseconds <- MCNanoseconds
    MaxYear = 3037
INVARIANTS
    StampShowsItsDate
    SetTimeReadsBack
    AcceptsCalendarDays
CHECK_DEADLOCK FALSE
