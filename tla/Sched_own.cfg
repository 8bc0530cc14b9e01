SPECIFICATION Spec
CONSTANTS
    DayLen = 6
    LastDay = 3
    N = 2
    Values <- ByDay
    ClockTimes = {8, 13}
    MaxTime = 24
    TimerWrap = 8
INVARIANTS SchedTypeOK Armed Kept
PROPERTIES NoEventMissed Chronological OnlyNew
CHECK_DEADLOCK FALSE
