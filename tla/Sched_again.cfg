SPECIFICATION Spec
CONSTANTS
    DayLen = 6
    LastDay = 3
    N = 2
    Values <- ByDay
    ClockTimes = {8, 20, 22}
    MaxTime = 24
    TimerWrap = 8
PROPERTIES NotAgain
CHECK_DEADLOCK FALSE
