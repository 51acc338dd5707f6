SPECIFICATION Spec
CONSTANTS
    DayLen = 4
    WeekLen = 7
    Spring = 5
    Autumn = 9
    Horizon = 14
    Cron <- Daily
    Lookback = 8
    DetectEvery = 1
    MaxAgeDays = 1
    MaxDelay = 2
    MaxEvents = 2
INVARIANTS
    LateSurfaces
CHECK_DEADLOCK FALSE
