SPECIFICATION Spec
CONSTANTS
    DayLen = 4
    WeekLen = 7
    Spring = 5
    Autumn = 9
    Horizon = 16
    Cron <- Monthly
    Lookback = 8
    DetectEvery = 1
    MaxAgeDays = 1
    MaxDelay = 1
    MaxEvents = 1
INVARIANTS
    NothingSlipsThrough
CHECK_DEADLOCK FALSE
