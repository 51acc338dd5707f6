SPECIFICATION Spec
CONSTANTS
    DayLen = 6
    WeekLen = 7
    Spring = 20
    Autumn = 26
    Horizon = 26
    Cron <- Weekdays
    Lookback = 12
    DetectEvery = 1
    MaxAgeDays = 1
    MaxDelay = 1
    MaxEvents = 0
PROPERTIES
    LateStaysInView
CHECK_DEADLOCK FALSE
