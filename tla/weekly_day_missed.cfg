SPECIFICATION Spec
CONSTANTS
    WeekLen = 2
    WeeklyDay = 0
    MaxDay = 5
    MaxCrashes = 1
    SaveFails = FALSE
    ManualScans = FALSE
    NoDay = NoDay
    NoWeek = NoWeek
    Torn = Torn
CHECK_DEADLOCK FALSE
INVARIANT LastWeekCaughtUp
