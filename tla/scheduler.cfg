SPECIFICATION Spec
CONSTANTS
    WeekLen = 2
    WeeklyDay = 0
    MaxDay = 4
    MaxCrashes = 1
    SaveFails = TRUE
    ManualScans = TRUE
    NoDay = NoDay
    NoWeek = NoWeek
    Torn = Torn
CHECK_DEADLOCK FALSE
INVARIANTS FiresOnce DecisionDurable YesterdayCaughtUp ReportedWeeksPosted
PROPERTY NoScanAfterReport
