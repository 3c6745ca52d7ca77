SPECIFICATION Spec
SYMMETRY Symmetry
CONSTANTS
    LogFailures = {2}
    RunFailures = {1, 3}
    Class <- ClassOf
    Errors = {1}
    Runs = {r}
    a = a
    b = b
    Loggers = {a, b}
    Retention = 1
    TopN = 2
    FixN = 1
    WeekLength = 2
    MaxDay = 3
    MaxEvents = 2
    Bursts = {1, 6}
CHECK_DEADLOCK FALSE
INVARIANTS ReportHonest RecentLogsKept
