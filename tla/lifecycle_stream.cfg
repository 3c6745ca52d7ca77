SPECIFICATION FairSpec
CONSTANTS
    ApiRuns = {a}
    WaveRuns = {}
    Verifiers = {v}
    Clients = {c}
    NoRun = NoRun
    NoWrite = NoWrite
    MaxLines = 4
    MaxCrashes = 2
    TornWrites = TRUE
    DiskFails = TRUE
    a = a
    v = v
    c = c
INVARIANTS StreamExact DoneIsComplete
PROPERTIES ImplementsLog StreamEnds
CHECK_DEADLOCK FALSE
