SPECIFICATION FairSpec
CONSTANTS
    ApiRuns = {a}
    WaveRuns = {w}
    Verifiers = {v}
    Clients = {}
    NoRun = NoRun
    NoWrite = NoWrite
    MaxLines = 3
    MaxCrashes = 2
    TornWrites = TRUE
    DiskFails = FALSE
    a = a
    w = w
    v = v
INVARIANTS HonestInterruption SweepSettles ProducersRegistered
PROPERTY NoLimbo
CHECK_DEADLOCK FALSE
