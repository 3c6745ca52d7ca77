SPECIFICATION FairSpec
CONSTANTS
    both = both
    prOnly = prOnly
    fixOnly = fixOnly
    notebook = notebook
    FixFiles = {both, fixOnly, notebook}
    PrFiles = {both, prOnly}
    Importable = {both, prOnly, fixOnly}
    InImage = {both, prOnly}
    InDeps = {both, fixOnly}
    Flat = {both, fixOnly}
    MaxRepair = 2
    NoRun = NoRun
CHECK_DEADLOCK FALSE
INVARIANTS AttemptsIsolated FixAlone VerdictMeans TimelineTrue ReportedOnce
PROPERTY VerificationEnds
