SPECIFICATION Spec
CONSTANTS
    Calls = {c, d}
    Patterns = {p, q}
    NoPattern = NoPattern
    Never = Never
    Main = Main
    Hostings = {"github", "mock", "dry_run"}
    Window = 1
    MaxTime = 2
    MaxRequests = 2
    MaxCrashes = 1
CHECK_DEADLOCK FALSE
SYMMETRY Symmetry
INVARIANTS OnePullPerPattern AuditExact OwnEraUntilTrouble
PROPERTY DedupRespected
