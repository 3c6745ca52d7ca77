SPECIFICATION Spec
CONSTANTS
    Calls = {c}
    Patterns = {p}
    NoPattern = NoPattern
    Never = Never
    Main = Main
    Hostings = {"github"}
    Window = 2
    MaxTime = 1
    MaxRequests = 2
    MaxCrashes = 0
CHECK_DEADLOCK FALSE
INVARIANT NeverNested
