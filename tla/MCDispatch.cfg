SPECIFICATION Spec
CONSTANTS
    p1 = p1
    p2 = p2
    Procs = {p1, p2}
    Fronts = {p1}
    MaxInFlight <- MCMaxInFlight
    MaxStops = 0
    Envs = {"local"}
    RetryCount = 1
    DeadLetters = TRUE
    MaxLog = 2
    NoProc = NoProc
CHECK_DEADLOCK FALSE
INVARIANT Dispatched
