SPECIFICATION Spec
CONSTANTS
    u1 = u1
    u2 = u2
    k1 = k1
    k2 = k2
    k3 = k3
    Users = {u1, u2}
    Calls = {k1, k2, k3}
    StaleCutoff = 3
    CleanupPeriod = 2
    TypingTTL = 2
    MaxDelay = 1
    MaxTime = 8
SYMMETRY Symmetry
CHECK_DEADLOCK FALSE
INVARIANT TypeOK
INVARIANT FreshStays
INVARIANT StaleGoes
INVARIANT TypingForgotten
