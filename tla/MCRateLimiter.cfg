SPECIFICATION Spec
CONSTANTS
    r1 = r1
    r2 = r2
    r3 = r3
    r4 = r4
    Reqs = {r1, r2, r3, r4}
    Max = 2
    Window = 2
    Horizon = 5
    Faults = TRUE
    Never = Never
SYMMETRY Symmetry
CHECK_DEADLOCK FALSE
INVARIANT TypeOK
INVARIANT WindowLimit
