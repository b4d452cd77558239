SPECIFICATION FairSpec
CONSTANTS
    a = a
    b = b
    k1 = k1
    k2 = k2
    r1 = r1
    r2 = r2
    Kids = {a, b}
    Keys = {k1, k2}
    Reqs = {r1, r2}
    MaxRotations = 1
    NoKey = NoKey
    NoReq = NoReq
CHECK_DEADLOCK FALSE
INVARIANT TypeOK
INVARIANT AcceptedWasIssued
INVARIANT LiveKeyAccepted
PROPERTY EveryoneAnswered
