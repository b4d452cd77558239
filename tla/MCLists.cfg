SPECIFICATION Spec
CONSTANTS
    NumMsgs = 2
    NumConvs = 3
    Msgs <- MCMsgs
    Convs <- MCConvs
    Earlier <- MCEarlier
    Limits = {0, 1, 5}
    DefaultPageSize = 1
    MaxPageSize = 2
    Milli = 2
    MaxChanges = 1
    None = None
CHECK_DEADLOCK FALSE
INVARIANT TypeOK
INVARIANT NewestFirst
INVARIANT NothingMissed
