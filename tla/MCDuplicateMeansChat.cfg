SPECIFICATION Spec
CONSTANTS
    u1 = u1
    u2 = u2
    r1 = r1
    r2 = r2
    Users = {u1, u2}
    Reqs = {r1, r2}
    Creators = {r1, r2}
    CreatorOps = {"direct"}
    OtherOps = {}
    Ops <- MCOps
    MaxGroup = 3
    MemberLists <- MCMemberLists
    Faults = TRUE
    NoConv = NoConv
    NoRow = NoRow
    NoRead = NoRead
    NoUser = NoUser
SYMMETRY Symmetry
CHECK_DEADLOCK FALSE
INVARIANT DuplicateMeansChat
