SPECIFICATION FairSpec
CONSTANTS
    u1 = u1
    u2 = u2
    r1 = r1
    r2 = r2
    r3 = r3
    Users = {u1, u2}
    Reqs = {r1, r2, r3}
    Creators = {r1, r2}
    CreatorOps = {"direct"}
    OtherOps = {"direct", "remove"}
    Ops <- MCOps
    MaxGroup = 3
    MemberLists <- MCMemberLists
    Faults = TRUE
    NoConv = NoConv
    NoRow = NoRow
    NoRead = NoRead
    NoUser = NoUser
CHECK_DEADLOCK FALSE
INVARIANT TypeOK
INVARIANT DirectChatUnique
INVARIANT SameChat
INVARIANT IndexBehindRow
PROPERTY ImplementsRegistry
PROPERTY ClaimCompletes
