SPECIFICATION Spec
CONSTANTS
    u1 = u1
    u2 = u2
    u3 = u3
    r1 = r1
    r2 = r2
    r3 = r3
    Users = {u1, u2, u3}
    Reqs = {r1, r2, r3}
    Creators = {r1}
    CreatorOps = {"group"}
    OtherOps = {"add", "remove", "read"}
    Ops <- MCOps
    MaxGroup = 3
    MemberLists <- MCMemberLists
    Faults = TRUE
    NoConv = NoConv
    NoRow = NoRow
    NoRead = NoRead
    NoUser = NoUser
SYMMETRY Symmetry
CHECK_DEADLOCK FALSE
INVARIANT MembersAdmitted
INVARIANT IndexBehindRow
INVARIANT AckListed
