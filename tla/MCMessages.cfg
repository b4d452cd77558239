SPECIFICATION Spec
CONSTANTS
    u1 = u1
    u2 = u2
    c1 = c1
    e1 = e1
    e2 = e2
    r1 = r1
    r2 = r2
    r3 = r3
    Users = {u1, u2}
    Convs = {c1}
    Emojis = {e1, e2}
    Reqs = {r1, r2, r3}
    Senders = {r1}
    OtherOps = {"edit", "delete", "read", "react", "unreact"}
    Stranger = None
    Members <- MCMembers
    Types = {"text", "image"}
    Media = {"none", "nourl", "url"}
    Ops <- MCOps
    MaxEmojis = 1
    MaxPerEmoji = 1
    Faults = TRUE
    None = None
SYMMETRY Symmetry
CHECK_DEADLOCK FALSE
INVARIANT TypeOK
INVARIANT StoredBeforeAnnounced
INVARIANT AckedIsResolvable
INVARIANT OnlyAuthorSpeaks
INVARIANT DeletedIsCleared
INVARIANT ReactionLimits
