SPECIFICATION RealtimeSpec
CONSTANTS
    u1 = u1
    u2 = u2
    c1 = c1
    r1 = r1
    r2 = r2
    Users = {u1, u2}
    Clients = {u2}
    Proxied = {r1}
    Convs = {c1}
    Emojis = {}
    Reqs = {r1, r2}
    Senders = {r1}
    Seconds = {}
    SecondOps = {}
    OtherOps = {"edit"}
    Stranger = u2
    Entries = 1
    Members <- MCMembers
    MaxChanges = 2
    MaxEntries = 2
    Types = {"text"}
    Media = {"none"}
    Ops <- MCOps
    MaxEmojis = 1
    MaxPerEmoji = 1
    Faults = TRUE
    None = None
CHECK_DEADLOCK FALSE
INVARIANT HeardByMembers
INVARIANT RawIsStored
INVARIANT UnreadBounded
