SPECIFICATION RealtimeSpec
CONSTANTS
    u1 = u1
    u2 = u2
    c1 = c1
    r1 = r1
    r2 = r2
    r3 = r3
    Users = {u1, u2}
    Clients = {}
    Proxied = {}
    Convs = {c1}
    Emojis = {}
    Reqs = {r1, r2, r3}
    Senders = {}
    Seconds = {r1, r2}
    SecondOps = {"send", "edit"}
    OtherOps = {"delete", "read"}
    Stranger = None
    Entries = 1
    Members <- MCMembers
    MaxChanges = 0
    MaxEntries = 1
    Types = {"text"}
    Media = {"none"}
    Ops <- MCOps
    MaxEmojis = 1
    MaxPerEmoji = 1
    Faults = TRUE
    None = None
SYMMETRY Symmetry
CHECK_DEADLOCK FALSE
INVARIANT RoomAgrees
INVARIANT ReadClears
INVARIANT StoredIsDelivered
