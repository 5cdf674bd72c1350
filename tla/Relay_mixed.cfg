SPECIFICATION Spec
CONSTANTS
    d1 = d1
    d2 = d2
    s1 = s1
    c1 = c1
    Device = {d1, s1}
    SimDevice = {s1}
    Refused = {}
    Id = {c1}
    SyncWindow = 2
    PendingSyncs = 2
    Announcement <- WorldAnnounced
    Reports = {"sync", "answer", "stray"}
    Asks = {"rebirth", "command"}
    MaxGateways = 1
    MaxHosts = 1
    MaxRecords = 1
    MaxUnread = 0
    MaxAsks = 1
    MaxWire = 2
    MaxSteps = 1
INVARIANTS
    WorldIsAnswered
