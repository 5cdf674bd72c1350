SPECIFICATION Spec
CONSTANTS
    d1 = d1
    d2 = d2
    s1 = s1
    c1 = c1
    Device = {d1, d2}
    SimDevice = {}
    Refused = {}
    Id = {}
    SyncWindow = 3
    PendingSyncs = 2
    Announcement <- OneDevice
    Reports = {"data", "gap", "repeat", "death", "sync", "end"}
    Asks = {"beat", "rebirth", "gap"}
    MaxGateways = 2
    MaxHosts = 2
    MaxRecords = 1
    MaxUnread = 1
    MaxAsks = 1
    MaxWire = 2
    MaxSteps = 0
INVARIANTS
    WrittenInOrder NoGhosts
