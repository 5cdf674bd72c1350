SPECIFICATION MCSpec
CONSTANTS
    d1 = d1
    d2 = d2
    w1 = w1
    b1 = b1
    b2 = b2
    bw = bw
    a = a
    b = b
    c = c
    k1 = k1
    k2 = k2
    low = low
    Device = {d1, w1}
    SimDevice = {w1}
    Board = {b1, b2, bw}
    SimBoard <- MCSimBoard
    Announcements <- MCAnnouncements
    Stoppable = {d1, w1}
    All = All
    Id = {a, b, c}
    Key = {k1, k2}
    Args = {low}
    MaxScopes = 2
    MaxPending = 2
    MaxRepeats = 1
    HostCommands <- MCHostCommands
    ControlScope = {All, b2}
    MaxEpoch = 1
    MaxBoot = 1
    MaxInputs = 2
    MaxHardwareInputs = 3
    MaxLogInputs = 4
CHECK_DEADLOCK FALSE
INVARIANT WaitingIsOwed LocalControlStands StopsGoWhereTheySay
PROPERTY SetAsideOnlyUnwritten
