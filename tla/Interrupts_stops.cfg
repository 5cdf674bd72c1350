SPECIFICATION MCSpec
CONSTANTS
    d1 = d1
    d2 = d2
    w1 = w1
    b1 = b1
    b2 = b2
    bw = bw
    a = a
    b = b
    c = c
    k1 = k1
    k2 = k2
    low = low
    Device = {d1, d2}
    SimDevice = {}
    Board = {b1, b2, bw}
    SimBoard <- MCNoBoard
    Announcements <- MCWithout
    Stoppable = {d1, d2}
    All = All
    Id = {a, b, c}
    Key = {k1, k2}
    Args = {low}
    MaxScopes = 2
    MaxPending = 2
    MaxRepeats = 1
    HostCommands = {}
    ControlScope = {All}
    MaxEpoch = 1
    MaxBoot = 1
    MaxInputs = 3
    MaxHardwareInputs = 0
    MaxLogInputs = 3
CHECK_DEADLOCK FALSE
INVARIANT StopsNameThisSession StoppedWasOrdered
PROPERTY WrittenIsKept
