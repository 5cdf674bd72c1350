SPECIFICATION Spec
CONSTANTS
    d1 = d1
    d2 = d2
    b1 = b1
    a = a
    b = b
    k1 = k1
    k2 = k2
    low = low
    high = high
    noCommand = noCommand
    All = All
    Device = {d1, d2}
    Board = {b1}
    BoardOf <- MCBoardOf
    SafeStopping = {d1}
    Id = {a, b}
    Key = {k1, k2}
    Args = {low, high}
    MaxScopes = 2
    MaxPending = 1
    MaxRepeats = 1
    Command <- LedgerCommands
    NoCommand = noCommand
    Churning = {}
    Paced = TRUE
    Ahead = 2
    MaxLedger = 2
    MaxQueued = 1
    MaxWaiting = 2
    Until = 3
    MaxEpoch = 2
    MaxSends = 3
    MaxCalls = 0
PROPERTIES
    KeysAreKept
