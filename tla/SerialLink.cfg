CONSTANTS
    None = None
    sic = sic
    dc = dc
    a1 = a1
    a2 = a2
    b1 = b1
    End <- Ends
    Msg <- Messages
    From <- Senders
    Frames <- MessageFrames
    Modulus = 3
    TimeoutMax = 3
    ErrorMax = 2
    Garbage <- Counters
    MaxDisturbances = 1
    NfBurst = 3
CHECK_DEADLOCK FALSE
SPECIFICATION FairSpec
INVARIANTS
    WaitsWithTimer
    ShortCompletedWasDelivered
PROPERTIES
    IsMessageChannel
    EveryMessageSettles
