SPECIFICATION Spec
CONSTANTS
    client = client
    Clients <- MCClients
    Keys <- TwoKeys
    CacheKey = 1
    Names <- AllNames
    BufferSize = 2
    RingSize = 2
    InboxSize = 2
    CoalesceMax = 1
    MaxRv = 3
    MaxFaults = 1
CHECK_DEADLOCK FALSE
INVARIANT QuiescentIsCurrent
