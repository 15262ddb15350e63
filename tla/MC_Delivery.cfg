SPECIFICATION FairSpec
CONSTANTS
    client = client
    Clients <- MCClients
    Keys <- TwoKeys
    CacheKey = 1
    Names <- CachedName
    BufferSize = 1
    RingSize = 1
    InboxSize = 1
    CoalesceMax = 2
    MaxRv = 3
    MaxFaults = 1
CHECK_DEADLOCK FALSE
INVARIANTS NoSilentGap StaleWasOutrun
PROPERTY Converges
