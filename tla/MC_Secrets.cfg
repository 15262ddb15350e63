SPECIFICATION FairSpec
CONSTANTS
    Spaces = {"a", "b"}
    Served = {"a"}
    Keys = {1, 2}
    Ns <- MCNs
    Clients = {"c1"}
    Writers = {"w1", "w2"}
    Versions = {1, 2}
    RingSize = 1
    InboxSize = 1
    RetryBudget = 1
    MaxRv = 2
    MaxFaults = 2
    MaxSubs = 1
CHECK_DEADLOCK FALSE
INVARIANTS FreshIsFromThisConnection MissesAreNamed
PROPERTIES RollbackWasRaced CacheCatchesUp
