SPECIFICATION Spec
CONSTANTS
    t1 = t1
    t2 = t2
    id1 = id1
    ka = ka
    kb = kb
    Tasks = {t1, t2}
    Ids = {id1}
    Identity <- MCIdentity
    Keys = {ka, kb}
    Bytes <- MCBytes
    Quotas <- MCQuotas
    Flags <- MCFlags
    Modes = {"disabled", "permissive", "enforce"}
    Costs = {1, 2}
    None = None
    MaxClock = 1
    MaxRpcs = 4
    MaxServes = 3
SYMMETRY TaskSymmetry
INVARIANTS CountIsExact WithinLimit LedgerInStep RateHolds
PROPERTIES EvictsOldestToBudget
CHECK_DEADLOCK FALSE
