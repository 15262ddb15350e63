SPECIFICATION FairSpec
CONSTANTS
    o1 = o1
    o2 = o2
    o3 = o3
    Objects <- MCObjects
    NameOf <- MCNameOf
    Specs = {s1, s2}
    Malformed = malformed
    Absent = absent
    MaxWrites = 3
    MaxFaults = 2
INVARIANT SettledIsExact
PROPERTY TableConverges
CHECK_DEADLOCK FALSE
