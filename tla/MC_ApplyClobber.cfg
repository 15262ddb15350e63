SPECIFICATION FairSpec
CONSTANTS
    Handlers = {h1, h2}
    Targets = {1}
    Fields = {"f", "g"}
    Values = {"a", "b"}
    Scalars = {}
    Malformed = {}
    Edits = {}
    Requests <- SingleRequests
    SchemaRejects = {}
    RawVersions = {}
    RetryBudget = 0
    MaxU32 = 3
    MaxRv = 3
    Absent = Absent
    scalar = scalar
    junk = junk
PROPERTIES NeverClobbersNewer
