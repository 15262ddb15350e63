SPECIFICATION Spec
CONSTANTS
    Handlers = {h1, h2}
    Targets = {1}
    Fields = {"f", "g"}
    Values = {"a", "b"}
    Scalars = {}
    Malformed = {}
    Edits <- AddedFields
    Requests <- SingleRequests
    SchemaRejects = {}
    RawVersions = {1, 5}
    RetryBudget = 2
    MaxU32 = 3
    MaxRv = 3
    Absent = Absent
    scalar = scalar
    junk = junk
SYMMETRY HandlerSymmetry
PROPERTIES UnracedWritesIncrease RevertRestores
