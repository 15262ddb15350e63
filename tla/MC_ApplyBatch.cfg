SPECIFICATION FairSpec
CONSTANTS
    Handlers = {h1, h2}
    Targets = {1, 2}
    Fields = {"f"}
    Values = {"a", "bad"}
    Scalars = {scalar}
    Malformed = {junk}
    Edits = {}
    Requests <- BatchRequests
    SchemaRejects <- MCSchemaRejects
    RawVersions = {}
    RetryBudget = 1
    MaxU32 = 2
    MaxRv = 3
    Absent = Absent
    scalar = scalar
    junk = junk
INVARIANTS BatchOkIsComplete PartialBatchWasRaced
PROPERTIES BatchOrdered EveryRequestAnswered
