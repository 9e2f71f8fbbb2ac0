CONSTANTS
    Entries = {e1}
    Contents = {c1, c2}
    Handlers = {h1, h2}
    Kind = "rule"
    Origins = {"human"}
    Ops = {"patch", "delete", "move", "promote", "ratify"}
    MaxVersion = 2
    MaxRequests = 4
    None = None
    MaxDatasetEntriesT0 = 1
    MaxServiceBindingsT0 = 1
    LlmMinSamples = 1
SYMMETRY Interchangeable
SPECIFICATION Spec
INVARIANT TypeOK
INVARIANT SnapshotCoverage
INVARIANT AuditRowsHaveEntry
 
 
CHECK_DEADLOCK FALSE
