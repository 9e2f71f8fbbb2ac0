CONSTANTS
    EntryIds = {e1, e2}
    Contents = {c1}
    Notes = {n1, n2}
    Handlers = {h1}
    Ops = {"create", "move", "publish", "unpublish", "bump", "patch", "deps", "delete"}
    Imports = TRUE
    MaxVersion = 3
    MaxRequests = 5
    None = None
    MaxDatasetEntriesT0 = 1
    MaxServiceBindingsT0 = 1
    LlmMinSamples = 1
SPECIFICATION Alone
PROPERTY SerialDataset
CHECK_DEADLOCK FALSE
