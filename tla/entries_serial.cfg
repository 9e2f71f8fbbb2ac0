CONSTANTS
    Entries = {e1, e2}
    Contents = {c1, c2}
    Handlers = {h1}
    Kind = "rule"
    Origins = {"human"}
    Ops = {"patch", "delete", "move", "promote", "ratify"}
    MaxVersion = 2
    MaxRequests = 3
    None = None
    MaxDatasetEntriesT0 = 1
    MaxServiceBindingsT0 = 1
    LlmMinSamples = 1
SPECIFICATION Spec
PROPERTY SerialLedger
CHECK_DEADLOCK FALSE
