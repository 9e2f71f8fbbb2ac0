CONSTANTS
    EntryIds = {e1}
    Contents = {c1, c2}
    Notes = {n1}
    Handlers = {h1, h2}
    Ops = {"create", "move", "publish", "unpublish", "bump", "patch", "deps", "delete"}
    Imports = TRUE
    MaxVersion = 2
    MaxRequests = 5
    None = None
    MaxDatasetEntriesT0 = 1
    MaxServiceBindingsT0 = 1
    LlmMinSamples = 1
SYMMETRY Interchangeable
SPECIFICATION Spec
INVARIANT LifecycleIsPath
INVARIANT NothingOutlivesDataset
PROPERTY ArchiveFixed
PROPERTY BornFresh
CHECK_DEADLOCK FALSE
