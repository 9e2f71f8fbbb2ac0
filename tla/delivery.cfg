CONSTANTS
    EntryIds <- Ids
    Kinds = {"rule_set", "knowledge", "mcp_servers"}
    Limit = 1
    Matching = {1, 3}
    MaxVersion = 2
    MaxEntryVersion = 2
    MaxWrites = 4
    None = None
SPECIFICATION Spec
 
 
INVARIANT HistoryIsWhole
INVARIANT ApprovedServersOnly
 
INVARIANT PagesDrift
 
CHECK_DEADLOCK FALSE
