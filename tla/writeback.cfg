CONSTANTS
    e1 = e1
    e2 = e2
    Events = {e1, e2}
    Datasets = {d1, d2}
    FailureType <- MCFailureType
    Slots = {s1, s2}
    MaxDeliveries = 3
    MaxRestarts = 1
    None = None
SPECIFICATION FairSpec
INVARIANT ReceivedOnce
INVARIANT ConsumedWasAccepted
PROPERTY AnchorFixed
PROPERTY TasksEnd
PROPERTY AcceptanceIsRecorded
CHECK_DEADLOCK FALSE
