CONSTANTS
    t1 = t1
    t2 = t2
    e1 = e1
    Tenants = {t1, t2}
    Entries = {e1}
    Owner <- OwnerOf
    Handlers = {h1, h2}
    MaxPerHour = 1
    Window = 0
    MaxTime = 3
    MaxGrants = 4
    MaxDatasetEntriesT0 = 1
    RequestIds = {r1}
    MaxAudits = 1
    MaxServiceBindingsT0 = 1
    LlmMinSamples = 1
    None = None
SYMMETRY Interchangeable
SPECIFICATION InvocationSpec
INVARIANT WindowBound
INVARIANT PromotionBound
INVARIANT NoForeignBlame
INVARIANT FailingNeverHelps
 
CHECK_DEADLOCK FALSE
