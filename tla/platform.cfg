CONSTANTS
    Orgs = {base, other}
    Names = {ann, bob}
    Handlers = {h1, h2}
    Given = {"admin", "platform_admin"}
    Services = {s1, s2}
    Official = {s1, s2}
    Base = base
    Secrets = {k1, k2}
    MaxStarts = 3
    MaxRequests = 3
    None = None
SYMMETRY Interchangeable
SPECIFICATION Spec
INVARIANT DoorsOpen
INVARIANT PlatformRoleOnlyFromStart
 
INVARIANT HandOver
CHECK_DEADLOCK FALSE
