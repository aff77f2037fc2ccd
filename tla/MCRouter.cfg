SPECIFICATION Spec
CONSTANTS
    m1 = m1
    m2 = m2
    none = none
    Width = 2
    Mac = {m1, m2}
    NoMac = none
    Frame <- Frames
    Command <- Commands
    CommandLine <- Lines
    MaxType = 3
    ARP_CACHE_SIZE = 2
    ROUTE_TABLE_SIZE = 2
INVARIANTS
    TypeOK
    CacheSound
    NeighbourReached
    FrameSurvived
PROPERTIES
    CacheKept
    ImplementsForwarder
CHECK_DEADLOCK FALSE
