SPECIFICATION Spec
CONSTANTS
    Half = {0, 1, 2}
    OwnMac <- OwnMacs
    NoMac = NoMac
    Frame <- Frames
    Header <- Headers
    CommandLine <- Lines
    MaxType = 3
    ARP_CACHE_SIZE = 2
INVARIANTS
    TypeOK
    CacheSound
    AnsweredForOwnAddress
    FrameSurvived
PROPERTY
    CacheKept
CHECK_DEADLOCK FALSE
