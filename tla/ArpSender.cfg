SPECIFICATION Spec
CONSTANTS
    Half = {0, 1, 2}
    OwnMac <- OwnMacs
    NoMac = NoMac
    Frame <- Frames
    Header <- Headers
    CommandLine <- Lines
    MaxType = 3
    ARP_CACHE_SIZE = 2
INVARIANT
    SenderStored
CHECK_DEADLOCK FALSE
