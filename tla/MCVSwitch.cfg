SPECIFICATION Spec
CONSTANTS
    Mac <- CoreMac
    Frame <- CoreFrame
    CommandLine <- CoreLines
    InterfaceMac <- CoreInterfaceMac
    MaxType = 4
    MAC_TABLE_SIZE = 2
    MAC_AGING_TIME = 1
    MAX_VLANS = 2
    MaxTime = 2
INVARIANTS
    TypeOK
    TableSound
    StationReached
    VlanPreserved
PROPERTIES
    EntriesKept
    ImplementsBridge
CHECK_DEADLOCK FALSE
