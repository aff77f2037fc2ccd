SPECIFICATION Spec
CONSTANTS
    Mac <- ApartMac
    Frame <- ApartFrame
    CommandLine <- ApartLines
    InterfaceMac <- CoreInterfaceMac
    MaxType = 4
    MAC_TABLE_SIZE = 2
    MAC_AGING_TIME = 1
    MAX_VLANS = 2
    MaxTime = 2
INVARIANT
    EntryPerVlan
CHECK_DEADLOCK FALSE
