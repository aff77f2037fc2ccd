SPECIFICATION FairSpec
CONSTANTS
    HDR = 1
    PIPE_CAP = 3
    PIPE_BUF = 2
    BUF_SIZE = 3
    N = 2
    FRAME = 2
    MACS = 2
    Id = {0}
    MAX_SIZE = 3
    CMD_ROOM = 2
    MaxKeys = 0
    Reply <- FloodReply
PROPERTIES
    BufferDrains
    JobEnds
    ChildDrains
    DeathNoticed
    ChildNotLeft
CHECK_DEADLOCK FALSE
