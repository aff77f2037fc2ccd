SPECIFICATION Spec
CONSTANTS
    HDR = 1
    PIPE_CAP = 4
    PIPE_BUF = 1
    BUF_SIZE = 4
    N = 3
    FRAME = 3
    MACS = 3
    Id = {0}
    MAX_SIZE = 4
    CMD_ROOM = 2
    MaxKeys = 0
    Reply <- FloodReply
INVARIANT
    NoDeadlock
CHECK_DEADLOCK FALSE
