SPECIFICATION Spec
CONSTANTS
    HDR = 1
    PIPE_CAP = 3
    PIPE_BUF = 2
    BUF_SIZE = 3
    N = 2
    FRAME = 2
    MACS = 3
    Id = {0, 1}
    MAX_SIZE = 3
    CMD_ROOM = 1
    MaxKeys = 0
    Reply <- FloodReply
INVARIANTS
    TypeOK
    StreamsFramed
    MacListFirst
    FramesAttributed
    JobMatchesBuffer
    NoDeadlock
    LoopHasRoom
PROPERTY
    ImplementsChannel
CHECK_DEADLOCK FALSE
