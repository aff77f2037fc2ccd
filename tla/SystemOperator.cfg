SPECIFICATION FairSpec
CONSTANTS
    HDR = 1
    PIPE_CAP = 2
    PIPE_BUF = 1
    BUF_SIZE = 3
    N = 1
    FRAME = 2
    MACS = 2
    Id = {0, 1}
    MAX_SIZE = 3
    CMD_ROOM = 2
    MaxKeys = 2
    Reply <- EchoReply
INVARIANTS
    StreamsFramed
    JobMatchesBuffer
PROPERTIES
    ImplementsChannel
    LineIsSent
CHECK_DEADLOCK FALSE
