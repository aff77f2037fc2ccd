SPECIFICATION Spec
CONSTANTS
    HDR = 1
    PIPE_CAP = 4
    PIPE_BUF = 2
    BUF_SIZE = 3
    Reply <- ShortReply
    Suites <- Twice
    FRAME = 2
    MACS = 2
    CHILD_BUF = 4
    WAIT = 1
INVARIANT
    FailureHasCause
CHECK_DEADLOCK FALSE
