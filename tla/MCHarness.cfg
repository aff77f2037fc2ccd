SPECIFICATION Spec
CONSTANTS
    HDR = 1
    PIPE_CAP = 5
    PIPE_BUF = 2
    BUF_SIZE = 4
    Reply <- HubReply
    Suites <- Single
    FRAME = 3
    MACS = 2
    CHILD_BUF = 4
    WAIT = 2
INVARIANTS
    TypeOK
    StreamsFramed
    PassIsEarned
    FailureHasCause
PROPERTY
    TestsEnd
CHECK_DEADLOCK FALSE
