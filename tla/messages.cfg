CONSTANTS
    NFD = 8
    MAXFD = 7
    InitFds <- StdOpen
    NChild = 3
    CallsFail = TRUE
    MAXLINE = 4
    Replies <- FourReplies
    Rounds = 2
    Client = {"c1", "c2"}
    ProcId = {1, 2}
    User = {"a", "b"}
    STALE = 0
    QLEN = 2
    MaxTime = 1
    PACKET_SEND_MAX_NUM = 3
    MaxOthers = 1
    Target = 2
    MaxTtl = 2
    Probes = 2
    Budget = 1
    MaxForeign = 1
    Instance = {"i1", "i2"}
    MaxLines = 3
    PipeSize = 1
SPECIFICATION Spec
INVARIANTS RightChild NothingLeaks OwnPipeOnly Delivered OneInstance SlotRight LinesRight Judged InStep
PROPERTIES PcloseReturns PingEnds PipesEnd
CHECK_DEADLOCK FALSE
