\* The thread ends when it is stopped.
CONSTANTS
    HttpTimeout = 1
    PollFast = 1
    PollSlow = 1
    StaleAfter = 3
    HistMax = 2
    Samples = {a, b}
    NoSample = NoSample
    ReplyTime = 0
    Faulty = {"prometheus", "kube"}
    Watched = {"nodes", "alerts"}
    AgeCap = 10
    SlowCap = 2
SPECIFICATION Spec
CHECK_DEADLOCK FALSE
INVARIANTS TypeOK StampIsHonest CardMatchesSparkline AlertsKeepComing
