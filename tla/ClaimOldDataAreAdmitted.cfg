\* A claim of the repository that the code does not keep.
\* The thread ends when it is stopped.
CONSTANTS
    HttpTimeout = 1
    PollFast = 1
    PollSlow = 1
    StaleAfter = 2
    HistMax = 1
    Samples = {a}
    NoSample = NoSample
    ReplyTime = 0
    Faulty = {"prometheus", "kube", "alertmanager"}
    Watched = {"prom", "nodes", "alerts", "kube"}
    AgeCap = 3
    SlowCap = 2
    ClockSteps = {}
    MaxSteps = 0
SPECIFICATION FreshSpec
CHECK_DEADLOCK FALSE
PROPERTY OldDataAreAdmitted
