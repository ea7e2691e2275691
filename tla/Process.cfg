CONSTANTS
    HttpTimeout = 1
    PollFast = 1
    PollSlow = 1
    StaleAfter = 2
    HistMax = 1
    Samples = {a}
    NoSample = NoSample
    ReplyTime = 0
    Faulty = {"prometheus", "kube"}
    Watched = {"alerts"}
    AgeCap = 8
    SlowCap = 3
    ClockSteps <- BackAndForth
    MaxSteps = 1
    JoinLimit = 1
SPECIFICATION ProcSpec
INVARIANTS FreshIsFresh AlertsSurviveTheClock
PROPERTIES ImplementsFeeds PanelComesBack HealthySourcesKeepComing RecoveryIsShown
