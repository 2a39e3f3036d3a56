CONSTANTS
    Procs = {r1, r2}
    Interval = 3
    MaxRun = 2
    PollLimit = 2
    Faults <- AllFaults
SPECIFICATION FairSpec
INVARIANTS
    OneWorker
PROPERTIES
    RateLimited
    ToldTheTruth
    RefreshableAgain
    PagesSettle
