SPECIFICATION FairSpec
CONSTANTS
    Procs = {p1, p2}
    Root = p1
    Jobs = {init, input}
    NoJob = NoJob
    NoThread = NoThread
    MaxDepth = 1
    SpuriousWakeups = TRUE
INVARIANTS JobFrameAlive NoLostWakeup OnOwnThread
PROPERTIES ImplementsSyncCall CallReturns
