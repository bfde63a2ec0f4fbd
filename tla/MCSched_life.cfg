SPECIFICATION FairSpec
CONSTANTS
    MaxProcs = 3
    MaxLive = 3
    MaxSpawns = 4
    Codes = {0, 1}
    ReaperSets <- MCBootOrAllReap
    KstackOk = {TRUE, FALSE}
    Signals = {"KILL", "TERM"}
INVARIANTS
    TypeOK
    QueueExact
    ProcCountExact
    StacksInUse
    FlatReapReturns
PROPERTIES
    ReapedExitCode
    BootResumes
