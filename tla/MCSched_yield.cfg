SPECIFICATION YieldSpec
CONSTANTS
    MaxProcs = 4
    MaxLive = 2
    MaxSpawns = 2
    Codes = {0}
    ReaperSets <- MCBootReaps
    KstackOk = {TRUE}
    Signals = {"KILL"}
INVARIANTS
    NoSelfDeadlock
