SPECIFICATION Spec
CONSTANTS
    NInodes = 4
    ImapBits = 5
    TotalBlocks = 5
    NBits = 6
    DataBlocks = 4
    NDirect = 1
    NPtrs = 2
    DirCap = 1
    Paths <- MCPaths
    Ctxs = {c1}
    MaxOff = 2
    MaxWrite = 2
    MaxOps = 5
INVARIANTS
    TypeOK
    ReachableMarked
    NoSharing
    NoStaleData
PROPERTIES
    NamesAtomic
