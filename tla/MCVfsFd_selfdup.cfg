SPECIFICATION Spec
CONSTANTS
    p1 = p1
    p2 = p2
    Procs <- MCProcs
    MaxFds = 3
    FirstFd = 1
    MaxNodes = 3
    RefMod = 16
    MaxOpens = 3
    MaxDup = 3
    MaxInherit = 2
    MaxLosses = 1
    SelfDup = TRUE
SYMMETRY MCSymmetry
INVARIANTS
    NoDangling
