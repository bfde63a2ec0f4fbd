SPECIFICATION Spec
CONSTANTS
    PageSize = 4096
    HdrSize = 64
    BitmapBits = 288
    ObjSizes = {8}
    MaxSlabs = 1
    MaxLarge = 0
    ClientsFree = FALSE
INVARIANTS
    NoDoubleHandout
