SPECIFICATION Spec
CONSTANTS
    PageSize = 4096
    HdrSize = 64
    BitmapBits = 288
    ObjSizes = {1024, 2048}
    MaxSlabs = 3
    MaxLarge = 1
    ClientsFree = TRUE
INVARIANTS
    TypeOK
    NoDoubleHandout
    FreeCountExact
    MarkedWhileHeld
