SPECIFICATION Spec
CONSTANTS
    PageSize = 4096
    HdrSize = 64
    BitmapBits = 288
    ObjSizes = {2048}
    MaxSlabs = 2
    MaxLarge = 0
    ClientsFree = TRUE
INVARIANTS
    BitmapExact
