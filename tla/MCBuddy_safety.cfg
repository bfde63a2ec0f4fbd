SPECIFICATION Spec
CONSTANTS
    MaxOrder = 2
    Top = 12
    Regions <- MCRegions
    MaxAllocs = 8
INVARIANTS
    TypeOK
    Disjoint
    Covered
    FreePagesExact
    InfoExact
PROPERTIES
    Coalesced
