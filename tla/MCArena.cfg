CONSTANTS
    SizeMod = 16
    Addresses <- MCAddresses
    Sizes <- MCSizes
    Aligns <- MCAligns
    Counts <- MCCounts
    FirstCapacity = 3
SPECIFICATION Spec
INVARIANTS
    TypeOK
    BlocksInside
    BlocksDisjoint
    BlocksAligned
    RefusesOnlyWhenFull
PROPERTY ResizeGrows
