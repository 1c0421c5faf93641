CONSTANTS
    s1 = s1
    s2 = s2
    c1 = c1
    x1 = x1
    x2 = x2
    f1 = f1
    n1 = n1
    Slots <- MCSlots
    Ids <- ChainIds
    Arity <- ChainArity
    Size <- ChainSize
    SizeMod = 8
    Align = 1
    Address = 2
    InitialRegionSize = 1
    MaxRoots = 2
    Stress = FALSE
    SharedKids = TRUE
    NULL = NULL
    Garbage = Garbage
SPECIFICATION Spec
PROPERTY AllocationEnds
