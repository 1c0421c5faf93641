CONSTANTS
    s1 = s1
    s2 = s2
    c1 = c1
    x1 = x1
    x2 = x2
    f1 = f1
    n1 = n1
    Slots <- MCSlots
    Ids <- MCIds
    Arity <- MCArity
    Size <- MCSize
    SizeMod = 16
    Align = 2
    Address = 2
    InitialRegionSize = 5
    MaxRoots = 2
    Stress = FALSE
    SharedKids = FALSE
    NULL = NULL
    Garbage = Garbage
SPECIFICATION Spec
INVARIANTS
    TypeOK
    Layout
    NothingDangles
    ForwardsLeadToCopies
    SharingPreserved
    CopyComplete
PROPERTIES
    OldObjectsKept
    ImplementsStore
SYMMETRY MCSymmetry
VIEW MCView
