CONSTANTS
    Texts <- AllTexts
    SizeMod = 65536
    BaseCapacity = 3
    DigitsMod = 8
    WordMod = 16777216
SPECIFICATION Spec
INVARIANTS
    TypeOK
    GapsAreBlank
    AtomsAreWhole
    FlawsAreFlagged
    StringsFit
    ErrorsInsideText
    WholeTextRead
    RefusedIffFlawed
    FormsAreRead
    OnlyTrailingErrorsDropped
    FlagsAreWritten
    RootsAreLive
PROPERTIES
    Ends
