CONSTANTS
    Texts <- EscapeTexts
    SizeMod = 65536
    BaseCapacity = 3
    DigitsMod = 8
    WordMod = 16777216
SPECIFICATION Spec
INVARIANTS
    EscapesArrive
