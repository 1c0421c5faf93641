CONSTANTS
    Programs <- Pure
    Forms <- PureForms
    Expected <- NoExpectation
    MaxDepth = 3
SPECIFICATION Spec
INVARIANTS
    NoStaleUse
    FailureHasError
    FramesUnwound
    ValueIsMeaning
