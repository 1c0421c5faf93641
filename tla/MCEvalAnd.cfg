CONSTANTS
    Programs <- NestedAnds
    Forms <- AndForms
    Expected <- NoExpectation
    MaxDepth = 5
SPECIFICATION Spec
INVARIANTS
    ValueIsMeaning
