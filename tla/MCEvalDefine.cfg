CONSTANTS
    Programs <- MalformedDefinitions
    Forms <- DefinitionForms
    Expected <- NoExpectation
    MaxDepth = 5
SPECIFICATION Spec
INVARIANTS
    RootsBalanced
