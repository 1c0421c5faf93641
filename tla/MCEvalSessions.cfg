CONSTANTS
    Programs <- TestedOrFailing
    Forms <- SessionForms
    Expected <- TestOutputs
    MaxDepth = 20
SPECIFICATION Spec
INVARIANTS
    TypeOK
    StructuresAreGenuine
    RootsMatchStack
    OutputsAsTested
    DepthBounded
PROPERTIES
    Ends
