CONSTANTS
    Programs <- AssigningBranches
    Forms <- BranchForms
    Expected <- NoExpectation
    MaxDepth = 5
SPECIFICATION Spec
INVARIANTS
    NoStaleUse
