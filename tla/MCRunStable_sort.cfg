SPECIFICATION Spec
CONSTANTS
    N = 3
    Problems <- AllProblems
    Inputs = {}
    SortedInputs <- Framework
INVARIANTS
    SortedFramework
