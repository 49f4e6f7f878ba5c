SPECIFICATION Spec
CONSTANTS
    N = 3
    Inputs <- Framework
INVARIANTS
    AnotherParent
