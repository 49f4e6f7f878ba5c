SPECIFICATION Spec
CONSTANTS
    N = 4
    Inputs <- FewLoops
INVARIANTS
    TypeOK
    Sound
    Complete
    NothingSkipped
    Descending
PROPERTIES
    ImplementsEnumeration
