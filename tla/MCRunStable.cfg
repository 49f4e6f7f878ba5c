SPECIFICATION Spec
CONSTANTS
    N = 4
    Problems <- AllProblems
    Inputs <- EndsMayLoop
    SortedInputs <- Stars
INVARIANTS
    ListedAsTaken
    MappingFaithful
    LeafMaximal
    OneConceptEach
    OneConceptAbove
    ImplicationsHold
    ExtensionsAhead
    EnumerationRight
    OneRight
    DecisionRight
PROPERTIES
    Termination
