SPECIFICATION Spec
CONSTANTS
    N = 5
    StableInputs <- Inputs
    PreferredInputs <- Cascades
INVARIANTS
    ComponentIsSource
    JoinedSoFar
    CallContract
    OutputRight
PROPERTIES
    Termination
