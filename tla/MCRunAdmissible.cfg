SPECIFICATION Spec
CONSTANTS
    N = 4
    Problems <- AllProblems
    Inputs <- LastMayLoopOnce
    QuestionInputs <- MiddleOrdered
    SortedInputs <- Stars
    Questions <- Ends
INVARIANTS
    Descending
    MappingFaithful
    GroundedSettled
    CandidatesIncomparable
    AttackersFit
    FrameContract
    CompleteRight
    AllPreferred
    IdealResult
    RightWhenInFront
    RightWhenBalanced
    PreferredFound
    CounterexampleRight
PROPERTIES
    Termination
