SPECIFICATION Spec
CONSTANTS
    N = 3
    Inputs <- Framework
    Algorithms = {"next-closure", "subgraph"}
INVARIANTS
    ArgumentInFront
