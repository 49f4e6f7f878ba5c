SPECIFICATION Spec
CONSTANTS
    N = 4
    Inputs <- Framework
    stable_extensions <- Extensions
    crashes <- Crashes
INVARIANTS
    MapIntact
