CONSTANTS
    OldCount = 9
    NewCounts = {11}
    MaxToggles = 2
    Caps = {1, 2}
SPECIFICATION Spec
CHECK_DEADLOCK FALSE
INVARIANT DiffReconstructsNew
INVARIANT SpansAreOrderedQueries
