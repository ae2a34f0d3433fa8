\* The user stops delta with DELTA-STOP while it minimizes a file in place.
SPECIFICATION Spec
CONSTANTS
    Lengths = {2}
    Oracles <- FewOracles
    InPlace = TRUE
    Signals = FALSE
    MayStop = TRUE
    NoFile = NoFile
INVARIANTS StopIsSafe
CHECK_DEADLOCK FALSE
