\* Every test on up to three chunks and many on four, in place, with a stop
\* file and tests that die.
SPECIFICATION FairSpec
CONSTANTS
    Lengths = {0, 1, 2, 3, 4}
    Oracles <- MCOracles
    InPlace = TRUE
    Signals = TRUE
    MayStop = TRUE
    NoFile = NoFile
INVARIANTS TypeOK KeptIsSearched CacheOnlyRejects ResultIsOneMinimal
PROPERTIES RefinesMinimizer Terminates
CHECK_DEADLOCK FALSE
