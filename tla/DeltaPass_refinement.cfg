\* The parallel search against the sequential one, with the cache: no timeouts, so
\* that a variant may be rejected only if the test rejects it; pass bugs are fatal.
SPECIFICATION Spec
CONSTANTS
    Files <- OneFile
    BaseName <- OneName
    Lines = {"a", "b"}
    MaxLines = 3
    Contents <- MCContents
    Size <- MCSize
    Interesting <- SomeBOrNothing
    Passes = {"nth", "half", "lines", "faulty"}
    States <- MCStates
    New <- MCNew
    Transform <- MCTransform
    Advance <- MCAdvance
    NoEntry = NoEntry
    UseCache = TRUE
    GiveUpConstant = 2
    MaxWin <- Unlimited
    SilentPassBugs = FALSE
    DieOnPassBug = TRUE
    MaxCrashDirs = 1
    NProcs = 2
    Pids = {p1, p2, p3}
    NoPid = NoPid
    NoState = NoState
    Timeouts = FALSE
    Signals = FALSE
    SkipKey = FALSE
SYMMETRY PidSymmetry
INVARIANTS CacheComplete CacheInteresting
PROPERTIES RefinesSequential FewerThanProcsAreKilled
CHECK_DEADLOCK FALSE
