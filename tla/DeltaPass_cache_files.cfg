\* Two files with the cache: a remembered result is not tested.
SPECIFICATION Spec
CONSTANTS
    Files <- TwoFiles
    BaseName <- TwoNames
    Lines = {"a", "b"}
    MaxLines = 2
    Contents <- MCContents
    Size <- MCSize
    Interesting <- SomeB
    Passes = {"nth"}
    States <- MCStates
    New <- MCNew
    Transform <- MCTransform
    Advance <- MCAdvance
    NoEntry = NoEntry
    UseCache = TRUE
    GiveUpConstant = 2
    MaxWin <- Unlimited
    SilentPassBugs = FALSE
    DieOnPassBug = FALSE
    MaxCrashDirs = 1
    NProcs = 2
    Pids = {p1, p2}
    NoPid = NoPid
    NoState = NoState
    Timeouts = FALSE
    Signals = FALSE
    SkipKey = FALSE
INVARIANTS DiskInteresting
