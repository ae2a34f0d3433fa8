\* A child that dies of a signal counts as an interesting variant.
SPECIFICATION Spec
CONSTANTS
    Files <- OneFile
    BaseName <- OneName
    Lines = {"a", "b"}
    MaxLines = 3
    Contents <- MCContents
    Size <- MCSize
    Interesting <- SomeB
    Passes = {"nth", "half"}
    States <- MCStates
    New <- MCNew
    Transform <- MCTransform
    Advance <- MCAdvance
    NoEntry = NoEntry
    UseCache = FALSE
    GiveUpConstant = 2
    MaxWin <- Unlimited
    SilentPassBugs = FALSE
    DieOnPassBug = FALSE
    MaxCrashDirs = 1
    NProcs = 2
    Pids = {p1, p2}
    NoPid = NoPid
    NoState = NoState
    Timeouts = TRUE
    Signals = TRUE
    SkipKey = TRUE
INVARIANTS DiskInteresting
