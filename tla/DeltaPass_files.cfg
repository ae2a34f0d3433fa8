\* Two files that the test looks at together: every file is tested, and every pass
\* returns, with a pass that has every kind of bug, timeouts and killed children.
SPECIFICATION FairSpec
CONSTANTS
    Files <- TwoFiles
    BaseName <- TwoNames
    Lines = {"a"}
    MaxLines = 2
    Contents <- MCContents
    Size <- MCSize
    Interesting <- AnyDirectory
    Passes = {"nth", "faulty"}
    States <- MCStates
    New <- MCNew
    Transform <- MCTransform
    Advance <- MCAdvance
    NoEntry = NoEntry
    UseCache = FALSE
    GiveUpConstant = 2
    MaxWin <- Unlimited
    SilentPassBugs = TRUE
    DieOnPassBug = FALSE
    MaxCrashDirs = 0
    NProcs = 3
    Pids = {p1, p2, p3}
    NoPid = NoPid
    NoState = NoState
    Timeouts = TRUE
    Signals = TRUE
    SkipKey = FALSE
INVARIANTS EveryFileIsTested
PROPERTIES PassReturns
CHECK_DEADLOCK FALSE
