\* Two files with one base name in different directories.
SPECIFICATION Spec
CONSTANTS
    Files <- TwoFiles
    BaseName <- SameName
    Lines = {"a", "b"}
    MaxLines = 2
    Contents <- MCContents
    Size <- MCSize
    Interesting <- SomeB
    Passes = {"nth"}
    States <- MCStates
    New <- MCNew
    Transform <- MCTransform
    Advance <- MCAdvance
    NoEntry = NoEntry
    UseCache = FALSE
    GiveUpConstant = 2
    MaxWin <- Unlimited
    SilentPassBugs = FALSE
    DieOnPassBug = FALSE
    MaxCrashDirs = 1
    NProcs = 2
    Pids = {p1, p2}
    NoPid = NoPid
    NoState = NoState
    Timeouts = TRUE
    Signals = FALSE
    SkipKey = TRUE
INVARIANTS EveryFileIsTested
