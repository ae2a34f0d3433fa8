\* One file, two passes; tests time out, the user skips passes, and the give-up
\* limit is smaller than the number of variants.  There are more process
\* identifiers than the parent may use.
SPECIFICATION Spec
CONSTANTS
    Files <- OneFile
    BaseName <- OneName
    Lines = {"a", "b"}
    MaxLines = 3
    Contents <- MCContents
    Size <- MCSize
    Interesting <- SomeB
    Passes = {"nth", "lines"}
    States <- MCStates
    New <- MCNew
    Transform <- MCTransform
    Advance <- MCAdvance
    NoEntry = NoEntry
    UseCache = FALSE
    GiveUpConstant = 2
    MaxWin <- Unlimited
    SilentPassBugs = FALSE
    DieOnPassBug = FALSE
    MaxCrashDirs = 1
    NProcs = 3
    Pids = {p1, p2, p3, p4}
    NoPid = NoPid
    NoState = NoState
    Timeouts = TRUE
    Signals = FALSE
    SkipKey = TRUE
SYMMETRY PidSymmetry
INVARIANTS TypeOK ChildrenAccounted NoEscape SpeculationIntact StopIsGenuine VerdictsHonest DiskInteresting
