\* Every command on every file of up to four tokens (two for the string commands).
SPECIFICATION FairSpec
CONSTANTS
    Alphabet = 2
    DefineName <- MCDefineName
    MaxToks = 4
    Cmds <- MCCmds
    StartFiles <- MCStartFiles
    ShortFile <- MCShortFile
INVARIANTS WindowsOffered CrashesOnlyAtTheEnd
PROPERTIES RenamesApart DefineKeepsMeaning EndsUnlessRecursive
CHECK_DEADLOCK FALSE
