\* Every option pass_unifdef tries on files of one group with a nested one, of
\* two symbols; texts of up to four pieces; tables of three symbols.
SPECIFICATION RunsAndTexts
CONSTANTS
    MaxDepth = 3
    MaxFragments = 4
    Defined3 = {1, 2, 3}
    NumSymbols = 2
    Names = {"p", "q", "r", "s", "t", "u"}
    Conditions <- SampleConditions
    Envs <- SampleEnvs
    CommandLines <- SampleOptions
    FirstFiles <- Files
    Symbols <- ListSymbols
    KillConstants <- KillConsts
    RemoveIfs <- RemoveSymbol
INVARIANTS UnifdefPreserves EveryOptionTried DirectivesFound ValuesResolved
PROPERTIES EveryStepProgresses
CHECK_DEADLOCK FALSE
