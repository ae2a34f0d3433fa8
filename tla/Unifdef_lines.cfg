SPECIFICATION Spec
CONSTANTS
    MaxDepth = 3
    Names = {"p"}
    Conditions <- SomeConditions
    Envs <- SomeEnvs
    CommandLines <- SomeCommandLines
    MaxText = 1
    MaxBlanks = 1
INVARIANTS MeaningKept FailsForAReason
CHECK_DEADLOCK FALSE
