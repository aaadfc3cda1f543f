SPECIFICATION Spec
CONSTANTS
    NumUnits = 1
    Timeout = 7
    MaxInFlight = 2
    Detached = TRUE
    Faults <- LossOnly
    Recipes <- JustFiles
    StepMax = 1
    MaxRuns = 1
    Allowed <- Operations
CHECK_DEADLOCK FALSE
INVARIANT UnguardedIsWarned
