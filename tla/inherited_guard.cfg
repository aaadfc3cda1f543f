SPECIFICATION Spec
CONSTANTS
    NumUnits = 2
    Timeout = 7
    MaxInFlight = 1
    Detached = FALSE
    Faults <- CrashAndStop
    Recipes <- JustFiles
    StepMax = 1
    MaxRuns = 2
    Allowed <- Operations
CHECK_DEADLOCK FALSE
INVARIANT NeverStranded
