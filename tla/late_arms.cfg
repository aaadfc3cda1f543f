SPECIFICATION FairSpec
CONSTANTS
    NumUnits = 2
    Timeout = 3
    MaxInFlight = 2
    Detached = TRUE
    Faults <- DelayFaults
    Recipes <- JustFiles
    StepMax = 1
    MaxRuns = 2
    Allowed <- Operations
CHECK_DEADLOCK FALSE
INVARIANTS NeverStranded
PROPERTIES KeepsCustody StoppedUnitsComeBack
