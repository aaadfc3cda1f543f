SPECIFICATION Spec
CONSTANTS
    NumUnits = 2
    Timeout = 3
    MaxInFlight = 2
    Detached = TRUE
    Faults <- LiveDriverFaults
    Recipes <- TwoShapes
    StepMax = 1
    MaxRuns = 2
    Allowed <- Operations
CHECK_DEADLOCK FALSE
INVARIANTS OkMeansUp
