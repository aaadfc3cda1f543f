SPECIFICATION Spec
CONSTANTS
    NumUnits = 2
    Timeout = 7
    MaxInFlight = 1
    Detached = FALSE
    Faults <- WindowFaults
    Recipes <- AllShapes
    StepMax = 1
    MaxRuns = 2
    Allowed <- Operations
CHECK_DEADLOCK FALSE
INVARIANTS QuiescedCopy NothingStaysArmed
PROPERTIES LiveDriverNotPresumedDead
