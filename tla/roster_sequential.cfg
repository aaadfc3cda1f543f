SPECIFICATION Spec
CONSTANTS
    Names <- MCNames
    Machines <- MCMachines
    Procs = {p1}
    Jobs <- EveryJob
    Rosters <- HandEdited
    Tables <- OneTable
    MaxJobs = 3
    MaxFaults = 1
    Faults = {"fail", "crash", "tear"}
CHECK_DEADLOCK FALSE
INVARIANTS IncludeFollowsRoster PublishedRoutesResolve
