SPECIFICATION Spec
CONSTANTS
    Names <- MCNames
    Machines <- MCMachines
    Procs = {p1}
    Jobs <- RenameOnly
    Rosters <- TwoHosts
    Tables <- OneTable
    MaxJobs = 2
    MaxFaults = 1
    Faults = {"tear"}
CHECK_DEADLOCK FALSE
INVARIANT RerunIsTheFix
