SPECIFICATION Spec
CONSTANTS
    Names <- MCNames
    Machines <- OneMachine
    Keys = {k1, k2, k3}
    Procs = {p1}
    Jobs <- EveryJob
    Rosters <- OneHost
    MaxJobs = 3
    MaxReinstalls = 2
    MaxCrashes = 1
CHECK_DEADLOCK FALSE
INVARIANTS TrustFollowsHost ForgetSticks
PROPERTIES NeverTrustedBlindly
