\* Two processes and two Hosts over one staging root and one repository.
SPECIFICATION Spec
CONSTANTS
    h1 = h1
    h2 = h2
    Procs = {p1, p2}
    Hosts = {h1, h2}
    Apps = {a1, a2}
    Untagged = Untagged
    None = None
    Legacy <- Fresh
    Jobs = {"create", "sync", "push", "prune", "verify"}
    MaxRuns = 3
    LastDay = 1
    KeepDaily = 1
    KeepWeekly = 0
    WeekDays = 2
    MaxAge = 0
    Faults = {"app", "net", "kill"}
SYMMETRY SymmHosts
CHECK_DEADLOCK FALSE
INVARIANTS SyncedIsWhole VerifiedStaysBacked VerdictIsTheListings
PROPERTIES HostsKeepNewest
