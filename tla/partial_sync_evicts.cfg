\* Syncs of some Apps, with the retention policy of the code.
SPECIFICATION Spec
CONSTANTS
    h1 = h1
    h2 = h2
    Procs = {p1}
    Hosts = {h1}
    Apps = {a1, a2}
    Untagged = Untagged
    None = None
    Legacy <- Fresh
    Jobs = {"sync"}
    MaxRuns = 3
    LastDay = 1
    KeepDaily = 7
    KeepWeekly = 4
    WeekDays = 7
    MaxAge = 0
    Faults = {}
SYMMETRY Symm
PROPERTIES OthersStayVerified
CHECK_DEADLOCK FALSE
