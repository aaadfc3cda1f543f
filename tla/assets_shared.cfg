SPECIFICATION FairSpec
CONSTANTS
    Procs = {p1, p2}
    Trees = {v1, v2}
    Stages = {s1, s2, s3}
    Legacy = {flat}
    Nobody = Nobody
    MaxOpens = 4
    MaxFaults = 2
    Faults = {"io", "kill"}
CHECK_DEADLOCK FALSE
INVARIANTS TreesAreWhole GuardedTreeStays
PROPERTIES OpenReturns
