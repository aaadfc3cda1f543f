SPECIFICATION RestoreSpec
CONSTANTS
    h1 = h1
    h2 = h2
    a = a
    b = b
    Sites = {h1, h2}
    Services = {a, b}
    Operators = {1}
    MaxCommands = 4
    Troubles = {"copy", "preflight", "push", "cut"}
SYMMETRY Symmetric
CHECK_DEADLOCK FALSE
INVARIANTS NothingIsLost RestoredIsTheBackup
