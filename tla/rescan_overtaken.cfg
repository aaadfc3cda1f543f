SPECIFICATION BichonSpec
CONSTANTS
    ann = ann
    bob = bob
    inbox = inbox
    old = old
    junk = junk
    Roster <- RosterDef
    Folders = {inbox, old, junk}
    Excluded = {junk}
    Mail <- MailDef
    FirstWorlds <- WorldsDef
    Commands = {"rescan"}
    PageSize = 2
    Overlap = 1
    Days = {2, 3, 4}
    MaxMoves = 1
    MaxTicks = 1
    MaxLosses = 1
INVARIANTS CleanRegardlessOfTimer
CHECK_DEADLOCK FALSE
