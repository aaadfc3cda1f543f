SPECIFICATION Spec
CONSTANTS
    ann = ann
    bob = bob
    inbox = inbox
    old = old
    junk = junk
    Roster <- RosterDef
    Folders = {inbox, old, junk}
    Excluded = {junk}
    Mail <- MailDef
    FirstWorlds <- WorldsDef
    Commands = {"verify", "reconcile", "rescan"}
    PageSize = 2
    Overlap = 1
    Days = {2, 3, 4}
    MaxMoves = 1
    MaxTicks = 1
    MaxLosses = 1
    hut = hut
    hive = hive
    me = me
    friend = friend
    d1 = d1
    d2 = d2
    d3 = d3
    memories = memories
    hutPath = hutPath
    docs = docs
    mine = mine
    yours = yours
    NumOf <- NumOfDef
    Rank <- RankDef
    AppPins <- AppPinsDef
    RoleFiles <- RoleFilesDef
    Feeds <- FeedsDef
    Publishable <- PublishableDef
    PerPage = 2
    MaxReleases = 4
    Repos <- ReposDef
    Owner = "owner"
    Bot = "bot"
    Spelled <- SpelledDef
    MaxChanges = 2
    Hosts = {hut, hive}
    Ids = {me, friend, d1, d2, d3}
    Local = me
    Friend = friend
    PathOf <- PathOfDef
    Within <- WithinDef
    Paths = {memories, hutPath, docs}
    FirstConfigs <- FirstConfigsDef
    MaxEdits = 2
    MaxPairs = 2
    Tracks = {"a", "b", ".c"}
    Hidden = {".c"}
    Machines = {mine, yours}
    MaxTouches = 2
    MaxRuns = 3
CHECK_DEADLOCK FALSE
INVARIANTS ArchiveReportsAreTrue ExitTellsDrift VerifyTellsTheGrants PairedIsSettled SyncedIsThere
