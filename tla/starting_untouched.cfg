SPECIFICATION Spec
CONSTANTS
    web = web
    bot = bot
    dash = dash
    blocky = blocky
    box = box
    away = away
    agents = agents
    Apps = {web, bot, dash, blocky}
    Boxes = {box, away}
    ZoneNames = {agents}
    Tree <- TreeDef
    Metas <- MetasDef
    RequiredKeys <- KeysDef
    Configs <- ConfigsDef
    Rosters <- RostersDef
    Guards <- GuardsDef
    Demands <- DemandsDef
    MaxEdits = 2
    Commands = {p}
    Keys = {"admin", "bot_token"}
    Names = {box, away}
    Required <- RequiredDef
    FirstFiles <- FirstFilesDef
    Alone = TRUE
    MaxCommands = 3
    Declared <- DeclaredDef
    RunTags = {}
    RunRoster = {"job", "bot", "unowned"}
    StartPre = TRUE
    MaxTime = 5
    MaxChanges = 2
    MaxFailureLines = 2
    MixedLoops = FALSE
    MaxTasks = 4
    MaxItems = 3
    Scripts <- ScriptsDef
    Pieced <- BytesDef
    PipeSize = 2
    TailLines = 2
INVARIANT UntouchedIsActive
CHECK_DEADLOCK FALSE
