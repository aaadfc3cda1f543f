SPECIFICATION Spec
CONSTANTS
 h1 = h1  h2 = h2  phone = phone
 Hosts = {h1, h2}
 Devices = {phone}
 Hostname <- HostnameDef
 UserNames = {"u", "v"}
 Addresses = {1, 2}
 Tiers = {"t"}
 Policy = {"t"}
 Clients = {p1, p2}
 Orders <- MCOrders
 Events = {"forget", "delete", "rename", "approach", "drop", "join", "expire", "detect"}
 MaxIds = 5
 MaxOrders = 2
 MaxEvents = 2
 MaxFailures = 1
    web = web
    vault = vault
    shop = shop
    box = box
    git = git
    ip1 = ip1
    ip2 = ip2
    ts = ts
    Apps = {web, vault, shop}
    Boxes = {box}
    ZoneNames = {git}
    Runs = {1, 2}
    AppOrder <- AppOrderDef
    Targets = {ip1, ip2}
    Tailnet = ts
    Worlds <- WorldsDef
    FirstZones <- FirstZonesDef
    Selections <- SelectionsDef
    Commands = {"set-all", "set", "delete", "migrate", "status"}
    MaxRecords = 4
    MaxLosses = 1
    home = home
    vps = vps
    own = own
    Aliases = {home, box}
    Own = own
    BoxOf <- BoxOfDef
    KeyOf <- KeyOfDef
    Migratable = {}
    Ragged = {}
    MaxKeys = 3
    MaxKeygenFailures = 1
    cellar = cellar
    Declared <- DeclaredDef
    Bundled <- BundledDef
    NoAddress = "none"
    MaxCommands = 2
    MaxDeclares = 2
CHECK_DEADLOCK FALSE
INVARIANTS BulkStaysInItsZone RemovedIsRevoked PlayHasItsKey AddedKeyOpens RoutesAreKept
PROPERTIES RevokeSparesOthers SuccessIsPublished
