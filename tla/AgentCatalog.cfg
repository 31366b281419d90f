SPECIFICATION CatalogSpec
CONSTANTS
    s1 = s1
    s2 = s2
    a1 = a1
    SkillIds = {s1, s2}
    AgentIds = {a1}
    Requests = {r1, r2, r3}
    Owner = Owner
    Guest = Guest
    NoOne = NoOne
    NoApp = NoApp
    Fresh = Fresh
    Deleted = Deleted
    NoLink = NoLink
    Plain = Plain
    Modes = {"auto", "deny"}
    Vals = {1, 2}
    Posts <- MCPosts
    Patches <- MCPatches
    Batches <- MCBatches
    Starts <- MCStarts
SYMMETRY Symmetry
CHECK_DEADLOCK FALSE
PROPERTIES SoloSyncSettles ManagedRowsAreTheirApps TablesAndIndexAgree OnlyPartiesPay
