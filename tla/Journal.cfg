SPECIFICATION Spec
CONSTANTS
    Paths <- MCPaths
    Holder <- MCHolder
    Edits <- MCEdits
    Upserts <- MCUpserts
    LogNames <- MCLogNames
    LogOrder <- MCLogOrder
    Bootstrap <- MCBootstrap
    BootstrapLogs <- MCLogOrder
    Snapshot <- MCSnapshot
    Profiles <- MCProfiles
    Attributes = {plan}
    Anyone = Anyone
    app = app
    bot = bot
    plan = plan
    free = free
    pro = pro
    Scale = 2
    Values = {1, 2}
    None = None
    Top = "top"
    Capacity = 2
    Clients = {c1}
    MaxVersion = 4
    MaxRequests = 3
INVARIANTS
    EntriesReplayHistory
    RollbackRestoresItsPaths
    NoLostUpdate
    ServedConfigIsValid
    ClientVersionIdentifiesConfig
CHECK_DEADLOCK FALSE
