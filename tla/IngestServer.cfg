SPECIFICATION FairSpec
CONSTANTS
    r1 = r1
    r2 = r2
    m1 = m1
    m2 = m2
    live = live
    off = off
    game = game
    web = web
    Requests = {r1, r2}
    Minutes = {m1, m2}
    Keys = {live, off}
    Roles = {game, web}
    Credentials <- MCCredentials
    Envelopes <- MCEnvelopes
    Mcp = Mcp
    Nothing = Nothing
    SyncLimit = 1
    McpLimit = 1
    MaxPendingBatches = 1
    MaxStarts = 2
INVARIANTS
    StoreOutlivesItsUsers
    LeasesMatchHolders
    EvidenceAndHistoryAgree
    CleanStopKeepsAcked
PROPERTIES
    StopSettles
    UnsavedIsRetried
CHECK_DEADLOCK FALSE
