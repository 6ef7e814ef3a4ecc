SPECIFICATION FairSpec
CONSTANTS
    c1 = c1
    c2 = c2
    r1 = r1
    r2 = r2
    Clients = {c1, c2}
    Followers = {c1}
    PeerIp <- MCPeerIp
    max_connections = 2
    max_per_ip = 1
    buffer_capacity = 2
    channel_capacity = 1
    MaxFailedUpgrades = 1
    Results = {r1}
    MaxEvents = 3
    MaxCrashes = 1
    MaxFaults = 1
CHECK_DEADLOCK FALSE
INVARIANTS SlotsAreAccountedFor FollowersMissNothing RowsAreGenuine
PROPERTIES TableCatchesUp
