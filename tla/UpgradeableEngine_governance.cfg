SPECIFICATION FairSpec
CONSTANTS
    a = a
    b = b
    v1 = v1
    v2 = v2
    Nobody = Nobody
    Timelock = Timelock
    Accounts = {a, b}
    Rejecting = {b}
    Ids = {"o1"}
    Calls <- MCCalls
    Delays = {1, 2}
    InitOwner = a
    InitMinDelay = 2
    Implementations = {v1, v2}
    InitialImplementation = v1
    Tips = {41}
    Expirations = {0}
    DEFAULT_PROTOCOL_FEE_BPS = 250
    MAX_FEE_BPS = 1000
    MIN_TIP = 1
    DEFAULT_EXPIRATION = 1
    MIN_EXPIRATION = 1
    MAX_EXPIRATION = 2
    CLAIM_WINDOW = 1
    MaxTime = 4
    MaxOwnerOps = 2
    MaxRequests = 1
    Horizon = 1
    MaxAdminOps = 3
PROPERTIES ChangesAreAnnounced AnnouncedIsExecuted OnlyLapsedClaimsAreStuck ImplementsEscrow
CHECK_DEADLOCK FALSE
