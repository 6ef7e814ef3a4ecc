SPECIFICATION FairRatedSpec
CONSTANTS
    a1 = a1
    a2 = a2
    NoAccount = NoAccount
    Accounts = {a1, a2}
    Provers = {a1, a2}
    Rejecting = {a2}
    Tips = {2, 41}
    Expirations = {0}
    Fees = {0, 1001}
    ReputationChoices = {TRUE, FALSE}
    InitFee = 250
    InitReputation = TRUE
    MIN_TIP = 3
    DEFAULT_EXPIRATION = 2
    MIN_EXPIRATION = 1
    MAX_EXPIRATION = 2
    CLAIM_WINDOW = 1
    TIP_DECAY_PERIOD = 2
    MAX_FEE_BPS = 1000
    MaxRequests = 1
    Horizon = 1
    MaxTime = 5
    MaxConfigOps = 1
    Engine = "engine"
    RepOwner = "owner"
    MAX_SCORE = 10000
    INITIAL_SCORE = 5000
    SUCCESS_BONUS = 50
    FAST_PROOF_BONUS = 25
    FAILURE_PENALTY = 200
    ABANDON_PENALTY = 500
    SILVER_THRESHOLD = 5000
    GOLD_THRESHOLD = 7500
    PLATINUM_THRESHOLD = 9000
    DIAMOND_THRESHOLD = 9500
    MIN_COOLDOWN = 1
    MAX_COOLDOWN = 3
    InitCooldown = 2
    Penalties = {10000}
    Cooldowns = {0, 1}
    HandEarnings = 7
    MaxOwnerOps = 2
INVARIANTS PaymentMatchesFate RecordsMatchMarket
PROPERTIES ImplementsEscrow ClaimIsExclusive FundsRecoverableWithReputation
