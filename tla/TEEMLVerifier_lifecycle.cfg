SPECIFICATION FairSpec
CONSTANTS
    p = p
    w = w
    e1 = e1
    v1 = v1
    j1 = j1
    NoAccount = NoAccount
    Accounts = {p, w}
    Rejecting = {w}
    EnclaveKeys = {e1}
    Verifiers = {v1}
    InitVerifier = v1
    Jobs = {j1}
    Amounts = {1, 2}
    Durations = {0, 1, 2}
    MinChallengeWindow = 1
    MaxChallengeWindow = 2
    MinDisputeWindow = 1
    MaxDisputeWindow = 1
    MaxAmount = 2
    ExtensionPeriod = 1
    MaxExtensions = 1
    InitChallengeWindow = 2
    InitDisputeWindow = 1
    InitAmount = 2
    Horizon = 1
    MaxTime = 5
    MaxResults = 2
    MaxConfigOps = 1
    MaxDonated = 1
INVARIANTS Solvency PaidOnceToWinner OutcomeIsEarned DisputesAreBounded
PROPERTIES OutcomeIsFinal ImplementsEscrow EveryStakeIsReleased
