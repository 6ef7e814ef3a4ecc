SPECIFICATION Spec
CONSTANTS
    d1 = d1
    d2 = d2
    NoState = NoState
    Disputes = {d1, d2}
    MaxConcurrent = 2
    MAX_PROCESSED_IDS = 2
    DryRunModes = {TRUE, FALSE}
    MaxCrashes = 1
    MaxSignals = 1
    MaxStateLosses = 1
    MaxReorgs = 1
INVARIANTS CheckpointCoversChallenges ActiveDisputesMatchChain OneTaskPerDispute
SYMMETRY DisputeSymmetry
