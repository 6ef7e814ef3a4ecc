SPECIFICATION FairSpec
CONSTANTS
    d1 = d1
    d2 = d2
    NoState = NoState
    Disputes = {d1, d2}
    MaxConcurrent = 1
    MAX_PROCESSED_IDS = 1
    DryRunModes = {FALSE}
    MaxCrashes = 1
    MaxSignals = 1
    MaxStateLosses = 0
    MaxReorgs = 0
PROPERTIES EveryChallengeIsTakenUp
