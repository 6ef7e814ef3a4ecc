SPECIFICATION FairSpec
CONSTANTS
    r1 = r1
    r2 = r2
    r3 = r3
    Requests = {r1, r2, r3}
    Private = {r1}
    Scores = {1, 2}
    max_size = 2
    max_concurrent = 2
    max_retries = 2
    MaxRounds = 2
    MaxFaults = 1
CHECK_DEADLOCK FALSE
INVARIANTS QueueIsConsistent NoncesAreAccountedFor ClaimMinedBeforeProving
PROPERTIES RoundEndsUnlessGap
