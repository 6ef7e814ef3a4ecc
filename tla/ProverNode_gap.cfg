SPECIFICATION FairSpec
CONSTANTS
    r1 = r1
    r2 = r2
    Requests = {r1, r2}
    Private = {r1}
    Scores = {1}
    max_size = 2
    max_concurrent = 2
    max_retries = 2
    MaxRounds = 1
    MaxFaults = 1
CHECK_DEADLOCK FALSE
PROPERTIES EveryRoundEnds
