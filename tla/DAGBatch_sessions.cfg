SPECIFICATION FairSpec
CONSTANTS
    q1 = q1
    q2 = q2
    c1 = c1
    g1 = g1
    g2 = g2
    Nothing = Nothing
    Senders = {q1, q2}
    Circuits = {c1}
    Descriptions <- MCDescriptions
    Generators = {g1, g2}
    Arguments <- MCArguments
    LAYERS_PER_BATCH = 2
    GROUPS_PER_FINALIZE_BATCH = 2
    MaxBlock = 2
    MaxStarts = 2
    MaxAdmin = 1
INVARIANTS MatchesOneShot NoStorageLeftBehind
PROPERTIES NoReplayAcrossBlocks SessionsComplete
CHECK_DEADLOCK FALSE
