SPECIFICATION FairClientSpec
CONSTANTS
    q1 = q1
    c1 = c1
    g1 = g1
    Nothing = Nothing
    Senders = {q1}
    Me = q1
    Circuits = {c1}
    Descriptions <- MCDescriptions
    Generators = {g1}
    Arguments <- MCArguments
    MyArguments <- MCMyArguments
    LAYERS_PER_BATCH = 2
    GROUPS_PER_FINALIZE_BATCH = 2
    MaxBlock = 2
    MaxStarts = 3
    MaxAdmin = 2
    maxRetries = 1
    SkipCleanup = {TRUE, FALSE}
    MaxErrors = 3
    MaxCancels = 2
INVARIANTS ReportedIsVerified
PROPERTIES ResumeCompletes
CHECK_DEADLOCK FALSE
