SPECIFICATION FairSpec
CONSTANTS
    c1 = c1
    c2 = c2
    Client = {c1, c2}
    Requests <- MCRequests
    UserQueries <- MCUserQueries
    EmbeddedQueries <- MCEmbeddedQueries
    MaxRuns = 3
    MaxFaults = 2
INVARIANTS BadFileDeletesNothing
PROPERTIES SuccessIsComplete JobsEnded DisabledIsReported EventuallyDone
CHECK_DEADLOCK FALSE
