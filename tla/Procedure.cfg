CONSTANTS
    None = None
    sic = sic
    dc = dc
    log = log
    i = i
    Request <- Requests
    Steps <- RequestSteps
    IdOf <- Ids
    Limit <- Limits
    MaxRetries = 1
    MaxAccepted = 1
    MaxRestarts = 2
CHECK_DEADLOCK FALSE
SPECIFICATION FairSpec
INVARIANTS
    StepsInOrder
    TriesBounded
    ExecLimitHolds
    OkMeansDone
PROPERTIES
    AcceptedIsAnswered
