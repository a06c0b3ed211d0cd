CONSTANTS
    None = None
    sic = sic
    dc = dc
    log = log
    i = i
    Request <- Requests
    Steps <- RequestSteps
    IdOf <- Ids
    Limit <- Limits
    MaxRetries = 1
    MaxAccepted = 2
    MaxRestarts = 1
CHECK_DEADLOCK FALSE
SPECIFICATION Spec
INVARIANTS
    StepsInOrder
