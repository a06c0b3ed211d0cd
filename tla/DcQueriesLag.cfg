CONSTANTS
    q1 = q1
    q2 = q2
    gui = gui
    Query <- Queries
    GuiIo <- GuiQueries
    Result = Result
    MaxResults = 1
    MaxFailures = 1
    MaxGivenUp = 0
    MaxOutages = 0
    MaxRestarts = 0
    MaxMalformed = 0
CHECK_DEADLOCK FALSE
SPECIFICATION FairSpec
PROPERTIES
    EveryTimedQueryFinishes
