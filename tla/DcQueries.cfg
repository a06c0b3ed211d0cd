CONSTANTS
    q1 = q1
    q2 = q2
    gui = gui
    Query <- Queries
    GuiIo <- GuiQueries
    Result = Result
    MaxResults = 1
    MaxFailures = 1
    MaxGivenUp = 1
    MaxOutages = 2
    MaxRestarts = 1
    MaxMalformed = 1
CHECK_DEADLOCK FALSE
SPECIFICATION FairSpec
INVARIANTS
    NoStrayCallbacks
    TimedOrQueued
PROPERTIES
    IsQueryService
    TimedQueryFinishesUnlessLost
