SPECIFICATION FairSpec
CONSTANTS
    MinWait = 1
    MaxWait = 3
    StableFor = 1
    MaxCrashes = 1
    MaxCommands = 2
    MaxLogins = 1
    Systems <- AllSystems
INVARIANTS WaitsDouble NothingOutlivesService AnswersAreTrue StopIsRespected
PROPERTIES StopEndsService FailureIsRetried
