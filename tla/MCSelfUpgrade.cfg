SPECIFICATION FairSpec
CONSTANTS
    p1 = p1
    p2 = p2
    ArmedBridge = ArmedBridge
    NoBridge = NoBridge
    Profiles <- TwoProfiles
    MaxFailures = 2
    MaxStops = 1
INVARIANTS StoppedStaysStopped StagedIsGone
PROPERTIES LocalChangesLast CompanionsComeBack
CHECK_DEADLOCK FALSE
