SPECIFICATION FairSpec
CONSTANTS
    c1 = c1
    c2 = c2
    arm = arm
    Nobody = Nobody
    Companions <- TwoCompanions
    Arms <- OneArm
    MaxStops = 2
    MaxCrashes = 1
INVARIANTS OneBridge BridgeFollowsOwner
PROPERTIES LeftoverIsTakenOver
CHECK_DEADLOCK FALSE
