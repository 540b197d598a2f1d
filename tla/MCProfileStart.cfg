SPECIFICATION FairSpec
CONSTANTS
    c1 = c1
    c2 = c2
    c3 = c3
    Nobody = Nobody
    Companions <- ThreeCompanions
    Wait = 2
    Stale = 1
    HoldMax = 1
    Prompt = TRUE
    MaxStops = 1
    MaxCrashes = 1
    MaxTime = 4
INVARIANTS OnePerProfile
PROPERTIES GivesUpOnlyForRival StartsEnd
CHECK_DEADLOCK FALSE
