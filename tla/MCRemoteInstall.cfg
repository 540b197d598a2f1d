SPECIFICATION InstallFairSpec
CONSTANTS
    i1 = i1
    i2 = i2
    i3 = i3
    Installs <- ThreeInstalls
    Tag <- TwoTags
    Versions <- AnyVersion
    MaxKills = 1
INVARIANTS BinaryIsWhole
PROPERTIES NeverOlder TemporariesGo
CHECK_DEADLOCK FALSE
