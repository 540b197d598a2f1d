SPECIFICATION WatchFairSpec
CONSTANTS
    w1 = w1
    w2 = w2
    a = a
    b = b
    c = c
    Nothing = Nothing
    Watchers <- TwoWatchers
    Contents <- ThreeContents
    MaxCopies = 3
    MaxFailures = 2
INVARIANTS RearmsAreFew
PROPERTIES FollowsClipboard
CHECK_DEADLOCK FALSE
