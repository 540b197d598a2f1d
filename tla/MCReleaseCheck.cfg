SPECIFICATION CheckSpec
CONSTANTS
    c1 = c1
    c2 = c2
    Base = 3
    Letters = 1
    MaxUint = 8
    Versions <- SomeVersions
    Releases <- SomeReleases
    Companions <- TwoCompanions
    Running <- ReleaseCandidate
    CacheTTL = 2
    MaxNow = 2
    MaxOutages = 1
INVARIANTS NoticeFollowsSemVer DateIsHonest StatusIsFresh
SYMMETRY Symmetry
