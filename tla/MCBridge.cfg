SPECIFICATION Spec
CONSTANTS
    profile = profile
    guest = guest
    token = token
    h1 = h1
    h2 = h2
    Handlers <- TwoHandlers
    Profiles <- MCProfiles
    ProfileTokens <- OneToken
    Guests <- OneGuest
    Clipboards <- ImageOrFiles
    CallerNamesIDs = FALSE
    MaxFiles = 1
    MaxItems = 2
    DefaultTTL = 1
    FileTTL = 1
    MaxArms = 2
    MaxTime = 1
INVARIANTS SingleUse ConsumedMeansHanded
PROPERTIES OnlyEntitledRead ImplementsOneShot
SYMMETRY HandlerSymmetry
