SPECIFICATION Spec
CONSTANTS
    p1 = p1
    h1 = h1
    h2 = h2
    f1 = f1
    f2 = f2
    Handlers <- TwoHandlers
    Profiles <- OneProfile
    Folders <- TwoFolders
    Folder <- Shared
    OfferTTL = 1
    Retention = 1
    MaxOpen = 2
    MaxOffers = 3
    MaxTime = 3
    MaxCrashes = 1
INVARIANTS UploadsAreSafe OpenOffersAreCapped 
PROPERTIES OffersFollowProtocol FilesOutliveRetention

SYMMETRY Interchangeable
