SPECIFICATION DeliverySpec
CONSTANTS
    o1 = o1
    o2 = o2
    u1 = u1
    u2 = u2
    a = a
    b = b
    long = long
    Broken = Broken
    Offers <- TwoOffers
    Uploads <- TwoUploads
    Contents <- AnyContent
    Size <- Sizes
    MaxEdits = 2
    MaxOutages = 2
INVARIANTS SavedIsOffered OkMeansDelivered
SYMMETRY Symmetry
CHECK_DEADLOCK FALSE
