SPECIFICATION Spec
CONSTANTS
    c1 = c1
    c2 = c2
    c3 = c3
    a = a
    b = b
    Calls <- ThreeCalls
    Items <- TwoItems
    Name <- OneName
    Requests <- AnyRequest
    Transfer = 1
    Retention = 2
    MaxNow = 5
INVARIANTS AllOrNothing OthersCleanOldOnly
SYMMETRY Symmetry
CHECK_DEADLOCK FALSE
