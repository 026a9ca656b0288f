CONSTANTS
    Bar <- MCBar
    Profile = {"simplified-v1", "strict-v1"}
    SimplifiedSeparation = 2
    StrictSeparation = 3
    CentralStrokes = 3
    Free = 9
    MaxOdd = 1
SPECIFICATION MCSpec
INVARIANT IdentityIsUnambiguous
PROPERTIES
    FractalsStay
    ConfirmedStays
    TradableWhenSeen
CHECK_DEADLOCK FALSE
