CONSTANTS
    Content = {c1, c2}
    Absent = absent
    Partial = partial
    AllowOverwrite = FALSE
    MaxFaults = 2
SPECIFICATION MCSpec
INVARIANTS
    PreimageKept
    UnrecordedIsWhole
PROPERTIES
    AllOrNothing
    TransactionEnds
