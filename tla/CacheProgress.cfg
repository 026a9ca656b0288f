CONSTANTS
    Key = {1, 2}
    Content = {c1, c2}
    Absent = absent
    MaxFaults = 3
SPECIFICATION ProgressSpec
INVARIANTS
    TypeOK
    PreimagesHeld
    RefusedIsWhole
PROPERTIES
    
    KeptUnlessReused
    BatchEnds
