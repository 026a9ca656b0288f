CONSTANTS
    Key = {1, 2}
    Content = {c1, c2}
    Absent = absent
    MaxFaults = 2
SPECIFICATION ProgressSpec
PROPERTY OneCommit
