CONSTANTS
    Process = {p1, p2}
    Code = {1, 2}
    BatchSize = 1
    Config = {a}
    Universe = {{1, 2}, {1}}
    Observation = {}
    Available = {}
    LastDay = 1
    Nothing = nothing
    MaxFaults = 2
SPECIFICATION ProgressSpec
PROPERTIES
    PublishedKept
    ScanSettles
