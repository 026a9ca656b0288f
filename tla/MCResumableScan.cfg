CONSTANTS
    Process = {p1, p2}
    Code = {1, 2}
    BatchSize = 1
    Config = {a, b}
    Universe = {{1, 2}}
    Observation = {x, y}
    Available = {y}
    LastDay = 2
    Nothing = nothing
SYMMETRY ProcessSymmetry
SPECIFICATION Spec
INVARIANTS
    ArtifactIsCoherent
PROPERTIES
    ProgressKept
    ObservationKept
CHECK_DEADLOCK FALSE
