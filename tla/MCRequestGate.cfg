CONSTANTS
    Process = {p1, p2}
    NoProcess = nobody
    Time = {0, 1, 2, 3}
    Interval = 1
    Cooldown = 2
SYMMETRY ProcessSymmetry
SPECIFICATION Spec
PROPERTIES
    StartsSpaced
    PauseRespected
