CONSTANTS
    Candidate = {1, 2, 3}
    MaxWorkers = 2
    Attempts = 2
SPECIFICATION FairSpec
INVARIANTS
    TimeoutIsTheirs
    GivenUpWhenBlocked
PROPERTY BatchPromise
CHECK_DEADLOCK FALSE
