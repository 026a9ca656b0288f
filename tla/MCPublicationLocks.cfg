CONSTANTS
    Run = {r1, r2}
    Date = {1, 2}
    Slot = {s1, s2}
    Site = 3
    Nobody = nobody
    Stranger = stranger
    Nothing = nothing
    MaxFaults = 1
    r1 = r1
    KindOf <- EveryKind
SPECIFICATION ProgressSpec
INVARIANTS
    CommittedStays
    IndexListsReports
    OneTransaction
    FetchesRecovered
PROPERTIES
    RunsEnd
    OrphansSettle
