CONSTANTS
    Days = 3
    Weekend = {1}
    Collector = {c1, c2}
    Batches = 2
    HistoryLimit = 1
    NoSnapshot = NoSnapshot
    Reader = {r1, r2}
    Retries = 1
    WatchlistRetries = 1
    NoQuotes = NoQuotes
    QuoteDays = 2
SPECIFICATION MCSpec
INVARIANT QuotesAreOfTheirDate
PROPERTY TrackerStands
CHECK_DEADLOCK FALSE
