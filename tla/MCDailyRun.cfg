CONSTANTS
    daily = daily
    worker = worker
    feishu = feishu
    wecom = wecom
    primary = primary
    fallback = fallback
    Client <- MCClient
    Deferring <- MCDeferring
    Daily = daily
    Worker <- MCWorker
    Code = {c1, c2}
    Primary = primary
    Fallback = fallback
    NoAnswer = NoAnswer
    NoClient = NoClient
    NoReport = NoReport
    Channels <- MCChannels
    Limit <- MCLimit
    Frame = 2
    MaxAttempts = 2
    Summary <- MCSummary
    MaxRuns = 2
    MaxFetches = 1
SPECIFICATION MCSpec
INVARIANTS
    AnswersAreTheirs
    StoredWithReport
    DeliveredInFull
    EveryChannelTried
PROPERTY RunsEnd
CHECK_DEADLOCK FALSE
