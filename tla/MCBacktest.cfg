CONSTANTS
    Signal = {1, 2}
    DailyBar <- MCDailyBar
    HoldingDays = 1
    LimitPercent = 10
    OutOfSample = 4
    Days = 7
    MaxOdd = 2
SPECIFICATION MCSpec
INVARIANTS
    OnePositionAtATime
    LeftOutForAnOpenPosition
PROPERTY TradesStand
CHECK_DEADLOCK FALSE
