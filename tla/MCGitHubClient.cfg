SPECIFICATION ClientSpec
CONSTANTS
    MaxCalls = 3
    MaxRetries = 3
    BackoffBase = 1
    BackoffMax = 3
    Quota <- MCQuota
    YellowFloor <- MCYellowFloor
    RedFloor <- MCRedFloor
PROPERTIES
    LimitIsFinal
    EveryCallEnds
CHECK_DEADLOCK FALSE
