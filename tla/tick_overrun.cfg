SPECIFICATION FairWatchedSpec
CONSTANTS
    Interval = 48
    MaxTick = 112
    Latency = 3
    Period = 8
    InitialDelay = 8
    Timeout = 2
    Threshold = 2
INVARIANT WatchedInv
INVARIANT PendingTickIsRecent
INVARIANT HangBounded
 
PROPERTY StartTimesAdvance
PROPERTY HangReported
PROPERTY ScrapingSurvivesHangs
PROPERTY CancelledLoopReturns
CHECK_DEADLOCK FALSE
