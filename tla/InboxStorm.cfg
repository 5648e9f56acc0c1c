SPECIFICATION FairSpec
CONSTANTS
    MaxMessage = 2
    MaxTime = 3
    Batch = 2
    Lookback = 1
    Retention = 2
    QueueLimit = 1
    PendingLimit = 2
    EventLimit = 3
    Budget = 2
    Limit <- StormLimit
INVARIANT DeletedHasNoPending
PROPERTIES NoMessageJumped DecidedByRuleInForce NeverReprocessed EventuallyCaughtUp
CHECK_DEADLOCK FALSE
