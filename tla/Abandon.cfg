CONSTANTS
    TTL = 2
    Takeover = 3
    maxResets = 2
    MaxSignals = 2
SPECIFICATION FairSpec
INVARIANTS TypeOK WatchedOrExcused
PROPERTIES ReapsOnlyTheDead AbandonedIsExpired
CHECK_DEADLOCK FALSE
