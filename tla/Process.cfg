CONSTANTS
    ConfirmDeadline = 2
    releaseTimeout = 1
    Windows <- MCWindows
    Drains = {1, 2}
    Timeouts = {2, 4, 5}
    DialAttempts = 2
    MaxAge = 14
SPECIFICATION FairSpec
INVARIANTS TypeOK FenceHolds CutOnlyByShortShutdown
PROPERTIES StopsAfterSignal LateDialIsClosed SelfHeals
CHECK_DEADLOCK FALSE
