CONSTANTS
    Accounts = 2
    MaxMinute = 3
    MaxUpdates = 2
    MaxAge = 1
    MaxDrops = 1
SPECIFICATION FeedSpec
CHECK_DEADLOCK FALSE
INVARIANTS
    OkMeansSubscribed
