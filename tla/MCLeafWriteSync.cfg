CONSTANTS
    w1 = w1
    w2 = w2
    Writer = {w1}
    QueueRoom = 2
    max_outstanding_tx = 2
    MaxMessages = 3
SPECIFICATION FairSpec
PROPERTY WriteSyncAlwaysReturns
CHECK_DEADLOCK FALSE
