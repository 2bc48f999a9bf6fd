CONSTANTS
    w1 = w1
    w2 = w2
    Writer = {w1}
    QueueRoom = 2
    max_outstanding_tx = 2
    MaxMessages = 4
SPECIFICATION FairSpec
INVARIANTS
    NobodyIsForgotten
    EchoIsOwn
    SyncMeansSent
PROPERTIES
    MessagesGoOut
    WriteSyncReturns
CHECK_DEADLOCK FALSE
