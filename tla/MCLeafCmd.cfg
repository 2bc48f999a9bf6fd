CONSTANTS
    t1 = t1
    t2 = t2
    c1 = c1
    c2 = c2
    Thread = {t1, t2}
    NoThread = NoThread
    chan <- OneEach
    Command = {"START_CHIP"}
    Unchecked = {}
    QueueRoom = 1
    MaxInFlight = 2
    MaxStalls = 1
SPECIFICATION FairSpec
INVARIANTS
    NodesAreInside
    
    CallIsUnderWay
    OneWrite
    FreedIsUnused
PROPERTIES
    CallIsAnswered
    WaitersAreStopped
    RemovalEnds
CHECK_DEADLOCK FALSE
