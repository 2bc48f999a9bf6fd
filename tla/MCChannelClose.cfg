CONSTANTS
    f1 = f1
    f2 = f2
    f3 = f3
    can = can
    fd = fd
    Handle = {f1, f2, f3}
    NoHandle = NoHandle
    TransIds = 1
    Mode = {can}
    NoMode = NoMode
    Ioctls <- BufferIoctls
SPECIFICATION FairSpec

    
    
PROPERTY CloseEnds
CHECK_DEADLOCK FALSE
