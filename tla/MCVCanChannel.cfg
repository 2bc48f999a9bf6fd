CONSTANTS
    f1 = f1
    f2 = f2
    f3 = f3
    can = can
    fd = fd
    Handle = {f1, f2, f3}
    NoHandle = NoHandle
    TransIds = 1
    Mode = {can, fd}
    NoMode = NoMode
    Ioctls <- AccessIoctls
SPECIFICATION Spec
SYMMETRY Symmetry
INVARIANTS
    OnBusTogether
    Exclusive
    
    SilentIsTrusted
CHECK_DEADLOCK FALSE
