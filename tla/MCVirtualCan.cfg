CONSTANTS
    h1 = h1
    h2 = h2
    h3 = h3
    c1 = c1
    c2 = c2
    Handle = {h1, h2, h3}
    NoHandle = NoHandle
    Channel = {c1, c2}
    chan <- TwoOnOne
    Capacity = 1
    MaxOutstanding = 2
    Ioctls = {"SET_OUTPUT_MODE", "FLUSH_SENDBUFFER", "WAIT_EMPTY"}
SPECIFICATION Spec
SYMMETRY SharedSymmetry
INVARIANTS
    NoStuckMessage
    SleeperIsWoken
