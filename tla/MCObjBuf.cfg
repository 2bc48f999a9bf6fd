CONSTANTS
    MAX_OBJECT_BUFFERS = 3
    Capacity = 2
    ClearsDone = TRUE
SPECIFICATION Spec
INVARIANTS
    MarkedIsQueued
    
PROPERTY ResponsesAreOwed
CHECK_DEADLOCK FALSE
