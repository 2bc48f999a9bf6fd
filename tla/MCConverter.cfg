CONSTANTS
    Type <- MCType
    Size <- MCSize
    storage_size = 3
    PreTrigger <- MCPreTrigger
    MaxEvents = 5
    MaxFiles = 2
    MaxFailures = 1
SPECIFICATION Spec
INVARIANTS
    InOrder
    WindowIsKept
    
    Numbered
PROPERTY FifoSpec
CHECK_DEADLOCK FALSE
