SPECIFICATION Spec
CONSTANTS
    t1 = t1
    t2 = t2
    t3 = t3
    m1 = m1
    m2 = m2
    noMsg = noMsg
    Thread <- MCThread
    Msg <- MCMsg
    NoMsg <- noMsg
    Size = 4
SYMMETRY Symmetry
INVARIANTS
    LockDiscipline
    PositionsStayValid
PROPERTIES
    FifoSpec
