CONSTANTS
    Task = {t1, t2, t3, t4}
    Worker = {w1, w2}
    BufferSize = 2
    NoTask = NoTask
SPECIFICATION FairSpec
INVARIANTS
    TypeOK
    FifoHandOver
    SinglePlace
    OvertakeBound
PROPERTIES
    Ends
    ImplementsPool
CHECK_DEADLOCK FALSE
