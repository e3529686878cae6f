CONSTANTS
    MaxTxn = 2
    TxnSize = 2
    MaxRequest = 3
    Worker = {w1}
    BufferSize = 1
    NoTask = NoTask
    CleanupEvery = 2
    MaxMishap = 2
SPECIFICATION Spec
INVARIANTS
    TypeOK
    ExecutionBound
    NearlyInOrder
CHECK_DEADLOCK FALSE
