CONSTANTS
    p1 = p1
    p2 = p2
    Key <- MCKey
    MaxReaction = 3
    PostOf <- MCPostOf
    Worker = {w1}
    BufferSize = 1
    NoTask = NoTask
    Task <- MCTask
SPECIFICATION BatcherFairSpec
INVARIANTS
    BatcherTypeOK
    NoStrandedBatch
    InOneBatch
    BatchOrderKept
PROPERTIES
    BatcherEnds
CHECK_DEADLOCK FALSE
