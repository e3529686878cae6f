SPECIFICATION Spec
CONSTANTS
    m1 = m1
    m2 = m2
    Sender = {m1, m2}
    Ghost = "ghost"
    Base <- MCBase
    Worker = {w1, w2}
    MaxEvent = 4
    MaxPending = 2
    MaxMishap = 1
SYMMETRY Symmetry
INVARIANTS TypeOK Provenance Converges
CHECK_DEADLOCK FALSE
