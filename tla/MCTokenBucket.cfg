CONSTANTS
    Caller = {c1, c2, c3}
    Choice <- MCChoice
    Pause <- MCPause
    MaxCall = 5
    Horizon = 140
    MaxHeldUp = 1
SPECIFICATION LimiterSpec
INVARIANTS LimiterTypeOK BurstBound LimitIsExact
PROPERTY WaitEnds
CHECK_DEADLOCK FALSE
