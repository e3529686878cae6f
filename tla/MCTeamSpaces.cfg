SPECIFICATION Spec
CONSTANTS
    t1 = t1
    t2 = t2
    Team = {t1, t2}
    TeamWords <- MCTeamWords
    Channel = {1, 2}
    Name <- MCName
    Mirror = FALSE
    ServerName = "example.com"
    MatrixServerDomain = "example.com"
    UrlHost = "matrix.example.com"
    Member = {1, 2, 3}
    PageSize = 1
    Limit = 2
    Slot = {s1, s2}
    MaxJob = 2
    MaxMishap = 1
SYMMETRY MCSymmetry
INVARIANTS TypeOK OwnRooms Settled
CHECK_DEADLOCK FALSE
