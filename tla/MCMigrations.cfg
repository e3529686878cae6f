CONSTANTS
    MatrixUser = {1, 2, 3}
    User = {1, 2}
    Channel = {1, 2, 3}
    RoomID = {11, 12, 13}
    Alias = {21}
    RoomOf <- MCRoomOf
    BatchSize = 2
    LegacyStores <- MCLegacyStores
    OtherKeys <- MCOtherKeys
    MaxRun = 3
    MaxFault = 2
SPECIFICATION Spec
INVARIANTS
    TypeOK
    MappingsKept
    CleanRun
CHECK_DEADLOCK FALSE
