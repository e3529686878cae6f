CONSTANTS
    r1 = r1
    r2 = r2
    r3 = r3
    a1 = a1
    a2 = a2
    p1 = p1
    p2 = p2
    Channel = {c1, d1}
    Dm = {d1}
    RoomID <- MCRoomID
    Alias = {a1, a2}
    RoomOf <- MCRoomOf
    External = {r3}
    Stored <- MCStored
    Reader <- MCReader
    Actor = {x1}
    Hook = Hook
    TTL = 0
    None = None
    Absent = Absent
    MaxTime = 1
    MaxCommand = 1
    MaxFault = 1
SYMMETRY MCSymmetry
SPECIFICATION Spec
INVARIANTS
    TypeOK
    BoundedStaleness
    RoomsLeadBack
CHECK_DEADLOCK FALSE
