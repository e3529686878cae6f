CONSTANTS
    Key = {k1, k2, k3}
    Value = {u, v}
    Capacity = 2
    TTL = 1
    Absent = Absent
    MaxTime = 3
SPECIFICATION CacheSpec
INVARIANTS
    CacheTypeOK
    EvictsOldest
PROPERTIES
    ImplementsTtlMap
