------------------------------ MODULE LruCache ------------------------------
(***************************************************************************)
(* server/cache.go: the LRU cache with TTL in front of the KV store        *)
(* (ghostUserCache, roomMappingCache, roomMembershipCache).  A map from    *)
(* keys to list elements and a list in order of use, both guarded by one   *)
(* mutex, so each method is one step.  Len and Stats only read.            *)
(***************************************************************************)
EXTENDS Naturals, Sequences, FiniteSets

CONSTANTS Key, Value,
          Capacity,     \* capacity; 0 stores nothing
          TTL,          \* ttl
          Absent,       \* the answer of a miss
          MaxTime       \* bound of the clock

ASSUME LruCacheAssumption == /\ Capacity \in Nat /\ TTL \in Nat
                             /\ MaxTime \in Nat
                             /\ Absent \notin Value
                             /\ Absent \notin [value : Value, expiresAt : Nat]

VARIABLES
    items,    \* the keys of the items map; the element is the key's in lru
    lru,      \* the list, most recently used first
    now,      \* time.Now()
    got,      \* the answer of the last Get, Absent for a miss
    latest,   \* history: latest[k] is the last Set of k that was not deleted
    recency   \* history: every key set or hit so far, last used first

elements == <<items, lru>>
cacheVars == <<items, lru, now, got, latest, recency>>

Entry == [key : Key, value : Value, expiresAt : Nat]

CacheTypeOK == /\ items \in SUBSET Key
               /\ lru \in Seq(Entry) /\ Len(lru) <= Capacity
               /\ now \in Nat
               /\ got \in Value \cup {Absent}
               /\ latest \in [Key -> [value : Value, expiresAt : Nat] \cup {Absent}]
               /\ recency \in Seq(Key)

CacheInit == /\ items = {}
             /\ lru = <<>>
             /\ now = 0
             /\ got = Absent
             /\ latest = [k \in Key |-> Absent]
             /\ recency = <<>>

\* The element of k (which the map points to), as its place in the list.
Place(k) == CHOOSE i \in 1..Len(lru) : lru[i].key = k

Without(seq, i) == [j \in 1..(Len(seq) - 1) |->
                      IF j < i THEN seq[j] ELSE seq[j + 1]]
MovedToFront(seq, i) == <<seq[i]>> \o Without(seq, i)

\* recency after a use of k.
Used(k) == <<k>> \o IF \E i \in 1..Len(recency) : recency[i] = k
                   THEN Without(recency, CHOOSE i \in 1..Len(recency) : recency[i] = k)
                   ELSE recency

Expired(e) == now > e.expiresAt

\* removeElement: the map's key and the list's element go together.
RemoveElement(i) == /\ items' = items \ {lru[i].key}
                    /\ lru' = Without(lru, i)

\* A Get that ignores the expiry.
Get_NoExpiry(k) ==
    /\ IF k \notin items
       THEN got' = Absent /\ UNCHANGED <<elements, recency>>
       ELSE /\ got' = lru[Place(k)].value
            /\ lru' = MovedToFront(lru, Place(k))
            /\ recency' = Used(k)
            /\ UNCHANGED items
    /\ UNCHANGED <<now, latest>>

\* A Get that does not count as a use.
Get_NoTouch(k) ==
    /\ IF k \notin items
       THEN got' = Absent /\ UNCHANGED <<elements, recency>>
       ELSE IF Expired(lru[Place(k)])
            THEN /\ got' = Absent
                 /\ RemoveElement(Place(k))
                 /\ UNCHANGED recency
            ELSE /\ got' = lru[Place(k)].value
                 /\ recency' = Used(k)
                 /\ UNCHANGED <<items, lru>>
    /\ UNCHANGED <<now, latest>>

Get(k) ==
    /\ IF k \notin items
       THEN got' = Absent /\ UNCHANGED <<elements, recency>>
       ELSE IF Expired(lru[Place(k)])
            THEN /\ got' = Absent
                 /\ RemoveElement(Place(k))
                 /\ UNCHANGED recency
            ELSE /\ got' = lru[Place(k)].value
                 /\ lru' = MovedToFront(lru, Place(k))
                 /\ recency' = Used(k)
                 /\ UNCHANGED items
    /\ UNCHANGED <<now, latest>>

\* A Set that evicts only beyond the capacity.
Set_EvictLate(k, v) ==
    LET entry == [key |-> k, value |-> v, expiresAt |-> now + TTL]
        kept  == IF k \in items THEN Without(lru, Place(k))
                 ELSE IF Len(lru) > Capacity THEN Without(lru, Len(lru))
                 ELSE lru
    IN  /\ lru' = <<entry>> \o kept
        /\ items' = {lru'[i].key : i \in 1..Len(lru')}
        /\ latest' = [latest EXCEPT ![k] =
                        [value |-> v, expiresAt |-> now + TTL]]
        /\ recency' = Used(k)
        /\ UNCHANGED <<now, got>>

\* Set: nothing with capacity 0; a present key gets the value, a new expiry
\* and the front; a new one evicts the back of a full list first.
Set(k, v) ==
    LET entry == [key |-> k, value |-> v, expiresAt |-> now + TTL]
        evict == Len(lru) >= Capacity
    IN  /\ \/ /\ Capacity = 0
              /\ UNCHANGED <<elements, recency>>
           \/ /\ Capacity > 0 /\ k \in items
              /\ lru' = <<entry>> \o Without(lru, Place(k))
              /\ recency' = Used(k)
              /\ UNCHANGED items
           \/ /\ Capacity > 0 /\ k \notin items
              /\ lru' = <<entry>> \o IF evict THEN Without(lru, Len(lru)) ELSE lru
              /\ items' = (IF evict THEN items \ {lru[Len(lru)].key} ELSE items)
                            \cup {k}
              /\ recency' = Used(k)
        /\ latest' = [latest EXCEPT ![k] =
                        [value |-> v, expiresAt |-> now + TTL]]
        /\ UNCHANGED <<now, got>>

Delete(k) ==
    /\ IF k \in items THEN RemoveElement(Place(k)) ELSE UNCHANGED elements
    /\ latest' = [latest EXCEPT ![k] = Absent]
    /\ UNCHANGED <<now, got, recency>>

Clear == /\ items' = {}
         /\ lru' = <<>>
         /\ latest' = [k \in Key |-> Absent]
         /\ UNCHANGED <<now, got, recency>>

\* What has not expired stays, in its order.
EvictExpired ==
    /\ \E n \in 0..Len(lru) : \E stays \in [1..n -> 1..Len(lru)] :
          /\ \A i, j \in 1..n : i < j => stays[i] < stays[j]
          /\ {stays[i] : i \in 1..n} = {j \in 1..Len(lru) : ~Expired(lru[j])}
          /\ lru' = [i \in 1..n |-> lru[stays[i]]]
    /\ items' = items \ {lru[i].key : i \in {j \in 1..Len(lru) : Expired(lru[j])}}
    /\ UNCHANGED <<now, got, latest, recency>>

Tick == /\ now < MaxTime
        /\ now' = now + 1
        /\ UNCHANGED <<elements, got, latest, recency>>

CacheNext == \/ \E k \in Key : Get(k) \/ Delete(k)
             \/ \E k \in Key, v \in Value : Set(k, v)
             \/ Clear
             \/ EvictExpired
             \/ Tick

CacheSpec == CacheInit /\ [][CacheNext]_cacheVars

-----------------------------------------------------------------------------
(* Properties *)

\* The map and the list agree and no key is twice in the list, so the element
\* a key points to is the only one: no eviction can leave a key of the map
\* without its element, or an element that nothing will ever remove.
MapMatchesList ==
    /\ items = {lru[i].key : i \in 1..Len(lru)}
    /\ \A i, j \in 1..Len(lru) : lru[i].key = lru[j].key => i = j

\* Least recently used: a key that was set, not deleted and not expired may
\* only be missing when at least Capacity other keys were used after it.
KeepsRecent ==
    \A i \in 1..Len(recency) :
        LET k == recency[i] IN
        (i <= Capacity /\ latest[k] # Absent /\ now <= latest[k].expiresAt)
            => k \in items

\* The right key is evicted, in the map and in the list.
EvictsOldest == MapMatchesList /\ KeepsRecent

\* The cache implements the forgetful TTL map.
contentBar ==
    [k \in Key |->
        IF \E i \in 1..Len(lru) : lru[i].key = k
        THEN [value |-> lru[Place(k)].value,
              expiresAt |-> lru[Place(k)].expiresAt]
        ELSE Absent]

Map == INSTANCE TtlMap WITH content <- contentBar

ImplementsTtlMap == Map!Spec
=============================================================================
