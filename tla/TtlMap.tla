------------------------------- MODULE TtlMap -------------------------------
(***************************************************************************)
(* What the bridge's caches promise (server/cache.go): a map from keys to  *)
(* the value last set, which may forget any key at any time, and must not  *)
(* answer with a value that is older than TTL or that was replaced or      *)
(* deleted.  The specification says nothing of capacity or of which keys   *)
(* are forgotten.                                                          *)
(***************************************************************************)
EXTENDS Naturals

CONSTANTS Key, Value, TTL,
          Absent        \* neither a value nor an entry

VARIABLES content,      \* content[k]: [value, expiresAt], or Absent
          now,          \* the clock
          got           \* the answer of the last Get, Absent for a miss

vars == <<content, now, got>>

Init == /\ content = [k \in Key |-> Absent]
        /\ now = 0
        /\ got = Absent

Live(k) == content[k] # Absent /\ now <= content[k].expiresAt

\* Any set of keys may be gone after any operation.
Forgetting(old, new) == \A k \in Key : new[k] = old[k] \/ new[k] = Absent

Answer(k) == IF Live(k) THEN content[k].value ELSE Absent

Forget == /\ content' \in [Key -> {content[j] : j \in Key} \cup {Absent}]
          /\ Forgetting(content, content')
          /\ UNCHANGED now

Get(k) == Forget /\ got' = Answer(k)

Put(k, v) ==
    LET entry == [value |-> v, expiresAt |-> now + TTL] IN
    /\ content' \in [Key -> {content[j] : j \in Key} \cup {entry, Absent}]
    /\ Forgetting([content EXCEPT ![k] = entry], content')
    /\ UNCHANGED now

Set(k, v) == Put(k, v) /\ UNCHANGED got

Delete(k) == Forget /\ content'[k] = Absent /\ UNCHANGED got

Age == now' = now + 1 /\ UNCHANGED content

Pass == Age /\ UNCHANGED got

Next == \/ \E k \in Key : Get(k) \/ Delete(k)
        \/ \E k \in Key, v \in Value : Set(k, v)
        \/ Pass

Spec == Init /\ [][Next]_vars
=============================================================================
