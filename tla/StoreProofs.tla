---------------------------- MODULE StoreProofs ----------------------------
(***************************************************************************)
(* The key-value store's companions.  First the LRU cache in front of it,  *)
(* for every set of keys and values, every capacity, time to live and      *)
(* bound of the clock: the map and the list agree, the least recently used *)
(* key is the one that is evicted, and the cache implements the forgetful  *)
(* TTL map its callers rely on.                                            *)
(*                                                                         *)
(* Then the migrations of what is in it, for any store, any page size and  *)
(* any number of runs, failing calls and crashes: types, that no mapping   *)
(* is lost (MappingsKept), and what a run without failed calls achieves    *)
(* (CleanRun).  What is proved by a key's last call rests on what the      *)
(* calls before it have left for that key (Prepared).  That a run misses   *)
(* no key it has promised rests on where the keys are listed (Position): a *)
(* loop has passed those of its earlier pages and the visited ones of this *)
(* page (Past), what comes before it stays in place until it begins        *)
(* (Reach), and where no other key is listed before the loop's own a page  *)
(* that is not full is the last (LastPage).                                *)
(***************************************************************************)
EXTENDS LruCache, Migrations, FiniteSetTheorems, WellFoundedInduction, TLAPS

-----------------------------------------------------------------------------
(* The cache *)

\* The keys of a list of entries; no key twice; no element twice.
KeysOf(l) == {l[i].key : i \in 1..Len(l)}
OneEach(l) == \A i, j \in 1..Len(l) : l[i].key = l[j].key => i = j
NoRepeat(r) == \A i, j \in 1..Len(r) : r[i] = r[j] => i = j

Increasing(f, n) == \A i, j \in 1..n : i < j => f[i] < f[j]

\* List m is l without some of its elements.
Part(m, l, at) == /\ at \in [1..Len(m) -> 1..Len(l)]
                  /\ Increasing(at, Len(m))
                  /\ \A i \in 1..Len(m) : m[i] = l[at[i]]
PartOf(m, l) == \E at \in [1..Len(m) -> 1..Len(l)] : Part(m, l, at)

\* The keys of list l are in r, in the same order.
Along(l, r, at) == /\ at \in [1..Len(l) -> 1..Len(r)]
                   /\ Increasing(at, Len(l))
                   /\ \A i \in 1..Len(l) : l[i].key = r[at[i]]
Follows(l, r) == \E at \in [1..Len(l) -> 1..Len(r)] : Along(l, r, at)

\* What is in the list is what was set last.
Fresh == \A i \in 1..Len(lru) :
            latest[lru[i].key] = [value |-> lru[i].value, expiresAt |-> lru[i].expiresAt]

\* The inductive invariant.  That eviction takes the right key rests on the
\* list being a part of the whole history of uses, in its order.
CacheInv == /\ CacheTypeOK
            /\ MapMatchesList
            /\ NoRepeat(recency)
            /\ Follows(lru, recency)
            /\ Fresh
            /\ KeepsRecent

-----------------------------------------------------------------------------
(* Lists *)

\* A set of numbers has a least one.
LEMMA LeastOfNats ==
    ASSUME NEW S, S \subseteq Nat, S # {}
    PROVE  \E x \in S : \A y \in S : x <= y
<1>. DEFINE R == {ss \in Nat \X Nat : ss[1] < ss[2]}
<1>1. IsWellFoundedOn(R, Nat)
  BY NatLessThanWellFounded DEF OpToRel
<1>2. \A x, y \in Nat : y < x => <<y, x>> \in R
  OBVIOUS
<1>. HIDE DEF R
<1>3. PICK x \in S : \A y \in S : ~ (<<y, x>> \in R)
  BY <1>1, WFMin
<1>4. ASSUME NEW y \in S  PROVE x <= y
  <2>1. x \in Nat /\ y \in Nat /\ <<y, x>> \notin R
    BY <1>3
  <2>2. ~ (y < x)
    BY <1>2, <2>1
  <2>. QED  BY <2>1, <2>2
<1>. QED  BY <1>4

\* Taking an element out of a list.
LEMMA WithoutIs ==
    ASSUME NEW S, NEW s \in Seq(S), NEW i \in 1..Len(s)
    PROVE  /\ Without(s, i) \in Seq(S)
           /\ Len(Without(s, i)) = Len(s) - 1
           /\ \A j \in 1..(Len(s) - 1) :
                 Without(s, i)[j] = IF j < i THEN s[j] ELSE s[j + 1]
<1>1. Len(s) \in Nat /\ Len(s) - 1 \in Nat
  OBVIOUS
<1>2. \A j \in 1..(Len(s) - 1) : s[j] \in S /\ s[j + 1] \in S
  OBVIOUS
<1>3. Without(s, i) \in [1..(Len(s) - 1) -> S]
  BY <1>2 DEF Without
<1>4. Without(s, i) \in Seq(S)
  BY <1>1, <1>3
<1>5. DOMAIN Without(s, i) = 1..(Len(s) - 1)
  BY DEF Without
<1>6. Len(Without(s, i)) = Len(s) - 1
  BY <1>1, <1>4, <1>5
<1>. QED  BY <1>4, <1>6 DEF Without

\* Putting one in front.
LEMMA FrontIs ==
    ASSUME NEW S, NEW s \in Seq(S), NEW e \in S
    PROVE  /\ (<<e>> \o s) \in Seq(S)
           /\ Len(<<e>> \o s) = Len(s) + 1
           /\ (<<e>> \o s)[1] = e
           /\ \A j \in 2..(Len(s) + 1) : (<<e>> \o s)[j] = s[j - 1]
           /\ \A j \in 1..Len(s) : (<<e>> \o s)[j + 1] = s[j]
OBVIOUS

\* A list is a part of itself.
LEMMA PartOfItself ==
    ASSUME NEW S, NEW l \in Seq(S)
    PROVE  PartOf(l, l)
<1>. DEFINE at == [i \in 1..Len(l) |-> i]
<1>1. Part(l, l, at)
  BY DEF Part, Increasing
<1>. QED  BY <1>1 DEF PartOf, Part

\* So is the empty list.
LEMMA EmptyPart ==
    ASSUME NEW l \in Seq(Entry)
    PROVE  << >> \in Seq(Entry) /\ PartOf(<< >>, l) /\ KeysOf(<< >>) = {}
<1>1. PICK m : m = << >>
  OBVIOUS
<1>2. m \in Seq(Entry) /\ Len(m) = 0
  BY <1>1
<1>. DEFINE at == [i \in 1..Len(m) |-> i]
<1>3. at \in [1..Len(m) -> 1..Len(l)] /\ Part(m, l, at)
  BY <1>2 DEF Part, Increasing
<1>. HIDE DEF at
<1>4. PartOf(m, l)
  BY <1>3 DEF PartOf
<1>5. KeysOf(m) = {}
  BY <1>2 DEF KeysOf
<1>. QED  BY <1>1, <1>2, <1>4, <1>5

LEMMA PartOneEach ==
    ASSUME NEW m \in Seq(Entry), NEW l \in Seq(Entry), PartOf(m, l), OneEach(l)
    PROVE  OneEach(m)
<1>1. PICK at : Part(m, l, at)
  BY DEF PartOf
<1>2. SUFFICES ASSUME NEW i \in 1..Len(m), NEW j \in 1..Len(m), m[i].key = m[j].key
               PROVE  i = j
  BY DEF OneEach
<1>3. at[i] = at[j]
  BY <1>1, <1>2 DEF Part, OneEach
<1>4. /\ i \in Nat /\ j \in Nat /\ at[i] \in Nat /\ at[j] \in Nat
      /\ (i < j => at[i] < at[j]) /\ (j < i => at[j] < at[i])
  BY <1>1 DEF Part, Increasing
<1>. QED  BY <1>3, <1>4

LEMMA PartFollows ==
    ASSUME NEW m \in Seq(Entry), NEW l \in Seq(Entry), NEW r \in Seq(Key),
           PartOf(m, l), Follows(l, r)
    PROVE  Follows(m, r)
<1>1. PICK f : Part(m, l, f)
  BY DEF PartOf
<1>2. PICK g : Along(l, r, g)
  BY DEF Follows
<1>. DEFINE at == [i \in 1..Len(m) |-> g[f[i]]]
<1>3. at \in [1..Len(m) -> 1..Len(r)]
  BY <1>1, <1>2 DEF Part, Along
<1>4. Increasing(at, Len(m))
  BY <1>1, <1>2 DEF Part, Along, Increasing
<1>5. \A i \in 1..Len(m) : m[i].key = r[at[i]]
  BY <1>1, <1>2 DEF Part, Along
<1>. QED  BY <1>3, <1>4, <1>5 DEF Follows, Along

\* Taking one element out leaves a part, without that element's key.
LEMMA WithoutPart ==
    ASSUME NEW l \in Seq(Entry), NEW i \in 1..Len(l), OneEach(l)
    PROVE  /\ Without(l, i) \in Seq(Entry)
           /\ Len(Without(l, i)) = Len(l) - 1
           /\ PartOf(Without(l, i), l)
           /\ KeysOf(Without(l, i)) = KeysOf(l) \ {l[i].key}
<1>. DEFINE m == Without(l, i)
<1>1. /\ m \in Seq(Entry) /\ Len(m) = Len(l) - 1
      /\ \A j \in 1..(Len(l) - 1) : m[j] = IF j < i THEN l[j] ELSE l[j + 1]
  BY WithoutIs
<1>. HIDE DEF m
<1>. DEFINE at == [j \in 1..Len(m) |-> IF j < i THEN j ELSE j + 1]
<1>2. Len(l) \in Nat /\ i \in Nat /\ Len(m) = Len(l) - 1
  BY <1>1
<1>3. at \in [1..Len(m) -> 1..Len(l)]
  BY <1>2
<1>4. Increasing(at, Len(m))
  BY <1>2 DEF Increasing
<1>5. \A j \in 1..Len(m) : m[j] = l[at[j]]
  BY <1>1, <1>2
<1>6. PartOf(m, l)
  BY <1>3, <1>4, <1>5 DEF PartOf, Part
<1>7. ASSUME NEW j \in 1..Len(m)
      PROVE  m[j].key \in KeysOf(l) \ {l[i].key}
  <2>1. at[j] \in 1..Len(l) /\ at[j] # i /\ m[j] = l[at[j]]
    BY <1>2, <1>5
  <2>. QED  BY <2>1 DEF KeysOf, OneEach
<1>8. ASSUME NEW j \in 1..Len(l), j # i
      PROVE  l[j].key \in KeysOf(m)
  <2>. DEFINE h == IF j < i THEN j ELSE j - 1
  <2>1. h \in 1..Len(m) /\ at[h] = j
    BY <1>2, <1>8
  <2>. QED  BY <1>5, <2>1 DEF KeysOf
<1>9. KeysOf(m) = KeysOf(l) \ {l[i].key}
  BY <1>7, <1>8 DEF KeysOf
<1>. QED  BY <1>1, <1>6, <1>9 DEF m

\* Putting an entry in front adds its key.
LEMMA FrontAdds ==
    ASSUME NEW m \in Seq(Entry), NEW e \in Entry, OneEach(m), e.key \notin KeysOf(m)
    PROVE  /\ OneEach(<<e>> \o m)
           /\ KeysOf(<<e>> \o m) = KeysOf(m) \cup {e.key}
<1>. DEFINE l == <<e>> \o m
<1>1. /\ Len(l) = Len(m) + 1 /\ l[1] = e /\ Len(m) \in Nat
      /\ \A j \in 2..(Len(m) + 1) : l[j] = m[j - 1]
      /\ \A j \in 1..Len(m) : l[j + 1] = m[j]
  BY FrontIs
<1>. HIDE DEF l
<1>2. \A j \in 1..Len(l) : j = 1 \/ (j - 1 \in 1..Len(m) /\ l[j] = m[j - 1])
  BY <1>1
<1>3. \A j \in 1..Len(m) : m[j].key \in KeysOf(m) /\ m[j].key # e.key
  BY DEF KeysOf
<1>4. OneEach(l)
  <2>1. SUFFICES ASSUME NEW i \in 1..Len(l), NEW j \in 1..Len(l), l[i].key = l[j].key
                 PROVE  i = j
    BY DEF OneEach
  <2>2. CASE i = 1 \/ j = 1
    BY <1>1, <1>2, <1>3, <2>1, <2>2
  <2>3. CASE i # 1 /\ j # 1
    <3>1. /\ i - 1 \in 1..Len(m) /\ j - 1 \in 1..Len(m)
          /\ m[i - 1].key = m[j - 1].key
      BY <1>2, <2>1, <2>3
    <3>2. i - 1 = j - 1
      BY <3>1 DEF OneEach
    <3>. QED  BY <3>2
  <2>. QED  BY <2>2, <2>3
<1>5. KeysOf(l) \subseteq KeysOf(m) \cup {e.key}
  <2>1. SUFFICES ASSUME NEW j \in 1..Len(l)
                 PROVE  l[j].key \in KeysOf(m) \cup {e.key}
    BY DEF KeysOf
  <2>. QED  BY <1>1, <1>2, <1>3
<1>6. e.key \in KeysOf(l)
  <2>1. 1 \in 1..Len(l) /\ l[1].key = e.key
    BY <1>1
  <2>. QED  BY <2>1 DEF KeysOf
<1>7. ASSUME NEW j \in 1..Len(m)  PROVE m[j].key \in KeysOf(l)
  <2>1. j + 1 \in 1..Len(l) /\ l[j + 1] = m[j]
    BY <1>1
  <2>. QED  BY <2>1 DEF KeysOf
<1>8. KeysOf(l) = KeysOf(m) \cup {e.key}
  BY <1>5, <1>6, <1>7 DEF KeysOf
<1>. QED  BY <1>4, <1>8 DEF l

-----------------------------------------------------------------------------
(* The history of uses *)

\* A use of k moves k, which was at place q or nowhere, to the front.
Moves(r, new, k, q) ==
    /\ new[1] = k
    /\ q \in 1..(Len(r) + 1)
    /\ q <= Len(r) => r[q] = k
    /\ \A j \in 1..Len(r) : r[j] = k => j = q
    /\ Len(new) = IF q <= Len(r) THEN Len(r) ELSE Len(r) + 1
    /\ \A j \in 2..Len(new) : new[j] = IF j <= q THEN r[j - 1] ELSE r[j]

LEMMA UsedMoves ==
    ASSUME NEW k \in Key, recency \in Seq(Key), NoRepeat(recency)
    PROVE  /\ Used(k) \in Seq(Key)
           /\ NoRepeat(Used(k))
           /\ \E q \in 1..(Len(recency) + 1) : Moves(recency, Used(k), k, q)
<1>. DEFINE r == recency
            Old == \E i \in 1..Len(r) : r[i] = k
            place == CHOOSE i \in 1..Len(r) : r[i] = k
            q == IF Old THEN place ELSE Len(r) + 1
            rest == IF Old THEN Without(r, place) ELSE r
<1>1. Len(r) \in Nat /\ (\A j \in 1..Len(r) : r[j] \in Key)
  OBVIOUS
<1>2. Old => place \in 1..Len(r) /\ r[place] = k
  OBVIOUS
<1>3. Used(k) = <<k>> \o rest
  BY DEF Used
<1>4. q \in 1..(Len(r) + 1) /\ (q <= Len(r) <=> Old) /\ (q <= Len(r) => r[q] = k)
  BY <1>1, <1>2
<1>5. \A j \in 1..Len(r) : r[j] = k => j = q
  BY <1>1, <1>2 DEF NoRepeat
<1>6. /\ rest \in Seq(Key)
      /\ Len(rest) = IF Old THEN Len(r) - 1 ELSE Len(r)
      /\ \A j \in 1..Len(rest) : rest[j] = IF j < q THEN r[j] ELSE r[j + 1]
  <2>1. CASE Old
    <3>1. place \in 1..Len(r) /\ q = place
      BY <1>2, <2>1
    <3>2. /\ Without(r, place) \in Seq(Key)
          /\ Len(Without(r, place)) = Len(r) - 1
          /\ \A j \in 1..(Len(r) - 1) :
               Without(r, place)[j] = IF j < place THEN r[j] ELSE r[j + 1]
      BY <3>1, WithoutIs
    <3>3. rest = Without(r, place)
      BY <2>1
    <3>. HIDE DEF rest, place, q, Old
    <3>. QED  BY <2>1, <3>1, <3>2, <3>3
  <2>2. CASE ~Old
    <3>1. rest = r /\ q = Len(r) + 1
      BY <2>2
    <3>. HIDE DEF rest, place, q, Old
    <3>. QED  BY <1>1, <2>2, <3>1
  <2>. QED  BY <2>1, <2>2
<1>. HIDE DEF rest, place, q, Old
<1>. DEFINE new == <<k>> \o rest
<1>7. /\ new \in Seq(Key) /\ Len(new) = Len(rest) + 1 /\ new[1] = k
      /\ \A j \in 2..(Len(rest) + 1) : new[j] = rest[j - 1]
  BY <1>6, FrontIs
<1>. HIDE DEF new
<1>8. Len(new) = IF q <= Len(r) THEN Len(r) ELSE Len(r) + 1
  BY <1>1, <1>4, <1>6, <1>7
<1>9. ASSUME NEW j \in 2..Len(new)
      PROVE  new[j] = IF j <= q THEN r[j - 1] ELSE r[j]
  <2>1. j - 1 \in 1..Len(rest) /\ new[j] = rest[j - 1]
    BY <1>1, <1>6, <1>7
  <2>2. (j - 1 < q <=> j <= q) /\ (j - 1) + 1 = j
    BY <1>1, <1>4
  <2>3. rest[j - 1] = IF j - 1 < q THEN r[j - 1] ELSE r[(j - 1) + 1]
    BY <1>6, <2>1
  <2>. QED  BY <2>1, <2>2, <2>3
<1>10. Moves(r, new, k, q)
  BY <1>4, <1>5, <1>7, <1>8, <1>9 DEF Moves
<1>11. NoRepeat(new)
  <2>1. \A j \in 2..Len(new) :
          \E h \in 1..Len(r) : h # q /\ new[j] = r[h] /\ h = IF j <= q THEN j - 1 ELSE j
    <3>1. SUFFICES ASSUME NEW j \in 2..Len(new)
                   PROVE  LET h == IF j <= q THEN j - 1 ELSE j
                          IN  h \in 1..Len(r) /\ h # q /\ new[j] = r[h]
      OBVIOUS
    <3>. QED  BY <1>1, <1>4, <1>8, <1>9
  <2>2. SUFFICES ASSUME NEW i \in 1..Len(new), NEW j \in 1..Len(new), new[i] = new[j]
                 PROVE  i = j
    BY DEF NoRepeat
  <2>3. CASE i = 1 \/ j = 1
    <3>1. \A h \in 2..Len(new) : new[h] # k
      BY <1>5, <2>1
    <3>. QED  BY <1>7, <2>2, <2>3, <3>1
  <2>4. CASE i # 1 /\ j # 1
    <3>1. i \in 2..Len(new) /\ j \in 2..Len(new)
      BY <1>7, <2>4
    <3>2. PICK g \in 1..Len(r) :
            g # q /\ new[i] = r[g] /\ g = IF i <= q THEN i - 1 ELSE i
      BY <2>1, <3>1
    <3>3. PICK h \in 1..Len(r) :
            h # q /\ new[j] = r[h] /\ h = IF j <= q THEN j - 1 ELSE j
      BY <2>1, <3>1
    <3>4. g = h
      BY <2>2, <3>2, <3>3 DEF NoRepeat
    <3>. QED  BY <1>4, <3>1, <3>2, <3>3, <3>4
  <2>. QED  BY <2>3, <2>4
<1>. QED  BY <1>3, <1>7, <1>4, <1>10, <1>11 DEF new

\* The used key comes to the front of both.
LEMMA FrontFollows ==
    ASSUME NEW m \in Seq(Entry), NEW e \in Entry, e.key \notin KeysOf(m),
           NEW r \in Seq(Key), NEW new \in Seq(Key), NEW q, Moves(r, new, e.key, q),
           Follows(m, r)
    PROVE  Follows(<<e>> \o m, new)
<1>. DEFINE l == <<e>> \o m
<1>1. /\ Len(l) = Len(m) + 1 /\ l[1] = e /\ Len(m) \in Nat
      /\ \A j \in 2..(Len(m) + 1) : l[j] = m[j - 1]
  BY FrontIs
<1>. HIDE DEF l
<1>2. PICK f : Along(m, r, f)
  BY DEF Follows
<1>3. \A i \in 1..Len(m) :
        f[i] \in 1..Len(r) /\ f[i] # q /\ r[f[i]] = m[i].key
  <2>1. SUFFICES ASSUME NEW i \in 1..Len(m)
                 PROVE  f[i] \in 1..Len(r) /\ f[i] # q /\ r[f[i]] = m[i].key
    OBVIOUS
  <2>2. f[i] \in 1..Len(r) /\ r[f[i]] = m[i].key
    BY <1>2 DEF Along
  <2>3. m[i].key # e.key
    BY DEF KeysOf
  <2>. QED  BY <2>2, <2>3 DEF Moves
<1>. DEFINE Moved(p) == IF p < q THEN p + 1 ELSE p
            at == [i \in 1..Len(l) |-> IF i = 1 THEN 1 ELSE Moved(f[i - 1])]
<1>4. /\ Len(r) \in Nat /\ q \in 1..(Len(r) + 1) /\ new[1] = e.key
      /\ Len(new) = IF q <= Len(r) THEN Len(r) ELSE Len(r) + 1
      /\ \A j \in 2..Len(new) : new[j] = IF j <= q THEN r[j - 1] ELSE r[j]
  BY DEF Moves
<1>5. \A p \in 1..Len(r) : p # q => /\ Moved(p) \in 2..Len(new)
                                    /\ new[Moved(p)] = r[p]
  BY <1>4
<1>6. \A p1, p2 \in 1..Len(r) : p1 # q /\ p2 # q /\ p1 < p2 => Moved(p1) < Moved(p2)
  BY <1>4
<1>. HIDE DEF Moved
<1>7. \A i \in 1..Len(l) : i # 1 =>
         i - 1 \in 1..Len(m) /\ at[i] = Moved(f[i - 1]) /\ l[i] = m[i - 1]
  BY <1>1
<1>8. 1 \in 1..Len(l) /\ at[1] = 1 /\ 1 \in 1..Len(new)
  BY <1>1, <1>4
<1>9. ASSUME NEW i \in 1..Len(l)
      PROVE  at[i] \in 1..Len(new) /\ l[i].key = new[at[i]] /\ (i # 1 => at[i] >= 2)
  <2>1. CASE i = 1
    BY <1>1, <1>4, <1>8, <2>1
  <2>2. CASE i # 1
    <3>1. i - 1 \in 1..Len(m) /\ at[i] = Moved(f[i - 1]) /\ l[i] = m[i - 1]
      BY <1>7, <2>2
    <3>2. PICK p \in 1..Len(r) : p = f[i - 1]
      BY <1>3, <3>1
    <3>3. p # q /\ r[p] = m[i - 1].key
      BY <1>3, <3>1, <3>2
    <3>4. Moved(p) \in 2..Len(new) /\ new[Moved(p)] = r[p]
      BY <1>5, <3>3
    <3>5. Len(new) \in Nat /\ Moved(p) \in 1..Len(new) /\ Moved(p) >= 2
      BY <3>4
    <3>. QED  BY <3>1, <3>2, <3>3, <3>4, <3>5
  <2>. QED  BY <2>1, <2>2
<1>10. ASSUME NEW i \in 1..Len(l), NEW j \in 1..Len(l), i < j
       PROVE  at[i] < at[j]
  <2>1. CASE i = 1
    BY <1>8, <1>9, <1>10, <2>1
  <2>2. CASE i # 1
    <3>1. i - 1 \in 1..Len(m) /\ j - 1 \in 1..Len(m) /\ i - 1 < j - 1
      BY <1>1, <1>10, <2>2
    <3>2. f[i - 1] < f[j - 1]
      BY <1>2, <3>1 DEF Along, Increasing
    <3>3. at[i] = Moved(f[i - 1]) /\ at[j] = Moved(f[j - 1])
      BY <1>1, <1>7, <1>10, <2>2
    <3>. QED  BY <1>3, <1>6, <3>1, <3>2, <3>3
  <2>. QED  BY <2>1, <2>2
<1>11. at \in [1..Len(l) -> 1..Len(new)]
  BY <1>9
<1>. HIDE DEF at
<1>12. Along(l, new, at)
  BY <1>9, <1>10, <1>11 DEF Along, Increasing
<1>. QED  BY <1>11, <1>12 DEF Follows, l

\* As many keys were used since the last one of a list as the list has before
\* it, and one more if a key that is not in the list was.
LEMMA Counting ==
    ASSUME NEW n \in Nat, NEW f \in [1..n -> Nat \ {0}], Increasing(f, n),
           NEW q \in Nat \ {0}, \A i \in 1..n : f[i] # q
    PROVE  \A i \in 1..n : f[i] >= i /\ (f[i] > q => f[i] >= i + 1)
<1>. DEFINE Bad == {i \in 1..n : ~(f[i] >= i)}
            Worse == {i \in 1..n : f[i] > q /\ ~(f[i] >= i + 1)}
<1>0. \A i \in 1..n : i # 1 => i - 1 \in 1..n /\ f[i - 1] < f[i]
  BY DEF Increasing
<1>1. Bad = {}
  <2>1. SUFFICES ASSUME Bad # {}  PROVE FALSE
    OBVIOUS
  <2>2. PICK i \in Bad : \A y \in Bad : i <= y
    BY <2>1, LeastOfNats, Bad \subseteq Nat
  <2>3. i # 1
    BY <2>2
  <2>4. i - 1 \notin Bad
    BY <2>2
  <2>. QED  BY <1>0, <2>2, <2>3, <2>4
<1>2. Worse = {}
  <2>1. SUFFICES ASSUME Worse # {}  PROVE FALSE
    OBVIOUS
  <2>2. PICK i \in Worse : \A y \in Worse : i <= y
    BY <2>1, LeastOfNats, Worse \subseteq Nat
  <2>3. i # 1
    BY <2>2
  <2>4. i - 1 \notin Worse
    BY <2>2
  <2>5. /\ i \in 1..n /\ i - 1 \in 1..n /\ f[i - 1] < f[i] /\ f[i - 1] >= i - 1
        /\ f[i] > q /\ f[i] < i + 1 /\ f[i - 1] # q
        /\ f[i] \in Nat /\ f[i - 1] \in Nat
    <3>1. i \in 1..n /\ f[i] > q /\ ~(f[i] >= i + 1) /\ f[i] \in Nat
      BY <2>2
    <3>2. i - 1 \in 1..n /\ f[i - 1] < f[i]
      BY <1>0, <2>3, <3>1
    <3>3. i - 1 \notin Bad /\ f[i - 1] # q /\ f[i - 1] \in Nat
      BY <1>1, <3>2
    <3>. QED  BY <3>1, <3>2, <3>3
  <2>6. ~(f[i - 1] > q)
    BY <2>4, <2>5
  <2>. QED  BY <2>5, <2>6
<1>. QED  BY <1>1, <1>2

\* A part of a list is not longer.
LEMMA PartShorter ==
    ASSUME NEW m \in Seq(Entry), NEW l \in Seq(Entry), PartOf(m, l)
    PROVE  Len(m) <= Len(l)
<1>1. PICK f : Part(m, l, f)
  BY DEF PartOf
<1>2. Len(m) \in Nat /\ Len(l) \in Nat
  OBVIOUS
<1>3. f \in [1..Len(m) -> Nat \ {0}] /\ (\A i \in 1..Len(m) : f[i] \in 1..Len(l))
  BY <1>1 DEF Part
<1>4. \A i \in 1..Len(m) : f[i] # Len(l) + 1
  BY <1>2, <1>3
<1>5. Increasing(f, Len(m))
  BY <1>1 DEF Part
<1>6. \A i \in 1..Len(m) : f[i] >= i
  BY <1>2, <1>3, <1>4, <1>5, Counting, Len(l) + 1 \in Nat \ {0}
<1>7. CASE Len(m) = 0
  BY <1>2, <1>7
<1>8. CASE Len(m) # 0
  <2>1. Len(m) \in 1..Len(m)
    BY <1>2, <1>8
  <2>2. f[Len(m)] >= Len(m) /\ f[Len(m)] \in 1..Len(l)
    BY <1>3, <1>6, <2>1
  <2>. QED  BY <1>2, <2>2
<1>. QED  BY <1>7, <1>8

-----------------------------------------------------------------------------
(* What the methods do to the list *)

\* The list, the map and the two histories belong together.
Linked == /\ MapMatchesList
          /\ NoRepeat(recency)
          /\ Follows(lru, recency)
          /\ Fresh

LEMMA MatchesIs ==
    MapMatchesList <=> items = KeysOf(lru) /\ OneEach(lru)
BY DEF MapMatchesList, KeysOf, OneEach

LEMMA Removal ==
    ASSUME CacheInv, NEW m \in Seq(Entry), PartOf(m, lru),
           lru' = m, items' = KeysOf(m), recency' = recency,
           \A i \in 1..Len(m) : latest'[m[i].key] = latest[m[i].key]
    PROVE  /\ Linked'
           /\ items' \in SUBSET Key /\ lru' \in Seq(Entry) /\ Len(lru') <= Capacity
           /\ recency' \in Seq(Key)
<1>1. /\ lru \in Seq(Entry) /\ OneEach(lru) /\ Follows(lru, recency) /\ NoRepeat(recency)
      /\ recency \in Seq(Key) /\ Len(lru) <= Capacity /\ Capacity \in Nat /\ Fresh
  BY MatchesIs, LruCacheAssumption DEF CacheInv, CacheTypeOK
<1>2. OneEach(m)
  BY <1>1, PartOneEach
<1>3. Follows(m, recency)
  BY <1>1, PartFollows
<1>4. Len(m) <= Len(lru) /\ Len(m) \in Nat /\ Len(lru) \in Nat
  BY <1>1, PartShorter
<1>5. KeysOf(m) \subseteq Key
  <2>1. \A i \in 1..Len(m) : m[i] \in Entry
    OBVIOUS
  <2>2. \A i \in 1..Len(m) : m[i].key \in Key
    BY <2>1 DEF Entry
  <2>. QED  BY <2>2 DEF KeysOf
<1>6. PICK f : Part(m, lru, f)
  BY DEF PartOf
<1>7. ASSUME NEW i \in 1..Len(m)
      PROVE  latest'[m[i].key] = [value |-> m[i].value, expiresAt |-> m[i].expiresAt]
  <2>1. m[i] = lru[f[i]] /\ f[i] \in 1..Len(lru)
    BY <1>6 DEF Part
  <2>. QED  BY <1>1, <2>1 DEF Fresh
<1>8. Fresh'
  BY <1>7 DEF Fresh
<1>9. MapMatchesList'
  BY <1>2 DEF MapMatchesList, KeysOf, OneEach
<1>10. Follows(lru, recency)' /\ NoRepeat(recency)'
  BY <1>1, <1>3 DEF Follows, Along, Increasing, NoRepeat
<1>. QED  BY <1>1, <1>4, <1>5, <1>8, <1>9, <1>10 DEF Linked

LEMMA Use ==
    ASSUME CacheInv, NEW m \in Seq(Entry), NEW e \in Entry, PartOf(m, lru),
           e.key \notin KeysOf(m), Len(m) < Capacity,
           lru' = <<e>> \o m, items' = KeysOf(m) \cup {e.key}, recency' = Used(e.key),
           \A i \in 1..Len(m) : latest'[m[i].key] = latest[m[i].key],
           latest'[e.key] = [value |-> e.value, expiresAt |-> e.expiresAt]
    PROVE  /\ Linked'
           /\ items' \in SUBSET Key /\ lru' \in Seq(Entry) /\ Len(lru') <= Capacity
           /\ recency' \in Seq(Key)
<1>1. /\ lru \in Seq(Entry) /\ OneEach(lru) /\ Follows(lru, recency) /\ NoRepeat(recency)
      /\ recency \in Seq(Key) /\ Capacity \in Nat /\ Fresh /\ Len(m) \in Nat
  BY MatchesIs, LruCacheAssumption DEF CacheInv, CacheTypeOK
<1>2. PICK k \in Key : k = e.key
  BY DEF Entry
<1>3. OneEach(m) /\ Follows(m, recency)
  BY <1>1, PartOneEach, PartFollows
<1>4. PICK l : l = <<e>> \o m
  OBVIOUS
<1>5. /\ l \in Seq(Entry) /\ Len(l) = Len(m) + 1 /\ l[1] = e
      /\ \A j \in 2..(Len(m) + 1) : l[j] = m[j - 1]
  BY <1>4, FrontIs
<1>6. OneEach(l) /\ KeysOf(l) = KeysOf(m) \cup {e.key}
  BY <1>3, <1>4, FrontAdds
<1>7. PICK r : r = Used(k)
  OBVIOUS
<1>8. r \in Seq(Key) /\ NoRepeat(r) /\ (\E q \in 1..(Len(recency) + 1) : Moves(recency, r, k, q))
  BY <1>1, <1>7, UsedMoves
<1>9. Follows(l, r)
  BY <1>1, <1>2, <1>3, <1>4, <1>8, FrontFollows
<1>10. KeysOf(m) \subseteq Key
  <2>1. \A i \in 1..Len(m) : m[i] \in Entry
    OBVIOUS
  <2>2. \A i \in 1..Len(m) : m[i].key \in Key
    BY <2>1 DEF Entry
  <2>. QED  BY <2>2 DEF KeysOf
<1>11. PICK f : Part(m, lru, f)
  BY DEF PartOf
<1>12. ASSUME NEW i \in 1..Len(m)
       PROVE  latest'[m[i].key] = [value |-> m[i].value, expiresAt |-> m[i].expiresAt]
  <2>1. m[i] = lru[f[i]] /\ f[i] \in 1..Len(lru)
    BY <1>11 DEF Part
  <2>. QED  BY <1>1, <2>1 DEF Fresh
<1>13. ASSUME NEW i \in 1..Len(l)
       PROVE  latest'[l[i].key] = [value |-> l[i].value, expiresAt |-> l[i].expiresAt]
  <2>1. CASE i = 1
    BY <1>5, <2>1
  <2>2. CASE i # 1
    <3>1. i - 1 \in 1..Len(m) /\ l[i] = m[i - 1]
      BY <1>1, <1>5, <2>2
    <3>. QED  BY <1>12, <3>1
  <2>. QED  BY <2>1, <2>2
<1>14. lru' = l /\ recency' = r
  BY <1>2, <1>4, <1>7
<1>15. Fresh'
  BY <1>13, <1>14 DEF Fresh
<1>16. MapMatchesList'
  BY <1>6, <1>14 DEF MapMatchesList, KeysOf, OneEach
<1>17. Follows(lru, recency)' /\ NoRepeat(recency)'
  <2>1. NoRepeat(recency)' = NoRepeat(r)
    BY <1>14 DEF NoRepeat
  <2>2. PICK g \in [1..Len(l) -> 1..Len(r)] : Along(l, r, g)
    BY <1>9 DEF Follows
  <2>3. g \in [1..Len(lru') -> 1..Len(recency')]
    BY <1>14
  <2>4. Along(lru, recency, g)'
    BY <1>14, <2>2 DEF Along, Increasing
  <2>. QED  BY <1>8, <2>1, <2>3, <2>4 DEF Follows
<1>18. Len(l) <= Capacity
  BY <1>1, <1>5
<1>. QED
  BY <1>2, <1>5, <1>8, <1>10, <1>14, <1>15, <1>16, <1>17, <1>18 DEF Linked

\* Nothing that counts as recent is lost by a removal of what was deleted or
\* has expired.
LEMMA RemovalKeepsRecent ==
    ASSUME KeepsRecent, CacheTypeOK, recency' = recency, now' \in Nat, now <= now',
           \A k \in Key : latest'[k] = latest[k] \/ latest'[k] = Absent,
           \A k \in items \ items' : latest'[k] = Absent \/ now' > latest'[k].expiresAt
    PROVE  KeepsRecent'
<1>1. SUFFICES ASSUME NEW i \in 1..Len(recency), i <= Capacity,
                      latest'[recency[i]] # Absent, now' <= latest'[recency[i]].expiresAt
               PROVE  recency[i] \in items'
  BY DEF KeepsRecent
<1>2. PICK k \in Key : k = recency[i]
  BY DEF CacheTypeOK
<1>3. PICK a : a = latest'[k]
  OBVIOUS
<1>4. a = latest[k] /\ a # Absent /\ now' <= a.expiresAt /\ a.expiresAt \in Nat
  BY <1>1, <1>2, <1>3 DEF CacheTypeOK
<1>5. now <= a.expiresAt
  BY <1>4 DEF CacheTypeOK
<1>6. k \in items
  BY <1>1, <1>2, <1>4, <1>5 DEF KeepsRecent
<1>7. ~(now' > a.expiresAt)
  BY <1>4
<1>. QED  BY <1>2, <1>3, <1>4, <1>6, <1>7

\* A used key is the most recent; the only key that may go is the last of the
\* list, and it goes beyond Capacity in the history.
LEMMA UseKeepsRecent ==
    ASSUME CacheInv, NEW k \in Key, recency' = Used(k), now' = now,
           \A j \in Key \ {k} : latest'[j] = latest[j],
           k \in items',
           \/ items \subseteq items'
           \/ /\ k \notin items /\ Len(lru) >= Capacity /\ Capacity > 0
              /\ items' = (items \ {lru[Len(lru)].key}) \cup {k}
    PROVE  KeepsRecent'
<1>1. /\ lru \in Seq(Entry) /\ Follows(lru, recency) /\ NoRepeat(recency) /\ KeepsRecent
      /\ recency \in Seq(Key) /\ Capacity \in Nat /\ OneEach(lru) /\ items = KeysOf(lru)
      /\ Len(lru) \in Nat /\ Len(lru) <= Capacity /\ Len(recency) \in Nat
  BY MatchesIs, LruCacheAssumption DEF CacheInv, CacheTypeOK
<1>2. PICK r : r = Used(k)
  OBVIOUS
<1>3. r \in Seq(Key) /\ NoRepeat(r) /\ (\E q \in 1..(Len(recency) + 1) : Moves(recency, r, k, q))
  BY <1>1, <1>2, UsedMoves
<1>4. PICK q \in 1..(Len(recency) + 1) : Moves(recency, r, k, q)
  BY <1>3
<1>5. SUFFICES ASSUME NEW i \in 1..Len(r), i <= Capacity,
                      latest'[r[i]] # Absent, now <= latest'[r[i]].expiresAt
               PROVE  r[i] \in items'
  BY <1>2 DEF KeepsRecent
<1>6. CASE r[i] = k
  BY <1>6
<1>7. CASE r[i] # k
  <2>1. i \in 2..Len(r) /\ r[i] \in Key
    BY <1>3, <1>4, <1>7 DEF Moves
  <2>2. PICK h \in 1..Len(recency) :
          h # q /\ r[i] = recency[h] /\ h <= i /\ (i <= q => h = i - 1) /\ (i > q => h = i)
    <3>1. CASE i <= q
      <4>1. i - 1 \in 1..Len(recency) /\ r[i] = recency[i - 1]
        BY <1>1, <1>4, <2>1, <3>1 DEF Moves
      <4>. QED  BY <1>1, <3>1, <4>1
    <3>2. CASE ~(i <= q)
      <4>1. i \in 1..Len(recency) /\ r[i] = recency[i]
        BY <1>1, <1>4, <2>1, <3>2 DEF Moves
      <4>. QED  BY <1>1, <3>2, <4>1
    <3>. QED  BY <3>1, <3>2
  <2>3. latest'[r[i]] = latest[recency[h]]
    BY <1>7, <2>1, <2>2
  <2>4. h <= Capacity
    BY <1>1, <1>5, <2>2
  <2>5. recency[h] \in items
    BY <1>1, <1>5, <2>2, <2>3, <2>4 DEF KeepsRecent
  <2>6. CASE items \subseteq items'
    BY <2>2, <2>5, <2>6
  <2>7. CASE /\ k \notin items /\ Len(lru) >= Capacity /\ Capacity > 0
             /\ items' = (items \ {lru[Len(lru)].key}) \cup {k}
    <3>1. SUFFICES ASSUME recency[h] = lru[Len(lru)].key  PROVE FALSE
      BY <2>2, <2>5, <2>7
    <3>2. PICK f : Along(lru, recency, f)
      BY <1>1 DEF Follows
    <3>3. f \in [1..Len(lru) -> Nat \ {0}] /\ Increasing(f, Len(lru))
      BY <3>2 DEF Along
    <3>4. \A j \in 1..Len(lru) : f[j] # q
      <4>1. SUFFICES ASSUME NEW j \in 1..Len(lru), f[j] = q  PROVE FALSE
        OBVIOUS
      <4>2. q \in 1..Len(recency) /\ recency[q] = lru[j].key
        BY <3>2, <4>1 DEF Along
      <4>3. k = lru[j].key
        BY <1>4, <4>2 DEF Moves
      <4>. QED  BY <1>1, <2>7, <4>3 DEF KeysOf
    <3>5. q \in Nat \ {0}
      OBVIOUS
    <3>6. \A j \in 1..Len(lru) : f[j] >= j /\ (f[j] > q => f[j] >= j + 1)
      BY <1>1, <3>3, <3>4, <3>5, Counting
    <3>7. Len(lru) \in 1..Len(lru) /\ Len(lru) = Capacity
      BY <1>1, <2>7
    <3>8. f[Len(lru)] \in 1..Len(recency) /\ recency[f[Len(lru)]] = recency[h]
      BY <3>1, <3>2, <3>7 DEF Along
    <3>9. f[Len(lru)] = h
      BY <1>1, <3>8 DEF NoRepeat
    <3>10. h >= Capacity /\ (h > q => h >= Capacity + 1)
      BY <3>6, <3>7, <3>9
    <3>. QED  BY <1>1, <1>5, <2>2, <2>4, <3>10
  <2>. QED  BY <2>6, <2>7
<1>. QED  BY <1>6, <1>7

-----------------------------------------------------------------------------
(* The methods keep the invariant *)

LEMMA PlaceIs ==
    ASSUME CacheInv, NEW k \in items
    PROVE  /\ Place(k) \in 1..Len(lru) /\ lru[Place(k)].key = k
           /\ lru[Place(k)] \in Entry
           /\ lru[Place(k)].value \in Value /\ lru[Place(k)].expiresAt \in Nat
           /\ latest[k] = [value |-> lru[Place(k)].value,
                           expiresAt |-> lru[Place(k)].expiresAt]
<1>1. items = KeysOf(lru) /\ lru \in Seq(Entry)
  BY MatchesIs DEF CacheInv, CacheTypeOK
<1>2. \E i \in 1..Len(lru) : lru[i].key = k
  BY <1>1 DEF KeysOf
<1>3. Place(k) \in 1..Len(lru) /\ lru[Place(k)].key = k
  BY <1>2 DEF Place
<1>4. lru[Place(k)] \in Entry
  BY <1>1, <1>3
<1>5. latest[k] = [value |-> lru[Place(k)].value, expiresAt |-> lru[Place(k)].expiresAt]
  BY <1>3 DEF CacheInv, Fresh
<1>. QED  BY <1>3, <1>4, <1>5 DEF Entry

\* removeElement.
LEMMA Removes ==
    ASSUME CacheInv, NEW k \in items, RemoveElement(Place(k)), recency' = recency,
           now' = now, latest' \in [Key -> [value : Value, expiresAt : Nat] \cup {Absent}],
           got' \in Value \cup {Absent},
           \A j \in Key \ {k} : latest'[j] = latest[j],
           latest'[k] = Absent \/ (latest'[k] = latest[k] /\ Expired(lru[Place(k)]))
    PROVE  CacheInv'
<1>1. /\ lru \in Seq(Entry) /\ OneEach(lru) /\ items = KeysOf(lru) /\ now \in Nat
      /\ items \subseteq Key
  BY MatchesIs DEF CacheInv, CacheTypeOK
<1>2. PICK p \in 1..Len(lru) :
        /\ p = Place(k) /\ lru[p].key = k /\ lru[p].expiresAt \in Nat
        /\ latest[k] = [value |-> lru[p].value, expiresAt |-> lru[p].expiresAt]
  BY PlaceIs
<1>3. PICK m : m = Without(lru, p)
  OBVIOUS
<1>4. /\ m \in Seq(Entry) /\ PartOf(m, lru) /\ KeysOf(m) = items \ {k}
  BY <1>1, <1>2, <1>3, WithoutPart
<1>5. lru' = m /\ items' = KeysOf(m)
  BY <1>2, <1>3, <1>4 DEF RemoveElement
<1>6. \A i \in 1..Len(m) : m[i].key \in Key \ {k}
  BY <1>1, <1>4 DEF KeysOf
<1>7. /\ Linked' /\ items' \in SUBSET Key /\ lru' \in Seq(Entry) /\ Len(lru') <= Capacity
      /\ recency' \in Seq(Key)
  BY <1>4, <1>5, <1>6, Removal
<1>8. latest'[k] = Absent \/ now' > latest'[k].expiresAt
  BY <1>2 DEF Expired
<1>9. KeepsRecent'
  <2>1. \A j \in Key : latest'[j] = latest[j] \/ latest'[j] = Absent
    OBVIOUS
  <2>2. \A j \in items \ items' : latest'[j] = Absent \/ now' > latest'[j].expiresAt
    BY <1>4, <1>5, <1>8
  <2>. QED  BY <1>1, <2>1, <2>2, RemovalKeepsRecent DEF CacheInv
<1>. QED  BY <1>1, <1>7, <1>9 DEF CacheInv, Linked, CacheTypeOK

\* Nothing happens to the list, and nothing new is remembered.
LEMMA Stays ==
    ASSUME CacheInv, UNCHANGED <<items, lru, recency>>, now' \in Nat, now <= now',
           got' \in Value \cup {Absent}, latest' = latest
    PROVE  CacheInv'
<1>1. /\ lru \in Seq(Entry) /\ items = KeysOf(lru) /\ PartOf(lru, lru)
  BY MatchesIs, PartOfItself DEF CacheInv, CacheTypeOK
<1>2. Linked' /\ items' \in SUBSET Key /\ lru' \in Seq(Entry) /\ Len(lru') <= Capacity
      /\ recency' \in Seq(Key)
  BY <1>1, Removal
<1>3. KeepsRecent'
  BY RemovalKeepsRecent DEF CacheInv
<1>. QED  BY <1>2, <1>3 DEF CacheInv, Linked, CacheTypeOK

LEMMA GetInv ==
    ASSUME CacheInv, NEW k \in Key, Get(k)
    PROVE  CacheInv'
<1>1. CacheTypeOK /\ now \in Nat /\ UNCHANGED <<now, latest>>
  BY DEF CacheInv, CacheTypeOK, Get
<1>2. CASE k \notin items
  BY <1>1, <1>2, Stays DEF Get, elements
<1>3. CASE k \in items /\ Expired(lru[Place(k)])
  <2>1. got' = Absent /\ RemoveElement(Place(k)) /\ recency' = recency
    BY <1>3 DEF Get
  <2>. QED  BY <1>1, <1>3, <2>1, Removes DEF CacheTypeOK
<1>4. CASE k \in items /\ ~Expired(lru[Place(k)])
  <2>1. /\ lru' = MovedToFront(lru, Place(k)) /\ recency' = Used(k) /\ items' = items
        /\ got' = lru[Place(k)].value
    BY <1>4 DEF Get
  <2>2. /\ lru \in Seq(Entry) /\ OneEach(lru) /\ items = KeysOf(lru) /\ Len(lru) <= Capacity
        /\ Len(lru) \in Nat /\ Capacity \in Nat
    BY MatchesIs, LruCacheAssumption DEF CacheInv, CacheTypeOK
  <2>3. PICK p \in 1..Len(lru) :
          /\ p = Place(k) /\ lru[p].key = k /\ lru[p] \in Entry /\ lru[p].value \in Value
          /\ latest[k] = [value |-> lru[p].value, expiresAt |-> lru[p].expiresAt]
    BY <1>4, PlaceIs
  <2>4. PICK m : m = Without(lru, p)
    OBVIOUS
  <2>5. /\ m \in Seq(Entry) /\ PartOf(m, lru) /\ KeysOf(m) = items \ {k}
        /\ Len(m) = Len(lru) - 1
    BY <2>2, <2>3, <2>4, WithoutPart
  <2>6. lru' = <<lru[p]>> \o m /\ items' = KeysOf(m) \cup {k}
    BY <1>4, <2>1, <2>3, <2>4, <2>5 DEF MovedToFront
  <2>7. Len(m) < Capacity /\ k \notin KeysOf(m)
    BY <2>2, <2>5
  <2>8. /\ Linked' /\ items' \in SUBSET Key /\ lru' \in Seq(Entry) /\ Len(lru') <= Capacity
        /\ recency' \in Seq(Key)
    BY <1>1, <2>1, <2>3, <2>5, <2>6, <2>7, Use
  <2>9. KeepsRecent'
    BY <1>1, <1>4, <2>1, UseKeepsRecent
  <2>. QED  BY <1>1, <2>1, <2>3, <2>8, <2>9 DEF CacheInv, Linked, CacheTypeOK
<1>. QED  BY <1>2, <1>3, <1>4

LEMMA SetInv ==
    ASSUME CacheInv, NEW k \in Key, NEW v \in Value, Set(k, v)
    PROVE  CacheInv'
<1>. DEFINE entry == [key |-> k, value |-> v, expiresAt |-> now + TTL]
            record == [value |-> v, expiresAt |-> now + TTL]
<1>1. /\ CacheTypeOK /\ now \in Nat /\ UNCHANGED <<now, got>>
      /\ latest' = [latest EXCEPT ![k] = record]
  BY DEF CacheInv, CacheTypeOK, Set
<1>2. entry \in Entry /\ record \in [value : Value, expiresAt : Nat]
  BY <1>1, LruCacheAssumption DEF Entry
<1>3. /\ lru \in Seq(Entry) /\ OneEach(lru) /\ items = KeysOf(lru) /\ Len(lru) <= Capacity
      /\ Len(lru) \in Nat /\ Capacity \in Nat
  BY MatchesIs, LruCacheAssumption DEF CacheInv, CacheTypeOK
<1>4. /\ latest' \in [Key -> [value : Value, expiresAt : Nat] \cup {Absent}]
      /\ latest'[k] = record /\ \A j \in Key \ {k} : latest'[j] = latest[j]
  BY <1>1, <1>2 DEF CacheTypeOK
<1>5. ASSUME NEW m \in Seq(Entry), PartOf(m, lru), k \notin KeysOf(m), Len(m) < Capacity,
             lru' = <<entry>> \o m, items' = KeysOf(m) \cup {k}, recency' = Used(k),
             \/ items \subseteq items'
             \/ /\ k \notin items /\ Len(lru) >= Capacity /\ Capacity > 0
                /\ items' = (items \ {lru[Len(lru)].key}) \cup {k}
      PROVE  CacheInv'
  <2>1. \A i \in 1..Len(m) : m[i].key \in Key \ {k}
    <3>1. \A i \in 1..Len(m) : m[i] \in Entry /\ m[i].key \in KeysOf(m)
      BY <1>5 DEF KeysOf
    <3>. QED  BY <1>5, <3>1 DEF Entry
  <2>2. PICK e : e = entry
    OBVIOUS
  <2>3. /\ e \in Entry /\ e.key = k
        /\ latest'[e.key] = [value |-> e.value, expiresAt |-> e.expiresAt]
    BY <1>2, <1>4, <2>2
  <2>4. /\ Linked' /\ items' \in SUBSET Key /\ lru' \in Seq(Entry) /\ Len(lru') <= Capacity
        /\ recency' \in Seq(Key)
    <3>1. lru' = <<e>> \o m
      BY <1>5, <2>2
    <3>. HIDE DEF entry, record
    <3>. QED  BY <1>4, <1>5, <2>1, <2>3, <3>1, Use
  <2>5. k \in items'
    BY <1>5
  <2>6. KeepsRecent'
    BY <1>1, <1>4, <1>5, <2>5, UseKeepsRecent
  <2>. QED  BY <1>1, <1>4, <2>4, <2>6 DEF CacheInv, Linked, CacheTypeOK
<1>6. CASE Capacity = 0 /\ UNCHANGED <<elements, recency>>
  <2>1. lru = <<>> /\ items = {} /\ UNCHANGED <<items, lru, recency>>
    BY <1>3, <1>6 DEF KeysOf, elements
  <2>2. PartOf(lru, lru)
    BY <1>3, PartOfItself
  <2>3. /\ Linked' /\ items' \in SUBSET Key /\ lru' \in Seq(Entry) /\ Len(lru') <= Capacity
        /\ recency' \in Seq(Key)
    <3>1. PICK m : m = lru
      OBVIOUS
    <3>2. m \in Seq(Entry) /\ PartOf(m, lru) /\ lru' = m /\ items' = KeysOf(m) /\ Len(m) = 0
      BY <1>3, <2>1, <2>2, <3>1
    <3>3. \A i \in 1..Len(m) : latest'[m[i].key] = latest[m[i].key]
      BY <3>2
    <3>. QED  BY <2>1, <3>2, <3>3, Removal
  <2>4. KeepsRecent'
    BY <1>6 DEF KeepsRecent
  <2>. QED  BY <1>1, <1>4, <2>3, <2>4 DEF CacheInv, Linked, CacheTypeOK
<1>7. CASE /\ Capacity > 0 /\ k \in items
           /\ lru' = <<entry>> \o Without(lru, Place(k))
           /\ recency' = Used(k) /\ UNCHANGED items
  <2>1. Place(k) \in 1..Len(lru) /\ lru[Place(k)].key = k
    BY <1>7, PlaceIs
  <2>2. PICK m : m = Without(lru, Place(k))
    OBVIOUS
  <2>3. /\ m \in Seq(Entry) /\ PartOf(m, lru) /\ KeysOf(m) = items \ {k}
        /\ Len(m) = Len(lru) - 1
    BY <1>3, <2>1, <2>2, WithoutPart
  <2>4. Len(m) < Capacity /\ k \notin KeysOf(m) /\ items' = KeysOf(m) \cup {k}
    BY <1>3, <1>7, <2>3
  <2>5. lru' = <<entry>> \o m
    BY <1>7, <2>2
  <2>. QED  BY <1>5, <1>7, <2>3, <2>4, <2>5
<1>8. CASE /\ Capacity > 0 /\ k \notin items /\ Len(lru) >= Capacity
           /\ lru' = <<entry>> \o Without(lru, Len(lru))
           /\ items' = (items \ {lru[Len(lru)].key}) \cup {k}
           /\ recency' = Used(k)
  <2>1. Len(lru) \in 1..Len(lru)
    BY <1>3, <1>8
  <2>2. PICK m : m = Without(lru, Len(lru))
    OBVIOUS
  <2>3. /\ m \in Seq(Entry) /\ PartOf(m, lru) /\ KeysOf(m) = items \ {lru[Len(lru)].key}
        /\ Len(m) = Len(lru) - 1
    BY <1>3, <2>1, <2>2, WithoutPart
  <2>4. Len(m) < Capacity /\ k \notin KeysOf(m) /\ items' = KeysOf(m) \cup {k}
    BY <1>3, <1>8, <2>3
  <2>5. lru' = <<entry>> \o m
    BY <1>8, <2>2
  <2>. QED  BY <1>5, <1>8, <2>3, <2>4, <2>5
<1>9. CASE /\ Capacity > 0 /\ k \notin items /\ ~(Len(lru) >= Capacity)
           /\ lru' = <<entry>> \o lru
           /\ items' = items \cup {k}
           /\ recency' = Used(k)
  <2>1. PartOf(lru, lru) /\ Len(lru) < Capacity
    BY <1>3, <1>9, PartOfItself
  <2>. QED  BY <1>3, <1>5, <1>9, <2>1
<1>10. \/ Capacity = 0 /\ UNCHANGED <<elements, recency>>
       \/ /\ Capacity > 0 /\ k \in items
          /\ lru' = <<entry>> \o Without(lru, Place(k))
          /\ recency' = Used(k) /\ UNCHANGED items
       \/ /\ Capacity > 0 /\ k \notin items
          /\ lru' = <<entry>> \o IF Len(lru) >= Capacity THEN Without(lru, Len(lru)) ELSE lru
          /\ items' = (IF Len(lru) >= Capacity THEN items \ {lru[Len(lru)].key} ELSE items)
                        \cup {k}
          /\ recency' = Used(k)
  BY Zenon DEF Set
<1>. HIDE DEF entry, record
<1>. QED  BY <1>6, <1>7, <1>8, <1>9, <1>10

LEMMA DeleteInv ==
    ASSUME CacheInv, NEW k \in Key, Delete(k)
    PROVE  CacheInv'
<1>1. /\ CacheTypeOK /\ now \in Nat /\ UNCHANGED <<now, got, recency>>
      /\ latest' = [latest EXCEPT ![k] = Absent]
  BY DEF CacheInv, CacheTypeOK, Delete
<1>2. /\ latest' \in [Key -> [value : Value, expiresAt : Nat] \cup {Absent}]
      /\ latest'[k] = Absent /\ \A j \in Key \ {k} : latest'[j] = latest[j]
  BY <1>1 DEF CacheTypeOK
<1>3. CASE k \in items
  BY <1>1, <1>2, <1>3, Removes DEF Delete, CacheTypeOK
<1>4. CASE k \notin items
  <2>1. UNCHANGED <<items, lru>>
    BY <1>4 DEF Delete, elements
  <2>2. lru \in Seq(Entry) /\ items = KeysOf(lru) /\ PartOf(lru, lru)
    BY MatchesIs, PartOfItself DEF CacheInv, CacheTypeOK
  <2>3. \A i \in 1..Len(lru) : lru[i].key \in Key \ {k}
    <3>1. \A i \in 1..Len(lru) : lru[i].key \in items
      BY <2>2 DEF KeysOf
    <3>. QED  BY <1>1, <1>4, <3>1 DEF CacheTypeOK
  <2>4. Linked' /\ items' \in SUBSET Key /\ lru' \in Seq(Entry) /\ Len(lru') <= Capacity
        /\ recency' \in Seq(Key)
    BY <1>1, <1>2, <2>1, <2>2, <2>3, Removal
  <2>5. KeepsRecent'
    BY <1>1, <1>2, <2>1, RemovalKeepsRecent DEF CacheInv
  <2>. QED  BY <1>1, <1>2, <2>4, <2>5 DEF CacheInv, Linked, CacheTypeOK
<1>. QED  BY <1>3, <1>4

LEMMA ClearInv ==
    ASSUME CacheInv, Clear
    PROVE  CacheInv'
<1>1. /\ CacheTypeOK /\ now \in Nat /\ UNCHANGED <<now, got, recency>>
      /\ latest' = [k \in Key |-> Absent] /\ lru' = <<>> /\ items' = {}
  BY DEF CacheInv, CacheTypeOK, Clear
<1>2. PICK m : m = <<>>
  OBVIOUS
<1>3. m \in Seq(Entry) /\ Len(m) = 0 /\ KeysOf(m) = {} /\ lru \in Seq(Entry)
  BY <1>1, <1>2, EmptyPart DEF CacheTypeOK
<1>4. PartOf(m, lru)
  BY <1>2, <1>3, EmptyPart
<1>5. \A i \in 1..Len(m) : latest'[m[i].key] = latest[m[i].key]
  BY <1>3
<1>6. lru' = m /\ items' = KeysOf(m)
  BY <1>1, <1>2, <1>3
<1>7. Linked' /\ items' \in SUBSET Key /\ lru' \in Seq(Entry) /\ Len(lru') <= Capacity
      /\ recency' \in Seq(Key)
  BY <1>1, <1>3, <1>4, <1>5, <1>6, Removal
<1>8. KeepsRecent'
  <2>1. \A i \in 1..Len(recency') : latest'[recency'[i]] = Absent
    BY <1>1, <1>7
  <2>. QED  BY <2>1 DEF KeepsRecent
<1>. QED  BY <1>1, <1>7, <1>8 DEF CacheInv, Linked, CacheTypeOK

\* What EvictExpired leaves of the list.
LEMMA Evicts ==
    ASSUME CacheInv, EvictExpired
    PROVE  /\ lru' \in Seq(Entry) /\ PartOf(lru', lru)
           /\ items' = KeysOf(lru')
           /\ items' = items \ {lru[i].key : i \in {j \in 1..Len(lru) : Expired(lru[j])}}
<1>1. lru \in Seq(Entry) /\ items = KeysOf(lru) /\ OneEach(lru)
  BY MatchesIs DEF CacheInv, CacheTypeOK
<1>2. items' = items \ {lru[i].key : i \in {j \in 1..Len(lru) : Expired(lru[j])}}
  BY DEF EvictExpired
<1>3. PICK n \in 0..Len(lru) : \E stays \in [1..n -> 1..Len(lru)] :
          /\ \A i, j \in 1..n : i < j => stays[i] < stays[j]
          /\ {stays[i] : i \in 1..n} = {j \in 1..Len(lru) : ~Expired(lru[j])}
          /\ lru' = [i \in 1..n |-> lru[stays[i]]]
  BY DEF EvictExpired
<1>4. PICK stays \in [1..n -> 1..Len(lru)] :
          /\ \A i, j \in 1..n : i < j => stays[i] < stays[j]
          /\ {stays[i] : i \in 1..n} = {j \in 1..Len(lru) : ~Expired(lru[j])}
          /\ lru' = [i \in 1..n |-> lru[stays[i]]]
  BY <1>3
<1>5. PICK m : m = lru'
  OBVIOUS
<1>6. n \in Nat /\ m = [i \in 1..n |-> lru[stays[i]]]
  BY <1>4, <1>5
<1>7. \A i \in 1..n : lru[stays[i]] \in Entry
  BY <1>1
<1>8. m \in [1..n -> Entry]
  BY <1>6, <1>7
<1>9. m \in Seq(Entry) /\ Len(m) = n
  BY <1>6, <1>8
<1>10. PartOf(m, lru)
  <2>1. Part(m, lru, stays)
    BY <1>4, <1>6, <1>9 DEF Part, Increasing
  <2>. QED  BY <1>9, <2>1 DEF PartOf
<1>11. ASSUME NEW i \in 1..n
       PROVE  m[i].key \in items'
  <2>1. stays[i] \in 1..Len(lru) /\ ~Expired(lru[stays[i]]) /\ m[i] = lru[stays[i]]
    BY <1>4, <1>6
  <2>2. m[i].key \in items
    BY <1>1, <2>1 DEF KeysOf
  <2>3. \A j \in 1..Len(lru) : lru[j].key = m[i].key => j = stays[i]
    BY <1>1, <2>1 DEF OneEach
  <2>. QED  BY <1>2, <2>1, <2>2, <2>3
<1>12. ASSUME NEW k \in items'
       PROVE  k \in KeysOf(m)
  <2>1. PICK j \in 1..Len(lru) : lru[j].key = k
    BY <1>1, <1>2 DEF KeysOf
  <2>2. ~Expired(lru[j])
    BY <1>2, <2>1
  <2>3. j \in {stays[i] : i \in 1..n}
    BY <1>4, <2>2
  <2>4. PICK i \in 1..n : stays[i] = j
    BY <2>3
  <2>. QED  BY <1>6, <1>9, <2>1, <2>4 DEF KeysOf
<1>13. items' = KeysOf(m)
  BY <1>9, <1>11, <1>12 DEF KeysOf
<1>. QED  BY <1>2, <1>5, <1>9, <1>10, <1>13

LEMMA EvictExpiredInv ==
    ASSUME CacheInv, EvictExpired
    PROVE  CacheInv'
<1>1. CacheTypeOK /\ now \in Nat /\ UNCHANGED <<now, got, latest, recency>>
  BY DEF CacheInv, CacheTypeOK, EvictExpired
<1>2. PICK m : m = lru'
  OBVIOUS
<1>3. m \in Seq(Entry) /\ PartOf(m, lru) /\ items' = KeysOf(m)
  BY <1>2, Evicts
<1>4. Linked' /\ items' \in SUBSET Key /\ lru' \in Seq(Entry) /\ Len(lru') <= Capacity
      /\ recency' \in Seq(Key)
  BY <1>1, <1>2, <1>3, Removal
<1>5. ASSUME NEW k \in items \ items'  PROVE now' > latest'[k].expiresAt
  <2>1. PICK i \in 1..Len(lru) : Expired(lru[i]) /\ lru[i].key = k
    BY Evicts
  <2>2. latest[k] = [value |-> lru[i].value, expiresAt |-> lru[i].expiresAt]
    BY <2>1 DEF CacheInv, Fresh
  <2>. QED  BY <1>1, <2>1, <2>2 DEF Expired
<1>6. KeepsRecent'
  BY <1>1, <1>5, RemovalKeepsRecent DEF CacheInv
<1>. QED  BY <1>1, <1>4, <1>6 DEF CacheInv, Linked, CacheTypeOK

LEMMA InitInv == CacheInit => CacheInv
<1>. SUFFICES ASSUME CacheInit  PROVE CacheInv
  OBVIOUS
<1>1. CacheTypeOK /\ MapMatchesList /\ NoRepeat(recency) /\ Fresh /\ KeepsRecent
  BY LruCacheAssumption DEF CacheInit, CacheTypeOK, MapMatchesList, NoRepeat, Fresh, KeepsRecent
<1>2. Follows(lru, recency)
  <2>. DEFINE at == [i \in 1..Len(lru) |-> i]
  <2>1. at \in [1..Len(lru) -> 1..Len(recency)] /\ Along(lru, recency, at)
    BY DEF CacheInit, Along, Increasing
  <2>. QED  BY <2>1 DEF Follows
<1>. QED  BY <1>1, <1>2 DEF CacheInv

LEMMA NextInv == CacheInv /\ [CacheNext]_cacheVars => CacheInv'
<1>. SUFFICES ASSUME CacheInv, [CacheNext]_cacheVars  PROVE CacheInv'
  OBVIOUS
<1>0. now \in Nat /\ got \in Value \cup {Absent}
  BY DEF CacheInv, CacheTypeOK
<1>1. ASSUME NEW k \in Key, Get(k)  PROVE CacheInv'
  BY <1>1, GetInv
<1>2. ASSUME NEW k \in Key, Delete(k)  PROVE CacheInv'
  BY <1>2, DeleteInv
<1>3. ASSUME NEW k \in Key, NEW v \in Value, Set(k, v)  PROVE CacheInv'
  BY <1>3, SetInv
<1>4. CASE Clear
  BY <1>4, ClearInv
<1>5. CASE EvictExpired
  BY <1>5, EvictExpiredInv
<1>6. CASE Tick
  BY <1>0, <1>6, Stays DEF Tick, elements
<1>7. CASE UNCHANGED cacheVars
  BY <1>0, <1>7, Stays DEF cacheVars
<1>. QED  BY <1>1, <1>2, <1>3, <1>4, <1>5, <1>6, <1>7 DEF CacheNext

\* Map, list and the order of use agree in every reachable state: what the
\* methods of the cache rely on when they look a key up in one of the three.
THEOREM LruCacheInvariant == CacheSpec => []CacheInv
<1>. QED  BY InitInv, NextInv, PTL DEF CacheSpec

\* The list is never longer than the capacity, and the state has its types.
THEOREM LruCacheTypeOK == CacheSpec => []CacheTypeOK
<1>1. CacheInv => CacheTypeOK
  BY DEF CacheInv
<1>. QED  BY <1>1, LruCacheInvariant, PTL

\* The map and the list agree, and no eviction takes a key that fewer than
\* Capacity others were used after.
THEOREM LruCacheEvictsOldest == CacheSpec => []EvictsOldest
<1>1. CacheInv => EvictsOldest
  BY DEF CacheInv, EvictsOldest
<1>. QED  BY <1>1, LruCacheInvariant, PTL

-----------------------------------------------------------------------------
(* The refinement: each method does to the map what TtlMap says. *)

\* The map that a list stands for.
BarOf(l) ==
    [k \in Key |->
        IF \E i \in 1..Len(l) : l[i].key = k
        THEN [value |-> l[CHOOSE i \in 1..Len(l) : l[i].key = k].value,
              expiresAt |-> l[CHOOSE i \in 1..Len(l) : l[i].key = k].expiresAt]
        ELSE Absent]

LEMMA BarIs ==
    ASSUME NEW l \in Seq(Entry), OneEach(l), NEW k \in Key
    PROVE  /\ k \notin KeysOf(l) => BarOf(l)[k] = Absent
           /\ \A i \in 1..Len(l) : l[i].key = k =>
                 BarOf(l)[k] = [value |-> l[i].value, expiresAt |-> l[i].expiresAt]
           /\ k \in KeysOf(l) => BarOf(l)[k] # Absent
<1>1. k \notin KeysOf(l) => BarOf(l)[k] = Absent
  BY DEF BarOf, KeysOf
<1>2. ASSUME NEW i \in 1..Len(l), l[i].key = k
      PROVE  /\ BarOf(l)[k] = [value |-> l[i].value, expiresAt |-> l[i].expiresAt]
             /\ BarOf(l)[k] # Absent
  <2>. DEFINE p == CHOOSE j \in 1..Len(l) : l[j].key = k
  <2>1. p \in 1..Len(l) /\ l[p].key = k
    BY <1>2
  <2>2. BarOf(l)[k] = [value |-> l[p].value, expiresAt |-> l[p].expiresAt]
    BY <1>2 DEF BarOf
  <2>. HIDE DEF p
  <2>3. p = i
    BY <1>2, <2>1 DEF OneEach
  <2>4. l[i] \in Entry
    OBVIOUS
  <2>5. [value |-> l[i].value, expiresAt |-> l[i].expiresAt] \in [value : Value, expiresAt : Nat]
    BY <2>4 DEF Entry
  <2>. QED  BY <2>2, <2>3, <2>5, LruCacheAssumption
<1>3. k \in KeysOf(l) => BarOf(l)[k] # Absent
  BY <1>2 DEF KeysOf
<1>. QED  BY <1>1, <1>2, <1>3

LEMMA BarOfLists == contentBar = BarOf(lru) /\ contentBar' = BarOf(lru')
BY DEF contentBar, BarOf, Place

\* A list that loses elements stands for a map that forgets their keys.
LEMMA BarForgets ==
    ASSUME NEW m \in Seq(Entry), NEW l \in Seq(Entry), PartOf(m, l), OneEach(l)
    PROVE  \A k \in Key : BarOf(m)[k] = BarOf(l)[k] \/ BarOf(m)[k] = Absent
<1>1. SUFFICES ASSUME NEW k \in Key
               PROVE  BarOf(m)[k] = BarOf(l)[k] \/ BarOf(m)[k] = Absent
  OBVIOUS
<1>2. PICK f : Part(m, l, f)
  BY DEF PartOf
<1>3. CASE k \notin KeysOf(m)
  BY <1>3 DEF BarOf, KeysOf
<1>4. CASE k \in KeysOf(m)
  <2>1. PICK i \in 1..Len(m) : m[i].key = k
    BY <1>4 DEF KeysOf
  <2>2. f[i] \in 1..Len(l) /\ m[i] = l[f[i]]
    BY <1>2 DEF Part
  <2>3. OneEach(m)
    BY PartOneEach
  <2>4. BarOf(m)[k] = [value |-> m[i].value, expiresAt |-> m[i].expiresAt]
    BY <2>1, <2>3, BarIs
  <2>5. BarOf(l)[k] = [value |-> l[f[i]].value, expiresAt |-> l[f[i]].expiresAt]
    BY <2>1, <2>2, BarIs
  <2>. QED  BY <2>2, <2>4, <2>5
<1>. QED  BY <1>3, <1>4

\* An entry in front is what its key maps to, and changes no other key.
LEMMA BarFront ==
    ASSUME NEW m \in Seq(Entry), NEW e \in Entry, OneEach(m), e.key \notin KeysOf(m)
    PROVE  /\ BarOf(<<e>> \o m)[e.key] = [value |-> e.value, expiresAt |-> e.expiresAt]
           /\ \A k \in Key \ {e.key} : BarOf(<<e>> \o m)[k] = BarOf(m)[k]
<1>1. PICK l : l = <<e>> \o m
  OBVIOUS
<1>2. /\ l \in Seq(Entry) /\ Len(l) = Len(m) + 1 /\ l[1] = e /\ Len(m) \in Nat
      /\ \A j \in 1..Len(m) : l[j + 1] = m[j]
  BY <1>1, FrontIs
<1>3. OneEach(l) /\ KeysOf(l) = KeysOf(m) \cup {e.key}
  BY <1>1, FrontAdds
<1>4. e.key \in Key /\ 1 \in 1..Len(l)
  BY <1>2 DEF Entry
<1>5. BarOf(l)[e.key] = [value |-> e.value, expiresAt |-> e.expiresAt]
  BY <1>2, <1>3, <1>4, BarIs
<1>6. ASSUME NEW k \in Key \ {e.key}  PROVE BarOf(l)[k] = BarOf(m)[k]
  <2>1. CASE k \notin KeysOf(m)
    BY <1>2, <1>3, <2>1, BarIs
  <2>2. CASE k \in KeysOf(m)
    <3>1. PICK i \in 1..Len(m) : m[i].key = k
      BY <2>2 DEF KeysOf
    <3>2. i + 1 \in 1..Len(l) /\ l[i + 1] = m[i]
      BY <1>2
    <3>3. PICK h \in 1..Len(l) : l[h] = m[i] /\ l[h].key = k
      BY <3>1, <3>2
    <3>4. BarOf(m)[k] = [value |-> m[i].value, expiresAt |-> m[i].expiresAt]
      BY <3>1, BarIs
    <3>5. BarOf(l)[k] = [value |-> l[h].value, expiresAt |-> l[h].expiresAt]
      BY <1>2, <1>3, <3>3, BarIs
    <3>. QED  BY <3>3, <3>4, <3>5
  <2>. QED  BY <2>1, <2>2
<1>. QED  BY <1>1, <1>5, <1>6

\* Losing elements is forgetting.
LEMMA PartForgets ==
    ASSUME CacheInv, lru' \in Seq(Entry), PartOf(lru', lru), now' = now
    PROVE  Map!Forget
<1>1. lru \in Seq(Entry) /\ OneEach(lru)
  BY MatchesIs DEF CacheInv, CacheTypeOK
<1>2. PICK m : m = lru'
  OBVIOUS
<1>3. \A k \in Key : BarOf(m)[k] = BarOf(lru)[k] \/ BarOf(m)[k] = Absent
  BY <1>1, <1>2, BarForgets
<1>4. PICK old, new : old = contentBar /\ new = contentBar'
  OBVIOUS
<1>5. old = BarOf(lru) /\ new = BarOf(m)
  BY <1>2, <1>4, BarOfLists
<1>6. \A k \in Key : new[k] = old[k] \/ new[k] = Absent
  BY <1>3, <1>5
<1>7. new = [k \in Key |-> new[k]]
  BY <1>5 DEF BarOf
<1>8. new \in [Key -> {old[j] : j \in Key} \cup {Absent}]
  BY <1>6, <1>7
<1>. QED  BY <1>4, <1>6, <1>8 DEF Map!Forget, Map!Forgetting

\* A key's answer.
LEMMA LiveIs ==
    ASSUME CacheInv, NEW k \in Key
    PROVE  /\ k \notin items => Map!Answer(k) = Absent
           /\ k \in items =>
                Map!Answer(k) = IF Expired(lru[Place(k)]) THEN Absent
                                ELSE lru[Place(k)].value
<1>1. lru \in Seq(Entry) /\ OneEach(lru) /\ items = KeysOf(lru) /\ now \in Nat
  BY MatchesIs DEF CacheInv, CacheTypeOK
<1>2. CASE k \notin items
  <2>1. contentBar[k] = Absent
    BY <1>1, <1>2, BarIs, BarOfLists
  <2>. QED  BY <1>2, <2>1 DEF Map!Answer, Map!Live
<1>3. CASE k \in items
  <2>1. PICK p \in 1..Len(lru) :
          p = Place(k) /\ lru[p].key = k /\ lru[p].expiresAt \in Nat
    BY <1>3, PlaceIs
  <2>2. contentBar[k] = [value |-> lru[p].value, expiresAt |-> lru[p].expiresAt]
    BY <1>1, <2>1, BarIs, BarOfLists
  <2>3. contentBar[k] # Absent
    BY <1>1, <1>3, BarIs, BarOfLists
  <2>4. Map!Live(k) <=> ~Expired(lru[p])
    BY <1>1, <2>1, <2>2, <2>3 DEF Map!Live, Expired
  <2>. QED  BY <1>3, <2>1, <2>2, <2>4 DEF Map!Answer
<1>. QED  BY <1>2, <1>3

LEMMA PutOf ==
    ASSUME CacheInv, NEW k \in Key, NEW v \in Value, Set(k, v)
    PROVE  Map!Set(k, v)
<1>. DEFINE entry == [key |-> k, value |-> v, expiresAt |-> now + TTL]
            record == [value |-> v, expiresAt |-> now + TTL]
<1>1. /\ lru \in Seq(Entry) /\ OneEach(lru) /\ items = KeysOf(lru) /\ Len(lru) <= Capacity
      /\ Len(lru) \in Nat /\ Capacity \in Nat /\ now \in Nat /\ TTL \in Nat
  BY MatchesIs, LruCacheAssumption DEF CacheInv, CacheTypeOK
<1>2. PICK e \in Entry : e = entry
  <2>1. entry \in Entry
    BY <1>1 DEF Entry
  <2>. QED  BY <2>1
<1>3. PICK new : new = lru'
  OBVIOUS
\* What is put is found, and all else is kept or forgotten.
<1>4. ASSUME \/ BarOf(new)[k] = record
             \/ BarOf(new)[k] = Absent,
             \A j \in Key \ {k} : BarOf(new)[j] = BarOf(lru)[j] \/ BarOf(new)[j] = Absent
      PROVE  Map!Set(k, v)
  <2>1. PICK a, b : a = contentBar /\ b = contentBar'
    OBVIOUS
  <2>2. a = BarOf(lru) /\ b = BarOf(new)
    BY <1>3, <2>1, BarOfLists
  <2>3. b = [j \in Key |-> b[j]] /\ a = [j \in Key |-> a[j]]
    BY <2>2 DEF BarOf
  <2>4. \A j \in Key : b[j] = [a EXCEPT ![k] = record][j] \/ b[j] = Absent
    BY <1>4, <2>2, <2>3
  <2>5. b \in [Key -> {a[j] : j \in Key} \cup {record, Absent}]
    BY <1>4, <2>2, <2>3
  <2>6. now' = now /\ got' = got
    BY DEF Set
  <2>7. /\ contentBar' \in [Key -> {contentBar[j] : j \in Key} \cup {record, Absent}]
        /\ \A j \in Key : contentBar'[j] = [contentBar EXCEPT ![k] = record][j]
                          \/ contentBar'[j] = Absent
    BY <2>1, <2>4, <2>5
  <2>. QED  BY <2>6, <2>7 DEF Map!Set, Map!Put, Map!Forgetting
<1>. DEFINE Putting(m) == /\ m \in Seq(Entry) /\ PartOf(m, lru) /\ k \notin KeysOf(m)
                          /\ new = <<e>> \o m
<1>5. ASSUME NEW m, Putting(m)  PROVE Map!Set(k, v)
  <2>1. OneEach(m)
    BY <1>1, <1>5, PartOneEach
  <2>2. e.key = k /\ record = [value |-> e.value, expiresAt |-> e.expiresAt]
    BY <1>2
  <2>3. /\ BarOf(new)[k] = [value |-> e.value, expiresAt |-> e.expiresAt]
        /\ \A j \in Key \ {k} : BarOf(new)[j] = BarOf(m)[j]
    BY <1>5, <2>1, <2>2, BarFront
  <2>4. \A j \in Key : BarOf(m)[j] = BarOf(lru)[j] \/ BarOf(m)[j] = Absent
    BY <1>1, <1>5, BarForgets
  <2>. HIDE DEF record
  <2>. QED  BY <1>4, <2>2, <2>3, <2>4
<1>6. CASE Capacity = 0 /\ UNCHANGED <<elements, recency>>
  <2>1. new = lru /\ Len(lru) = 0 /\ k \notin KeysOf(lru)
    BY <1>1, <1>3, <1>6 DEF elements, KeysOf
  <2>2. BarOf(new)[k] = Absent
    BY <2>1 DEF BarOf
  <2>. QED  BY <1>4, <2>1, <2>2
<1>7. CASE Capacity > 0 /\ k \in items /\ lru' = <<entry>> \o Without(lru, Place(k))
  <2>1. Place(k) \in 1..Len(lru) /\ lru[Place(k)].key = k
    BY <1>7, PlaceIs
  <2>2. PICK m : m = Without(lru, Place(k))
    OBVIOUS
  <2>3. m \in Seq(Entry) /\ PartOf(m, lru) /\ KeysOf(m) = items \ {k}
    BY <1>1, <2>1, <2>2, WithoutPart
  <2>4. Putting(m)
    BY <1>2, <1>3, <1>7, <2>2, <2>3
  <2>. QED  BY <1>5, <2>4
<1>8. CASE Capacity > 0 /\ k \notin items /\ Len(lru) >= Capacity
           /\ lru' = <<entry>> \o Without(lru, Len(lru))
  <2>1. Len(lru) \in 1..Len(lru)
    BY <1>1, <1>8
  <2>2. PICK m : m = Without(lru, Len(lru))
    OBVIOUS
  <2>3. m \in Seq(Entry) /\ PartOf(m, lru) /\ KeysOf(m) = items \ {lru[Len(lru)].key}
    BY <1>1, <2>1, <2>2, WithoutPart
  <2>4. Putting(m)
    BY <1>2, <1>3, <1>8, <2>2, <2>3
  <2>. QED  BY <1>5, <2>4
<1>9. CASE Capacity > 0 /\ k \notin items /\ ~(Len(lru) >= Capacity)
           /\ lru' = <<entry>> \o lru
  <2>1. Putting(lru)
    BY <1>1, <1>2, <1>3, <1>9, PartOfItself
  <2>. QED  BY <1>5, <2>1
<1>10. \/ Capacity = 0 /\ UNCHANGED <<elements, recency>>
       \/ /\ Capacity > 0 /\ k \in items
          /\ lru' = <<entry>> \o Without(lru, Place(k))
          /\ recency' = Used(k) /\ UNCHANGED items
       \/ /\ Capacity > 0 /\ k \notin items
          /\ lru' = <<entry>> \o IF Len(lru) >= Capacity THEN Without(lru, Len(lru)) ELSE lru
          /\ items' = (IF Len(lru) >= Capacity THEN items \ {lru[Len(lru)].key} ELSE items)
                        \cup {k}
          /\ recency' = Used(k)
  BY Zenon DEF Set
<1>. HIDE DEF entry, record, Putting
<1>. QED  BY <1>6, <1>7, <1>8, <1>9, <1>10

LEMMA GetOf ==
    ASSUME CacheInv, NEW k \in Key, Get(k)
    PROVE  Map!Get(k)
<1>1. /\ lru \in Seq(Entry) /\ OneEach(lru) /\ items = KeysOf(lru) /\ now' = now
  BY MatchesIs DEF CacheInv, CacheTypeOK, Get
<1>2. CASE k \notin items
  <2>1. got' = Absent /\ lru' = lru
    BY <1>2 DEF Get, elements
  <2>2. Map!Forget
    BY <1>1, <2>1, PartOfItself, PartForgets
  <2>. QED  BY <1>2, <2>1, <2>2, LiveIs DEF Map!Get
<1>3. CASE k \in items /\ Expired(lru[Place(k)])
  <2>1. got' = Absent /\ lru' = Without(lru, Place(k))
    BY <1>3 DEF Get, RemoveElement
  <2>2. lru' \in Seq(Entry) /\ PartOf(lru', lru)
    BY <1>1, <1>3, <2>1, PlaceIs, WithoutPart
  <2>3. Map!Forget
    BY <1>1, <2>2, PartForgets
  <2>. QED  BY <1>3, <2>1, <2>3, LiveIs DEF Map!Get
<1>4. CASE k \in items /\ ~Expired(lru[Place(k)])
  <2>1. PICK p \in 1..Len(lru) : p = Place(k) /\ lru[p].key = k /\ lru[p] \in Entry
    BY <1>4, PlaceIs
  <2>2. PICK m : m = Without(lru, p)
    OBVIOUS
  <2>3. m \in Seq(Entry) /\ PartOf(m, lru) /\ KeysOf(m) = items \ {k}
    BY <1>1, <2>1, <2>2, WithoutPart
  <2>4. PICK new : new = lru'
    OBVIOUS
  <2>5. new = <<lru[p]>> \o m /\ got' = lru[p].value
    BY <1>4, <2>1, <2>2, <2>4 DEF Get, MovedToFront
  <2>6. OneEach(m)
    BY <1>1, <2>3, PartOneEach
  <2>7. /\ BarOf(new)[k] = [value |-> lru[p].value, expiresAt |-> lru[p].expiresAt]
        /\ \A j \in Key \ {k} : BarOf(new)[j] = BarOf(m)[j]
    BY <2>1, <2>3, <2>5, <2>6, BarFront
  <2>8. BarOf(lru)[k] = [value |-> lru[p].value, expiresAt |-> lru[p].expiresAt]
    BY <1>1, <2>1, BarIs
  <2>9. \A j \in Key \ {k} : BarOf(new)[j] = BarOf(lru)[j] \/ BarOf(new)[j] = Absent
    BY <1>1, <2>3, <2>7, BarForgets
  <2>10. PICK a, b : a = contentBar /\ b = contentBar'
    OBVIOUS
  <2>11. a = BarOf(lru) /\ b = BarOf(new)
    BY <2>4, <2>10, BarOfLists
  <2>12. b = [j \in Key |-> b[j]]
    BY <2>11 DEF BarOf
  <2>13. \A j \in Key : b[j] = a[j] \/ b[j] = Absent
    BY <2>7, <2>8, <2>9, <2>11
  <2>14. b \in [Key -> {a[j] : j \in Key} \cup {Absent}]
    BY <2>12, <2>13
  <2>15. Map!Forget
    BY <1>1, <2>10, <2>13, <2>14 DEF Map!Forget, Map!Forgetting
  <2>. QED  BY <1>4, <2>1, <2>5, <2>15, LiveIs DEF Map!Get
<1>. QED  BY <1>2, <1>3, <1>4

\* A removal after which key k is not in the list deletes it.
LEMMA DeleteOf ==
    ASSUME CacheInv, NEW k \in Key, lru' \in Seq(Entry), PartOf(lru', lru), k \notin KeysOf(lru'),
           now' = now, got' = got
    PROVE  Map!Delete(k)
<1>1. Map!Forget
  BY PartForgets
<1>2. contentBar'[k] = Absent
  BY BarOfLists DEF BarOf, KeysOf
<1>. QED  BY <1>1, <1>2 DEF Map!Delete

LEMMA NextOf == CacheInv /\ [CacheNext]_cacheVars => [Map!Next]_Map!vars
<1>. SUFFICES ASSUME CacheInv, [CacheNext]_cacheVars  PROVE [Map!Next]_Map!vars
  OBVIOUS
<1>1. lru \in Seq(Entry) /\ OneEach(lru) /\ items = KeysOf(lru)
  BY MatchesIs DEF CacheInv, CacheTypeOK
<1>2. ASSUME UNCHANGED <<lru, now, got>>  PROVE UNCHANGED Map!vars
  BY <1>2, BarOfLists DEF Map!vars
<1>3. ASSUME NEW k \in Key, Get(k)  PROVE Map!Next
  BY <1>3, GetOf DEF Map!Next
<1>4. ASSUME NEW k \in Key, NEW v \in Value, Set(k, v)  PROVE Map!Next
  BY <1>4, PutOf DEF Map!Next
<1>5. ASSUME NEW k \in Key, Delete(k)  PROVE Map!Next
  <2>1. now' = now /\ got' = got
    BY <1>5 DEF Delete
  <2>2. CASE k \in items
    <3>1. lru' = Without(lru, Place(k)) /\ Place(k) \in 1..Len(lru) /\ lru[Place(k)].key = k
      BY <1>5, <2>2, PlaceIs DEF Delete, RemoveElement
    <3>2. lru' \in Seq(Entry) /\ PartOf(lru', lru) /\ k \notin KeysOf(lru')
      BY <1>1, <3>1, WithoutPart
    <3>. QED  BY <2>1, <3>2, DeleteOf DEF Map!Next
  <2>3. CASE k \notin items
    <3>1. lru' = lru
      BY <1>5, <2>3 DEF Delete, elements
    <3>2. lru' \in Seq(Entry) /\ PartOf(lru', lru) /\ k \notin KeysOf(lru')
      BY <1>1, <2>3, <3>1, PartOfItself
    <3>. QED  BY <2>1, <3>2, DeleteOf DEF Map!Next
  <2>. QED  BY <2>2, <2>3
<1>6. CASE Clear
  <2>1. lru' = << >> /\ now' = now /\ got' = got
    BY <1>6 DEF Clear
  <2>2. CASE Key = {}
    <3>1. BarOf(lru') = BarOf(lru)
      BY <2>2 DEF BarOf
    <3>. QED  BY <2>1, <3>1, BarOfLists DEF Map!vars
  <2>3. CASE Key # {}
    <3>1. PICK k \in Key : TRUE
      BY <2>3
    <3>2. lru' \in Seq(Entry) /\ PartOf(lru', lru) /\ k \notin KeysOf(lru')
      BY <1>1, <2>1, EmptyPart
    <3>3. Map!Delete(k)
      BY <2>1, <3>2, DeleteOf
    <3>. QED  BY <3>3 DEF Map!Next
  <2>. QED  BY <2>2, <2>3
<1>7. CASE EvictExpired
  <2>1. now' = now /\ got' = got /\ lru' \in Seq(Entry) /\ PartOf(lru', lru)
        /\ items' = KeysOf(lru') /\ items' \subseteq items
    BY <1>7, Evicts DEF EvictExpired
  <2>2. CASE items' = items
    <3>1. PICK m : m = lru'
      OBVIOUS
    <3>2. \A k \in Key : BarOf(m)[k] = BarOf(lru)[k] \/ BarOf(m)[k] = Absent
      BY <1>1, <2>1, <3>1, BarForgets
    <3>3. OneEach(m)
      BY <1>1, <2>1, <3>1, PartOneEach
    <3>4. ASSUME NEW k \in Key  PROVE BarOf(m)[k] = BarOf(lru)[k]
      <4>1. CASE k \in items
        <5>1. m \in Seq(Entry) /\ k \in KeysOf(m)
          BY <2>1, <2>2, <3>1, <4>1
        <5>2. BarOf(m)[k] # Absent
          BY <3>3, <5>1, BarIs
        <5>. QED  BY <3>2, <5>2
      <4>2. CASE k \notin items
        <5>1. k \notin KeysOf(m) /\ k \notin KeysOf(lru)
          BY <1>1, <2>1, <2>2, <3>1, <4>2
        <5>. QED  BY <5>1 DEF BarOf, KeysOf
      <4>. QED  BY <4>1, <4>2
    <3>5. PICK a, b : a = BarOf(lru) /\ b = BarOf(m)
      OBVIOUS
    <3>6. a = [j \in Key |-> a[j]] /\ b = [j \in Key |-> b[j]]
      BY <3>5 DEF BarOf
    <3>7. a = b
      BY <3>4, <3>5, <3>6
    <3>. QED  BY <2>1, <3>1, <3>5, <3>7, BarOfLists DEF Map!vars
  <2>3. CASE items' # items
    <3>1. PICK k \in items : k \notin items'
      BY <2>1, <2>3
    <3>2. k \in Key
      BY <3>1 DEF CacheInv, CacheTypeOK
    <3>3. Map!Delete(k)
      BY <2>1, <3>1, <3>2, DeleteOf
    <3>. QED  BY <3>2, <3>3 DEF Map!Next
  <2>. QED  BY <2>2, <2>3
<1>8. CASE Tick
  <2>1. now' = now + 1 /\ got' = got /\ contentBar' = contentBar
    BY <1>8, BarOfLists DEF Tick, elements
  <2>. QED  BY <2>1 DEF Map!Next, Map!Pass, Map!Age
<1>9. CASE UNCHANGED cacheVars
  BY <1>2, <1>9 DEF cacheVars
<1>. QED  BY <1>3, <1>4, <1>5, <1>6, <1>7, <1>8, <1>9 DEF CacheNext

\* The cache is the forgetful map: no answer is older than TTL, was replaced or
\* was deleted, whatever is evicted.
THEOREM LruCacheRefines == CacheSpec => ImplementsTtlMap
<1>1. CacheInit => Map!Init
  <2>. SUFFICES ASSUME CacheInit  PROVE Map!Init
    OBVIOUS
  <2>1. contentBar = [k \in Key |-> Absent]
    BY BarOfLists DEF CacheInit, BarOf
  <2>. QED  BY <2>1 DEF CacheInit, Map!Init
<1>. QED  BY <1>1, NextOf, LruCacheInvariant, PTL DEF CacheSpec, ImplementsTtlMap, Map!Spec

-----------------------------------------------------------------------------
(* The migrations *)

\* A loop that has listed visits keys of its prefix; one is current.
Visiting == phase \in Phase /\ step # "list" => batch # {} /\ batch \subseteq PhaseKeys(phase)

\* What has to be there before a legacy key is deleted is there.
Prepared ==
    /\ phase = "dms" /\ step \in {"second", "delete"} => kv.channel[Current] # None
    /\ phase = "matrixDms" /\ step = "delete" => kv.room[Current] # None

\* The legacy mappings stay or go, and the unified ones come from somewhere.
Accounted ==
    /\ \A c \in Channel :
         /\ kv.dm[c] \in {original.dm[c], None}
         /\ kv.channel[c] \in {original.channel[c], original.dm[c]}
         /\ kv.dm[c] = None /\ original.dm[c] # None => kv.channel[c] # None
         /\ original.channel[c] # None => kv.channel[c] # None
         /\ original.channel[c] # None /\ faults = 0 => kv.channel[c] = original.channel[c]
    /\ \A r \in RoomID :
         /\ kv.matrixDm[r] \in {original.matrixDm[r], None}
         /\ kv.matrixDm[r] = None /\ original.matrixDm[r] # None => kv.room[r] # None

IInv == TypeOK /\ Visiting /\ Prepared /\ Accounted

LEMMA Bounds == MaxFault \in Nat /\ MaxRun \in Nat
BY MigrationsAssumption

-----------------------------------------------------------------------------
(* The current key. *)

LEMMA MinOfNats ==
    ASSUME NEW S, S \subseteq Nat, S # {}
    PROVE  Min(S) \in S
BY LeastOfNats DEF Min

\* The current key is one of the phase's, and has not been visited.
LEMMA CurrentKey ==
    ASSUME IInv, phase \in Phase, step # "list"
    PROVE  /\ Current \in batch
           /\ phase = "users" => Current \in MatrixUser /\ kv.matrixUser[Current] \in User
           /\ phase = "channels" => Current \in Channel /\ kv.channel[Current] \in Room
           /\ phase = "dms" => Current \in Channel /\ kv.dm[Current] \in RoomID
           /\ phase = "matrixDms" => Current \in RoomID /\ kv.matrixDm[Current] \in Channel
<1>1. batch \subseteq Nat
  BY MigrationsAssumption DEF IInv, TypeOK, Room
<1>2. Current \in batch
  BY <1>1, MinOfNats DEF Current, IInv, Visiting
<1>3. Current \in PhaseKeys(phase)
  BY <1>2 DEF IInv, Visiting
<1>. QED  BY <1>2, <1>3 DEF IInv, TypeOK, Store, PhaseKeys, Keys

\* A loop that goes on visits what is left of its page, or lists again.
LEMMA Goes ==
    ASSUME IInv, phase \in Phase, NextKey
    PROVE  /\ batch' = batch \ {Current} /\ lastPage' = lastPage
           /\ phase' \in Phase \cup {"version"} /\ page' \in Nat
           /\ \/ step' = "list"
              \/ step' = "first" /\ phase' = phase /\ batch' # {}
<1>1. PhaseAfter(phase) \in Phase \cup {"version"}
  BY DEF Phase, PhaseAfter
<1>. QED  BY <1>1 DEF NextKey, IInv, TypeOK

-----------------------------------------------------------------------------
(* What a call leaves behind. *)

Answered == /\ faults' \in 0..MaxFault /\ clean' \in BOOLEAN
            /\ faults' \in {faults, faults + 1}
            /\ UNCHANGED <<version, given>>

LEMMA Answers ==
    ASSUME IInv, NoFault \/ Fault, UNCHANGED <<version, given>>
    PROVE  Answered /\ (Fault => faults' # 0)
<1>1. faults \in Nat /\ faults <= MaxFault /\ MaxFault \in Nat /\ clean \in BOOLEAN
  BY Bounds DEF IInv, TypeOK
<1>2. CASE NoFault
  BY <1>1, <1>2 DEF NoFault, Fault, Answered
<1>3. CASE Fault
  <2>1. faults < MaxFault /\ faults' = faults + 1 /\ clean' = FALSE
    BY <1>3 DEF Fault
  <2>2. faults' \in 0..MaxFault /\ faults' # 0
    BY <1>1, <2>1
  <2>. QED  BY <2>1, <2>2 DEF Answered
<1>. QED  BY <1>2, <1>3

\* A key is done: the others of the page must still be there.
LEMMA KeyDone ==
    ASSUME IInv, phase \in Phase, step # "list", NextKey, Answered, kv' \in Store, Accounted',
           phase' = phase => batch \ {Current} \subseteq PhaseKeys(phase)'
    PROVE  IInv'
<1>1. /\ batch' = batch \ {Current} /\ lastPage' = lastPage
      /\ phase' \in Phase \cup {"version"} /\ page' \in Nat
      /\ \/ step' = "list"
         \/ step' = "first" /\ phase' = phase /\ batch' # {}
  BY Goes
<1>2. TypeOK'
  BY <1>1 DEF IInv, TypeOK, Answered, given
<1>3. Visiting'
  BY <1>1 DEF Visiting
<1>4. Prepared'
  BY <1>1 DEF Prepared
<1>. QED  BY <1>2, <1>3, <1>4 DEF IInv

\* The next call for the same key.
LEMMA KeyContinued ==
    ASSUME IInv, phase \in Phase, step # "list", NEW s \in {"second", "delete"}, Then(s), Answered,
           kv' \in Store, Accounted', Prepared', batch \subseteq PhaseKeys(phase)'
    PROVE  IInv'
<1>1. step' = s /\ UNCHANGED <<phase, page, batch, lastPage>>
  BY DEF Then
<1>2. TypeOK'
  BY <1>1 DEF IInv, TypeOK, Answered, given
<1>3. Visiting'
  BY <1>1 DEF Visiting, IInv
<1>. QED  BY <1>2, <1>3 DEF IInv

LEMMA NothingWritten ==
    ASSUME IInv, Answered, kv' = kv
    PROVE  kv' \in Store /\ Accounted' /\ \A p \in Phase : PhaseKeys(p)' = PhaseKeys(p)
BY DEF IInv, TypeOK, Accounted, Answered, PhaseKeys, Keys, given

LEMMA UserWritten ==
    ASSUME IInv, Answered, NEW u \in User, NEW m \in MatrixUser, kv' = [kv EXCEPT !.user[u] = m]
    PROVE  kv' \in Store /\ Accounted' /\ \A p \in Phase : PhaseKeys(p)' = PhaseKeys(p)
<1>1. /\ kv' \in Store
      /\ kv'.matrixUser = kv.matrixUser /\ kv'.channel = kv.channel /\ kv'.room = kv.room
      /\ kv'.dm = kv.dm /\ kv'.matrixDm = kv.matrixDm
  BY DEF IInv, TypeOK, Store
<1>2. faults' = 0 => faults = 0
  BY DEF Answered, IInv, TypeOK
<1>3. Accounted'
  BY <1>1, <1>2 DEF IInv, Accounted, Answered, given
<1>4. \A p \in Phase : PhaseKeys(p)' = PhaseKeys(p)
  BY <1>1 DEF PhaseKeys, Keys, Phase
<1>. QED  BY <1>1, <1>3, <1>4

\* A reverse mapping, which may replace one, but never goes.
LEMMA RoomWritten ==
    ASSUME IInv, Answered, NEW i \in Room, NEW c \in Channel, kv' = [kv EXCEPT !.room[i] = c]
    PROVE  /\ kv' \in Store /\ Accounted' /\ \A p \in Phase : PhaseKeys(p)' = PhaseKeys(p)
           /\ kv'.room[i] # None
<1>1. /\ kv' \in Store
      /\ kv'.matrixUser = kv.matrixUser /\ kv'.channel = kv.channel
      /\ kv'.dm = kv.dm /\ kv'.matrixDm = kv.matrixDm
      /\ kv'.room = [kv.room EXCEPT ![i] = c]
  BY DEF IInv, TypeOK, Store
<1>2. c # None
  BY MigrationsAssumption
<1>3. \A r \in Room : kv'.room[r] # None \/ kv'.room[r] = kv.room[r]
  BY <1>1, <1>2 DEF IInv, TypeOK, Store
<1>4. kv'.room[i] # None
  BY <1>1, <1>2 DEF IInv, TypeOK, Store
<1>5. faults' = 0 => faults = 0
  BY DEF Answered, IInv, TypeOK
<1>6. Accounted'
  BY <1>1, <1>3, <1>5 DEF IInv, Accounted, Answered, Room, given
<1>7. \A p \in Phase : PhaseKeys(p)' = PhaseKeys(p)
  BY <1>1 DEF PhaseKeys, Keys, Phase
<1>. QED  BY <1>1, <1>4, <1>6, <1>7

\* The unified mapping of a DM channel: only a failed read lets it replace one.
LEMMA ChannelWritten ==
    ASSUME IInv, Answered, NEW c \in Channel, kv.dm[c] # None, kv' = [kv EXCEPT !.channel[c] = kv.dm[c]],
           kv.channel[c] = None \/ faults' # 0
    PROVE  /\ kv' \in Store /\ Accounted' /\ kv'.dm = kv.dm
           /\ kv'.channel[c] # None
<1>1. kv.dm[c] \in RoomID /\ kv.dm[c] = original.dm[c]
  BY DEF IInv, TypeOK, Store, Accounted
<1>2. /\ kv' \in Store
      /\ kv'.room = kv.room /\ kv'.dm = kv.dm /\ kv'.matrixDm = kv.matrixDm
      /\ kv'.channel = [kv.channel EXCEPT ![c] = kv.dm[c]]
  BY <1>1 DEF IInv, TypeOK, Store, Room
<1>3. kv'.channel[c] = kv.dm[c] /\ \A d \in Channel \ {c} : kv'.channel[d] = kv.channel[d]
  BY <1>2 DEF IInv, TypeOK, Store
<1>4. faults' = 0 => faults = 0
  BY DEF Answered, IInv, TypeOK
<1>. QED  BY <1>1, <1>2, <1>3, <1>4 DEF IInv, Accounted, Answered, given

-----------------------------------------------------------------------------
(* One lemma for each action on a key. *)

LEMMA UserReverseStep == ASSUME IInv, UserReverse PROVE IInv'
<1>1. phase = "users" /\ step = "first" /\ phase \in Phase /\ NextKey
  BY DEF UserReverse, Loop, Phase
<1>2. Current \in MatrixUser /\ kv.matrixUser[Current] \in User
  BY <1>1, CurrentKey
<1>3. Answered
  BY Answers DEF UserReverse
<1>4. kv' \in Store /\ Accounted' /\ PhaseKeys("users")' = PhaseKeys("users")
  BY <1>1, <1>2, <1>3, NothingWritten, UserWritten DEF UserReverse, Phase
<1>. QED  BY <1>1, <1>3, <1>4, KeyDone DEF IInv, Visiting

LEMMA ChannelReverseStep == ASSUME IInv, ChannelReverse PROVE IInv'
<1>1. phase = "channels" /\ step = "first" /\ phase \in Phase
  BY DEF ChannelReverse, Loop, Phase
<1>2. Current \in Channel /\ kv.channel[Current] \in Room
  BY <1>1, CurrentKey
<1>3. Answered
  BY Answers DEF ChannelReverse
<1>4. kv' \in Store /\ Accounted' /\ PhaseKeys("channels")' = PhaseKeys("channels")
  BY <1>1, <1>2, <1>3, NothingWritten, RoomWritten DEF ChannelReverse, Phase
<1>5. CASE NextKey
  BY <1>1, <1>3, <1>4, <1>5, KeyDone DEF IInv, Visiting
<1>6. CASE Then("second")
  <2>1. Prepared'
    BY <1>1, <1>6 DEF Then, Prepared
  <2>. QED  BY <1>1, <1>3, <1>4, <1>6, <2>1, KeyContinued DEF IInv, Visiting, Then
<1>. QED  BY <1>5, <1>6 DEF ChannelReverse

LEMMA ChannelRoomIDStep == ASSUME IInv, ChannelRoomID PROVE IInv'
<1>1. phase = "channels" /\ step = "second" /\ phase \in Phase /\ NextKey
  BY DEF ChannelRoomID, Loop, Phase
<1>2. Current \in Channel /\ kv.channel[Current] \in Room
  BY <1>1, CurrentKey
<1>3. Answered
  BY Answers DEF ChannelRoomID
<1>4. kv' = kv \/ \E i \in Room : kv' = [kv EXCEPT !.room[i] = Current]
  BY <1>2, MigrationsAssumption DEF ChannelRoomID, Room
<1>5. kv' \in Store /\ Accounted' /\ PhaseKeys("channels")' = PhaseKeys("channels")
  BY <1>1, <1>2, <1>3, <1>4, NothingWritten, RoomWritten DEF Phase
<1>. QED  BY <1>1, <1>3, <1>5, KeyDone DEF IInv, Visiting

LEMMA DmUnifyStep == ASSUME IInv, DmUnify PROVE IInv'
<1>. DEFINE c == Current
<1>1. phase = "dms" /\ step = "first" /\ phase \in Phase
  BY DEF DmUnify, Loop, Phase
<1>2. c \in Channel /\ kv.dm[c] \in RoomID /\ kv.dm[c] # None
  BY <1>1, CurrentKey, MigrationsAssumption DEF Room
<1>3. Answered /\ (Fault => faults' # 0)
  BY Answers DEF DmUnify
<1>4. CASE UNCHANGED kv /\ NextKey
  BY <1>1, <1>3, <1>4, NothingWritten, KeyDone DEF IInv, Visiting
<1>5. CASE kv' = kv /\ kv.channel[c] # None /\ Then("second")
  <2>1. Prepared'
    BY <1>1, <1>5 DEF Then, Prepared, Current
  <2>2. kv' \in Store /\ Accounted' /\ PhaseKeys("dms")' = PhaseKeys("dms")
    BY <1>1, <1>3, <1>5, NothingWritten
  <2>. QED  BY <1>1, <1>3, <1>5, <2>1, <2>2, KeyContinued DEF IInv, Visiting, Then
<1>6. CASE kv' = [kv EXCEPT !.channel[c] = kv.dm[c]] /\ (kv.channel[c] = None \/ faults' # 0) /\ Then("second")
  <2>1. kv' \in Store /\ Accounted' /\ kv'.dm = kv.dm /\ kv'.channel[c] # None
    BY <1>2, <1>3, <1>6, ChannelWritten
  <2>2. Prepared'
    BY <1>1, <1>6, <2>1 DEF Then, Prepared, Current
  <2>3. PhaseKeys(phase)' = PhaseKeys(phase)
    BY <1>1, <1>6, <2>1 DEF PhaseKeys, Keys, Then
  <2>. QED  BY <1>1, <1>3, <1>6, <2>1, <2>2, <2>3, KeyContinued DEF IInv, Visiting
<1>. QED  BY <1>3, <1>4, <1>5, <1>6 DEF DmUnify

LEMMA DmReverseStep == ASSUME IInv, DmReverse PROVE IInv'
<1>1. phase = "dms" /\ step = "second" /\ phase \in Phase /\ Then("delete")
  BY DEF DmReverse, Loop, Phase
<1>2. Current \in Channel /\ kv.dm[Current] \in Room
  BY <1>1, CurrentKey DEF Room
<1>3. Answered
  BY Answers DEF DmReverse
<1>4. kv' = kv \/ kv' = [kv EXCEPT !.room[kv.dm[Current]] = Current]
  BY DEF DmReverse
<1>5. kv' \in Store /\ Accounted' /\ PhaseKeys("dms")' = PhaseKeys("dms") /\ kv'.channel = kv.channel
  BY <1>1, <1>2, <1>3, <1>4, NothingWritten, RoomWritten DEF Phase, IInv, TypeOK, Store
<1>6. Prepared'
  BY <1>1, <1>5 DEF Then, Prepared, Current, IInv
<1>. QED  BY <1>1, <1>3, <1>5, <1>6, KeyContinued DEF IInv, Visiting, Then

LEMMA DmDeleteStep == ASSUME IInv, DmDelete PROVE IInv'
<1>. DEFINE c == Current
<1>1. phase = "dms" /\ step = "delete" /\ phase \in Phase /\ NextKey
  BY DEF DmDelete, Loop, Phase
<1>2. c \in Channel /\ kv.channel[c] # None
  BY <1>1, CurrentKey DEF IInv, Prepared
<1>3. Answered
  BY Answers DEF DmDelete
<1>4. CASE kv' = kv
  BY <1>1, <1>3, <1>4, NothingWritten, KeyDone DEF IInv, Visiting
<1>5. CASE kv' = [kv EXCEPT !.dm[c] = None]
  <2>1. /\ kv' \in Store
        /\ kv'.channel = kv.channel /\ kv'.room = kv.room /\ kv'.matrixDm = kv.matrixDm
        /\ kv'.dm = [kv.dm EXCEPT ![c] = None]
    BY <1>2, <1>5 DEF IInv, TypeOK, Store
  <2>2. kv'.dm[c] = None /\ \A d \in Channel \ {c} : kv'.dm[d] = kv.dm[d]
    BY <1>2, <2>1 DEF IInv, TypeOK, Store
  <2>3. faults' = 0 => faults = 0
    BY <1>3 DEF Answered, IInv, TypeOK
  <2>4. Accounted'
    BY <1>2, <1>3, <2>1, <2>2, <2>3 DEF IInv, Accounted, Answered, given
  <2>5. phase' = phase => batch \ {c} \subseteq PhaseKeys(phase)'
    BY <1>1, <2>1, <2>2 DEF IInv, TypeOK, Store, Visiting, PhaseKeys, Keys
  <2>. QED  BY <1>1, <1>3, <2>1, <2>4, <2>5, KeyDone
<1>. QED  BY <1>4, <1>5 DEF DmDelete

LEMMA MatrixDmUnifyStep == ASSUME IInv, MatrixDmUnify PROVE IInv'
<1>. DEFINE r == Current
<1>1. phase = "matrixDms" /\ step = "first" /\ phase \in Phase
  BY DEF MatrixDmUnify, Loop, Phase
<1>2. r \in RoomID /\ r \in Room /\ kv.matrixDm[r] \in Channel
  BY <1>1, CurrentKey DEF Room
<1>3. Answered
  BY Answers DEF MatrixDmUnify
<1>4. CASE UNCHANGED kv /\ NextKey
  BY <1>1, <1>3, <1>4, NothingWritten, KeyDone DEF IInv, Visiting
<1>5. CASE /\ \/ kv' = kv /\ kv.room[r] # None
              \/ kv' = [kv EXCEPT !.room[r] = kv.matrixDm[r]]
           /\ Then("delete")
  <2>1. kv' \in Store /\ Accounted' /\ PhaseKeys("matrixDms")' = PhaseKeys("matrixDms") /\ kv'.room[r] # None
    BY <1>1, <1>2, <1>3, <1>5, NothingWritten, RoomWritten DEF Phase
  <2>2. Prepared'
    BY <1>1, <1>5, <2>1 DEF Then, Prepared, Current
  <2>. QED  BY <1>1, <1>3, <1>5, <2>1, <2>2, KeyContinued DEF IInv, Visiting, Then
<1>. QED  BY <1>4, <1>5 DEF MatrixDmUnify

LEMMA MatrixDmDeleteStep == ASSUME IInv, MatrixDmDelete PROVE IInv'
<1>. DEFINE r == Current
<1>1. phase = "matrixDms" /\ step = "delete" /\ phase \in Phase /\ NextKey
  BY DEF MatrixDmDelete, Loop, Phase
<1>2. r \in RoomID /\ kv.room[r] # None
  BY <1>1, CurrentKey DEF IInv, Prepared
<1>3. Answered
  BY Answers DEF MatrixDmDelete
<1>4. CASE kv' = kv
  BY <1>1, <1>3, <1>4, NothingWritten, KeyDone DEF IInv, Visiting
<1>5. CASE kv' = [kv EXCEPT !.matrixDm[r] = None]
  <2>1. /\ kv' \in Store
        /\ kv'.channel = kv.channel /\ kv'.room = kv.room /\ kv'.dm = kv.dm
        /\ kv'.matrixDm = [kv.matrixDm EXCEPT ![r] = None]
    BY <1>2, <1>5 DEF IInv, TypeOK, Store
  <2>2. kv'.matrixDm[r] = None /\ \A d \in RoomID \ {r} : kv'.matrixDm[d] = kv.matrixDm[d]
    BY <1>2, <2>1 DEF IInv, TypeOK, Store
  <2>3. faults' = 0 => faults = 0
    BY <1>3 DEF Answered, IInv, TypeOK
  <2>4. Accounted'
    BY <1>2, <1>3, <2>1, <2>2, <2>3 DEF IInv, Accounted, Answered, given
  <2>5. phase' = phase => batch \ {r} \subseteq PhaseKeys(phase)'
    BY <1>1, <2>1, <2>2 DEF IInv, TypeOK, Store, Visiting, PhaseKeys, Keys
  <2>. QED  BY <1>1, <1>3, <2>1, <2>4, <2>5, KeyDone
<1>. QED  BY <1>4, <1>5 DEF MatrixDmDelete

-----------------------------------------------------------------------------
(* The steps of no key. *)

\* A run begins, or a loop or the run ends, or its next page is listed: the
\* store is as it was.
LEMMA BeginFacts ==
    ASSUME IInv, NEW p \in Phase, NEW b \in BOOLEAN, runs < MaxRun, Begin(p, b),
           version' \in 0..2, faults' \in {faults, faults + 1}, faults' \in 0..MaxFault
    PROVE  IInv'
<1>1. runs' \in 0..MaxRun
  BY Bounds DEF Begin, IInv, TypeOK
<1>2. kv' = kv /\ original' = original
  BY DEF Begin
<1>3. others' \in [Phase -> Nat]
  BY OtherKeysAssumption DEF Begin
<1>4. promise' \in [Phase -> SUBSET (MatrixUser \cup Channel \cup RoomID)]
  <2>1. \A q \in Phase : WithinReach(q)' \subseteq MatrixUser \cup Channel \cup RoomID
    BY <1>2 DEF WithinReach, PhaseKeys, Keys, Phase, IInv, TypeOK, Store
  <2>2. promise' = [q \in Phase |-> WithinReach(q)']
    BY DEF Begin
  <2>. QED  BY <2>1, <2>2
<1>5. TypeOK'
  BY <1>1, <1>2, <1>3, <1>4 DEF Begin, IInv, TypeOK
<1>6. Visiting' /\ Prepared'
  BY DEF Begin, Visiting, Prepared
<1>7. faults' = 0 => faults = 0
  BY DEF IInv, TypeOK
<1>8. Accounted'
  BY <1>2, <1>7 DEF IInv, Accounted
<1>. QED  BY <1>5, <1>6, <1>8 DEF IInv

LEMMA ActivateStep == ASSUME IInv, Activate PROVE IInv'
<1>1. runs < MaxRun /\ UNCHANGED version
  BY DEF Activate
<1>2. /\ version' \in 0..2 /\ faults' \in {faults, faults + 1} /\ faults' \in 0..MaxFault
  <2>1. faults \in 0..MaxFault /\ version \in 0..2
    BY DEF IInv, TypeOK
  <2>2. faults' = faults \/ (faults < MaxFault /\ faults' = faults + 1)
    BY DEF Activate
  <2>. QED  BY <1>1, <2>1, <2>2, Bounds
<1>3. Begin("users", TRUE) \/ Begin("dms", FALSE)
  BY DEF Activate
<1>4. {"users", "dms"} \subseteq Phase /\ {TRUE, FALSE} \subseteq BOOLEAN
  BY DEF Phase
<1>. QED  BY <1>1, <1>2, <1>3, <1>4, BeginFacts

LEMMA MigrateCommandStep == ASSUME IInv, MigrateCommand PROVE IInv'
<1>1. runs < MaxRun /\ Begin("users", TRUE)
  BY DEF MigrateCommand
<1>2. version' \in 0..2 /\ faults' \in {faults, faults + 1} /\ faults' \in 0..MaxFault
  BY DEF MigrateCommand, IInv, TypeOK
<1>3. "users" \in Phase /\ TRUE \in BOOLEAN
  BY DEF Phase
<1>. QED  BY <1>1, <1>2, <1>3, BeginFacts

LEMMA ListStep == ASSUME IInv, List PROVE IInv'
<1>. DEFINE keys == Page(phase, page)
<1>1. phase \in Phase /\ step = "list" /\ kv' = kv /\ NoFault /\ UNCHANGED <<version, given>>
  BY DEF List
<1>2. Answered
  BY <1>1, Answers
<1>3. Accounted'
  BY <1>1, <1>2, NothingWritten
<1>4. keys \subseteq PhaseKeys(phase)
  BY DEF Page
<1>5. PhaseKeys(phase) \subseteq MatrixUser \cup Channel \cup RoomID
  BY <1>1 DEF PhaseKeys, Keys, Phase, IInv, TypeOK, Store
<1>6. PhaseAfter(phase) \in Phase \cup {"version"}
  BY <1>1 DEF Phase, PhaseAfter
<1>7. CASE keys = {}
  <2>1. phase' = PhaseAfter(phase) /\ page' = 0 /\ UNCHANGED <<step, batch, lastPage>>
    BY <1>7 DEF List
  <2>2. TypeOK'
    BY <1>1, <1>2, <1>6, <2>1 DEF IInv, TypeOK, Answered, given
  <2>3. Visiting' /\ Prepared'
    BY <1>1, <2>1 DEF Visiting, Prepared
  <2>. QED  BY <1>3, <2>2, <2>3 DEF IInv
<1>8. CASE keys # {}
  <2>1. batch' = keys /\ step' = "first" /\ lastPage' = (Cardinality(keys) < BatchSize) /\ UNCHANGED <<phase, page>>
    BY <1>8 DEF List
  <2>2. lastPage' \in BOOLEAN
    BY <2>1
  <2>. HIDE DEF keys
  <2>3. TypeOK'
    BY <1>1, <1>2, <1>4, <1>5, <2>1, <2>2 DEF IInv, TypeOK, Answered, given
  <2>4. PhaseKeys(phase)' = PhaseKeys(phase)
    BY <1>1, <2>1 DEF PhaseKeys, Keys
  <2>5. Visiting' /\ Prepared'
    BY <1>4, <1>8, <2>1, <2>4 DEF Visiting, Prepared
  <2>. QED  BY <1>3, <2>3, <2>5 DEF IInv
<1>. QED  BY <1>7, <1>8

LEMMA EndStep == ASSUME IInv, ListFails \/ SetVersion \/ Crash PROVE IInv'
<1>1. phase' = "idle" /\ (NoFault \/ Fault) /\ version' \in {version, 2}
      /\ UNCHANGED <<kv, step, page, batch, lastPage, given>>
  BY DEF ListFails, SetVersion, Crash
<1>2. faults' \in 0..MaxFault /\ clean' \in BOOLEAN /\ (faults' = 0 => faults = 0)
  <2>1. /\ faults \in 0..MaxFault /\ clean \in BOOLEAN
        /\ \/ faults' = faults /\ clean' = clean
           \/ faults < MaxFault /\ faults' = faults + 1 /\ clean' = FALSE
    BY <1>1 DEF IInv, TypeOK, NoFault, Fault
  <2>2. faults' \in 0..MaxFault /\ (faults' = 0 => faults = 0)
    BY <2>1, Bounds
  <2>. QED  BY <2>1, <2>2
<1>3. TypeOK'
  BY <1>1, <1>2 DEF IInv, TypeOK, given
<1>4. Visiting' /\ Prepared'
  BY <1>1 DEF Visiting, Prepared, Phase
<1>5. Accounted'
  BY <1>1, <1>2 DEF IInv, Accounted, given
<1>. QED  BY <1>3, <1>4, <1>5 DEF IInv

LEMMA StutterStep == ASSUME IInv, UNCHANGED vars PROVE IInv'
<1>1. TypeOK'
  BY DEF vars, runVars, given, IInv, TypeOK
<1>2. PhaseKeys(phase)' = PhaseKeys(phase)
  BY DEF vars, runVars, PhaseKeys, Keys
<1>3. Visiting'
  BY <1>2 DEF vars, runVars, IInv, Visiting
<1>4. Prepared' /\ Accounted'
  BY DEF vars, runVars, given, IInv, Prepared, Accounted, Current
<1>. QED  BY <1>1, <1>3, <1>4 DEF IInv

-----------------------------------------------------------------------------
(* The theorems. *)

LEMMA Invariant == Spec => []IInv
<1>1. Init => IInv
  <2>. SUFFICES ASSUME Init  PROVE IInv
    OBVIOUS
  <2>1. kv \in Store /\ original = kv
    BY LegacyStoresAssumption DEF Init
  <2>2. TypeOK
    <3>1. version \in 0..2 /\ page \in Nat /\ faults \in 0..MaxFault /\ runs \in 0..MaxRun
      BY Bounds DEF Init
    <3>2. clean \in BOOLEAN /\ lastPage \in BOOLEAN /\ phase \in Phase \cup {"version", "idle"}
      BY DEF Init
    <3>3. others \in [Phase -> Nat] /\ promise \in [Phase -> SUBSET (MatrixUser \cup Channel \cup RoomID)]
      BY OtherKeysAssumption DEF Init
    <3>. QED  BY <2>1, <3>1, <3>2, <3>3 DEF Init, TypeOK
  <2>3. Visiting /\ Prepared
    BY DEF Init, Visiting, Prepared, Phase
  <2>4. Accounted
    BY <2>1 DEF Accounted
  <2>. QED  BY <2>2, <2>3, <2>4 DEF IInv
<1>2. IInv /\ [Next]_vars => IInv'
  BY ActivateStep, MigrateCommandStep, ListStep, EndStep, StutterStep, UserReverseStep, ChannelReverseStep,
     ChannelRoomIDStep, DmUnifyStep, DmReverseStep, DmDeleteStep, MatrixDmUnifyStep, MatrixDmDeleteStep
  DEF Next, KeyStep
<1>. QED  BY <1>1, <1>2, PTL DEF Spec

\* The store keeps its shape and the loops their places, whatever fails.
THEOREM MigrationsTypeOK == Spec => []TypeOK
BY Invariant, PTL DEF IInv

\* Wherever a run fails or dies, no DM channel loses its room and no DM room
\* its channel; and without failures no mapping made by an administrator is
\* replaced by a legacy one.
THEOREM MigrationsMappingsKept == Spec => []MappingsKept
<1>1. ASSUME IInv  PROVE DmRoomKept
  BY <1>1 DEF IInv, TypeOK, Store, Accounted, DmRoomKept, Keys
<1>2. ASSUME IInv  PROVE DmChannelKept
  BY <1>2 DEF IInv, TypeOK, Store, Accounted, DmChannelKept, Keys
<1>3. ASSUME IInv  PROVE ChannelMappingsStay
  BY <1>3 DEF IInv, TypeOK, Store, Accounted, ChannelMappingsStay, Keys
<1>4. IInv => MappingsKept
  BY <1>1, <1>2, <1>3 DEF MappingsKept
<1>. QED  BY <1>4, Invariant, PTL
-----------------------------------------------------------------------------
(* CleanRun.  What was within reach of a run stays so until its loop comes *)
(* to it (Reach); what the loops over users and channels have passed       *)
(* (Past) is right, and stays so; what the loops over DMs have left of     *)
(* their first page is the rest of the batch.                              *)

Rank(keys, k) == Cardinality({j \in keys : j <= k})

\* The loop has visited the key k, or it was on an earlier page.
Past(k) == \/ Position(phase, k) <= page * BatchSize
           \/ /\ step # "list" /\ k \notin batch
              /\ Position(phase, k) <= (page + 1) * BatchSize

Paged == phase \in {"users", "channels"} /\ step # "list" /\ lastPage /\ Before(phase) = 0 =>
            \A k \in PhaseKeys(phase) : Position(phase, k) <= (page + 1) * BatchSize

UserRight(m) == LET u == kv.matrixUser[m] IN kv.user[u] # None /\ kv.matrixUser[kv.user[u]] = u
RoomRight(i) == kv.room[i] # None /\ NamesRoom(kv.room[i], i)
ChannelRight(c) == \A i \in Room : NamesRoom(c, i) => RoomRight(i)

\* The loops over DMs that have not listed their first page.
Ahead(p) == \/ phase \in {"users", "channels"}
            \/ p = "matrixDms" /\ phase = "dms"
            \/ phase = p /\ step = "list" /\ page = 0

\* A DM on its way has a unified mapping and its legacy one.
Shift == IF phase = "dms" /\ step \in {"second", "delete"} THEN 1 ELSE 0

Reach ==
    /\ promise["users"] \subseteq Keys(kv.matrixUser)
    /\ promise["channels"] \subseteq Keys(kv.channel)
    /\ phase = "users" => promise["users"] \subseteq WithinReach("users")
    /\ phase \in {"users", "channels"} => promise["channels"] \subseteq WithinReach("channels")
    /\ Ahead("dms") => promise["dms"] \subseteq WithinReach("dms")
    /\ Ahead("matrixDms") =>
          \A r \in promise["matrixDms"] : /\ r \in Keys(kv.matrixDm)
                                          /\ Position("matrixDms", r) <= BatchSize + Shift

UsersRight == \A m \in promise["users"] : (phase = "users" => Past(m)) => UserRight(m)
ChannelsRight ==
    /\ phase = "channels" => \A c \in promise["channels"] : Past(c) => ChannelRight(c)
    /\ phase = "channels" /\ step = "second" => RoomRight(kv.channel[Current])
    /\ phase \notin {"users", "channels"} => \A c \in promise["channels"] : ChannelRight(c)

\* What is left of the promised keys of a loop that moves its keys.
Left(p, keys) == /\ phase = p /\ step # "list" /\ page = 0 => keys \subseteq batch
                 /\ phase = p /\ page # 0 => keys = {}
DmsLeft == promise["dms"] \cap Keys(kv.dm)
MatrixDmsLeft == promise["matrixDms"] \cap Keys(kv.matrixDm)
DmsMoved == /\ Left("dms", DmsLeft)
            /\ phase \in {"matrixDms", "version", "idle"} => DmsLeft = {}
MatrixDmsMoved == /\ Left("matrixDms", MatrixDmsLeft)
                  /\ phase \in {"version", "idle"} => MatrixDmsLeft = {}

\* What a run can only have as long as no call has failed.
Right == Reach /\ UsersRight /\ ChannelsRight /\ DmsMoved /\ MatrixDmsMoved

CInv == Paged /\ (clean => Right)

\* The rank of a key.
LEMMA RankFacts ==
    ASSUME NEW keys \in SUBSET Nat, NEW k \in Nat
    PROVE  /\ IsFiniteSet({j \in keys : j <= k}) /\ Rank(keys, k) \in Nat
           /\ k \in keys => Rank(keys, k) >= 1
           /\ \A j \in Nat : j <= k => Rank(keys, j) <= Rank(keys, k)
<1>. DEFINE upTo(i) == {j \in keys : j <= i}
<1>1. \A i \in Nat : IsFiniteSet(upTo(i)) /\ Cardinality(upTo(i)) \in Nat
  <2>. TAKE i \in Nat
  <2>1. upTo(i) \in SUBSET Nat /\ \A j \in upTo(i) : j <= i
    OBVIOUS
  <2>. HIDE DEF upTo
  <2>. QED  BY <2>1, FS_BoundedSetOfNaturals, FS_CardinalityType
<1>2. ASSUME k \in keys  PROVE Cardinality(upTo(k)) >= 1
  <2>1. k \in upTo(k)
    BY <1>2
  <2>. HIDE DEF upTo
  <2>. QED  BY <1>1, <2>1, FS_EmptySet
<1>3. ASSUME NEW j \in Nat, j <= k  PROVE Cardinality(upTo(j)) <= Cardinality(upTo(k))
  <2>1. \A x \in keys : x \in Nat /\ (x <= j => x <= k)
    BY <1>3
  <2>2. upTo(j) \in SUBSET upTo(k)
    BY <2>1
  <2>. HIDE DEF upTo
  <2>. QED  BY <1>1, <2>2, FS_Subset
<1>. QED  BY <1>1, <1>2, <1>3 DEF Rank

LEMMA MaxOfNats ==
    ASSUME NEW S \in SUBSET Nat, S # {}, NEW n \in Nat, \A j \in S : j <= n
    PROVE  \E p \in S : \A j \in S : j <= p
<1>. DEFINE U == {x \in Nat : \A j \in S : j <= x}
<1>1. U \subseteq Nat /\ n \in U
  OBVIOUS
<1>2. PICK p \in U : \A x \in U : p <= x
  <2>. HIDE DEF U
  <2>. QED  BY <1>1, LeastOfNats
<1>3. p \in S
  <2>. SUFFICES ASSUME p \notin S  PROVE FALSE
    OBVIOUS
  <2>1. \A j \in S : j \in Nat /\ j <= p /\ j # p
    BY <1>2
  <2>2. p \in Nat /\ p # 0
    <3>1. PICK j \in S : j \in Nat /\ j <= p /\ j # p
      BY <2>1
    <3>2. p \in Nat
      BY <1>2
    <3>. QED  BY <3>1, <3>2
  <2>3. p - 1 \in U
    BY <2>1, <2>2
  <2>. QED  BY <1>2, <2>2, <2>3
<1>. QED  BY <1>2, <1>3

\* As many keys as m have ranks up to m, if there is one with a higher rank.
LEMMA Segment ==
    ASSUME NEW keys \in SUBSET Nat, NEW m \in Nat, NEW k \in keys, Rank(keys, k) > m
    PROVE  LET low == {j \in keys : Rank(keys, j) <= m}
           IN  IsFiniteSet(low) /\ Cardinality(low) = m
<1>. DEFINE high == {j \in keys : Rank(keys, j) > m}
            low == {j \in keys : Rank(keys, j) <= m}
<1>0. /\ \A j \in keys : j \in Nat /\ Rank(keys, j) \in Nat
      /\ \A i, j \in keys : j <= i => Rank(keys, j) <= Rank(keys, i)
  <2>1. \A i \in keys : i \in Nat
    OBVIOUS
  <2>. QED  BY <2>1, RankFacts
<1>1. high \subseteq Nat /\ high # {}
  OBVIOUS
<1>2. PICK h \in high : \A j \in high : h <= j
  <2>. HIDE DEF high
  <2>. QED  BY <1>1, LeastOfNats
<1>3. h \in keys /\ h \in Nat /\ Rank(keys, h) > m
  BY <1>2
<1>4. low = {j \in keys : j < h}
  <2>1. ASSUME NEW j \in keys, j < h  PROVE Rank(keys, j) <= m
    <3>1. j \notin high
      BY <1>0, <1>2, <1>3, <2>1
    <3>. QED  BY <1>0, <3>1
  <2>2. ASSUME NEW j \in keys, ~(j < h)  PROVE ~(Rank(keys, j) <= m)
    <3>1. Rank(keys, h) <= Rank(keys, j) /\ Rank(keys, h) \in Nat /\ Rank(keys, j) \in Nat
      BY <1>0, <1>3, <2>2
    <3>. QED  BY <1>3, <3>1
  <2>. QED  BY <2>1, <2>2
<1>5. low \in SUBSET Nat /\ h \notin low /\ {j \in keys : j <= h} = low \cup {h}
  <2>1. low \in SUBSET Nat
    BY <1>0
  <2>2. \A j \in keys : j <= h <=> j < h \/ j = h
    BY <1>0, <1>3
  <2>3. h \notin low
    BY <1>0, <1>3
  <2>4. {j \in keys : j <= h} = {j \in keys : j < h} \cup {h}
    BY <1>3, <2>2
  <2>. QED  BY <1>4, <2>1, <2>3, <2>4
<1>6. IsFiniteSet(low) /\ Cardinality(low) \in Nat
  <2>1. low \in SUBSET {j \in keys : j <= h}
    BY <1>5
  <2>. HIDE DEF low
  <2>. QED  BY <1>3, <2>1, RankFacts, FS_Subset, FS_CardinalityType
<1>7. Rank(keys, h) = Cardinality(low) + 1
  <2>. HIDE DEF low
  <2>. QED  BY <1>5, <1>6, FS_AddElement DEF Rank
<1>8. Cardinality(low) <= m
  <2>1. CASE low = {}
    <3>. HIDE DEF low
    <3>. QED  BY <2>1, FS_EmptySet
  <2>2. CASE low # {}
    <3>1. PICK p \in low : \A j \in low : j <= p
      <4>1. \A j \in low : j <= h
        BY <1>4
      <4>. HIDE DEF low
      <4>. QED  BY <1>3, <1>5, <2>2, <4>1, MaxOfNats
    <3>2. {j \in keys : j <= p} = low
      <4>1. p \in keys /\ p < h
        BY <1>4, <3>1
      <4>2. \A j \in keys : j <= p <=> j < h
        <5>1. ASSUME NEW j \in keys, j < h  PROVE j <= p
          BY <1>4, <3>1, <5>1
        <5>2. ASSUME NEW j \in keys, j <= p  PROVE j < h
          BY <1>0, <1>3, <4>1, <5>2
        <5>. QED  BY <5>1, <5>2
      <4>. QED  BY <1>4, <4>2
    <3>3. Rank(keys, p) <= m
      BY <3>1
    <3>. QED  BY <3>2, <3>3 DEF Rank
  <2>. QED  BY <2>1, <2>2
<1>. QED  BY <1>3, <1>6, <1>7, <1>8

\* A page of the keys themselves that is not full is the last: no key has a
\* rank beyond it.
RankPage(keys, n) == {k \in keys : n * BatchSize < Rank(keys, k) /\ Rank(keys, k) <= (n + 1) * BatchSize}

LEMMA LastPage ==
    ASSUME NEW keys \in SUBSET Nat, NEW n \in Nat, Cardinality(RankPage(keys, n)) < BatchSize
    PROVE  \A k \in keys : Rank(keys, k) <= (n + 1) * BatchSize
<1>. SUFFICES ASSUME NEW k \in keys, ~(Rank(keys, k) <= (n + 1) * BatchSize)  PROVE FALSE
  OBVIOUS
<1>. DEFINE N == n * BatchSize
            M == (n + 1) * BatchSize
            lowN == {j \in keys : Rank(keys, j) <= N}
            lowM == {j \in keys : Rank(keys, j) <= M}
<1>1. BatchSize \in Nat /\ N \in Nat /\ M \in Nat /\ M = N + BatchSize
  BY MigrationsAssumption
<1>2. k \in Nat /\ Rank(keys, k) \in Nat /\ \A j \in keys : j \in Nat /\ Rank(keys, j) \in Nat
  BY RankFacts
<1>3. \A j \in keys : Rank(keys, j) <= N => Rank(keys, j) <= M
  BY <1>1, <1>2
<1>4. lowN \subseteq lowM
  BY <1>3
<1>5. Rank(keys, k) > M /\ Rank(keys, k) > N
  BY <1>1, <1>2
<1>6. RankPage(keys, n) = lowM \ lowN
  <2>1. RankPage(keys, n) = {j \in keys : N < Rank(keys, j) /\ Rank(keys, j) <= M}
    BY DEF RankPage
  <2>2. \A j \in keys : N < Rank(keys, j) <=> ~(Rank(keys, j) <= N)
    BY <1>1, <1>2
  <2>. HIDE DEF N, M
  <2>. QED  BY <2>1, <2>2
<1>. HIDE DEF N, M
<1>7. IsFiniteSet(lowN) /\ Cardinality(lowN) = N /\ IsFiniteSet(lowM) /\ Cardinality(lowM) = M
  BY <1>1, <1>5, Segment
<1>. HIDE DEF lowN, lowM
<1>8. lowM \cap lowN = lowN
  BY <1>4
<1>9. Cardinality(RankPage(keys, n)) = M - N
  BY <1>6, <1>7, <1>8, FS_Difference
<1>. QED  BY <1>1, <1>9

-----------------------------------------------------------------------------
(* Where the keys are listed. *)

LEMMA KeysAreNats ==
    ASSUME IInv, NEW p \in Phase
    PROVE  PhaseKeys(p) \in SUBSET Nat
BY MigrationsAssumption DEF IInv, TypeOK, Store, Phase, PhaseKeys, Keys, Room

LEMMA LegacyKeys ==
    ASSUME IInv
    PROVE  /\ Keys(kv.matrixUser) \subseteq MatrixUser
           /\ Keys(kv.channel) \subseteq Channel /\ IsFiniteSet(Keys(kv.channel))
           /\ Keys(kv.dm) \subseteq Channel /\ IsFiniteSet(Keys(kv.dm))
           /\ Keys(kv.matrixDm) \subseteq RoomID /\ IsFiniteSet(Keys(kv.matrixDm))
<1>1. /\ Keys(kv.matrixUser) \in SUBSET MatrixUser /\ Keys(kv.channel) \in SUBSET Channel
      /\ Keys(kv.dm) \in SUBSET Channel /\ Keys(kv.matrixDm) \in SUBSET RoomID
  BY DEF IInv, TypeOK, Store, Keys
<1>. QED  BY <1>1, FS_Subset, MigrationsAssumption

LEMMA BeforeFacts ==
    ASSUME IInv, NEW p \in Phase
    PROVE  Before(p) \in Nat
<1>1. \A q \in {"channels", "dms", "matrixDms"} : Cardinality(PhaseKeys(q)) \in Nat
  BY LegacyKeys, FS_CardinalityType DEF PhaseKeys
<1>2. others[p] \in Nat
  BY DEF IInv, TypeOK
<1>. QED  BY <1>1, <1>2 DEF Before, Phase

LEMMA PositionFacts ==
    ASSUME IInv, NEW p \in Phase, NEW k \in PhaseKeys(p)
    PROVE  /\ Position(p, k) \in Nat /\ Position(p, k) >= 1
           /\ Position(p, k) = Before(p) + Rank(PhaseKeys(p), k)
<1>1. PhaseKeys(p) \in SUBSET Nat /\ Before(p) \in Nat
  BY KeysAreNats, BeforeFacts
<1>2. k \in Nat
  BY <1>1
<1>3. Rank(PhaseKeys(p), k) \in Nat /\ Rank(PhaseKeys(p), k) >= 1
  BY <1>1, <1>2, RankFacts
<1>. QED  BY <1>1, <1>3 DEF Position, Rank

\* The pages of a loop with nothing listed before it.
LEMMA LastListed ==
    ASSUME IInv, NEW p \in Phase, Before(p) = 0, NEW n \in Nat, Cardinality(Page(p, n)) < BatchSize
    PROVE  \A k \in PhaseKeys(p) : Position(p, k) <= (n + 1) * BatchSize
<1>1. PhaseKeys(p) \in SUBSET Nat
  BY KeysAreNats
<1>2. \A k \in PhaseKeys(p) : Position(p, k) = Rank(PhaseKeys(p), k)
  <2>. TAKE k \in PhaseKeys(p)
  <2>1. k \in Nat
    BY <1>1
  <2>2. Rank(PhaseKeys(p), k) \in Nat
    BY <1>1, <2>1, RankFacts
  <2>. QED  BY <2>2, PositionFacts
<1>3. Page(p, n) = RankPage(PhaseKeys(p), n)
  BY <1>2 DEF Page, RankPage
<1>. QED  BY <1>1, <1>2, <1>3, LastPage

\* A step that changes no key that is listed leaves everything in its place.
Listing == <<Keys(kv.matrixUser), Keys(kv.channel), Keys(kv.dm), Keys(kv.matrixDm)>>

LEMMA SamePlaces ==
    ASSUME Listing' = Listing, others' = others
    PROVE  \A p \in Phase : /\ PhaseKeys(p)' = PhaseKeys(p) /\ Before(p)' = Before(p)
                            /\ WithinReach(p)' = WithinReach(p)
                            /\ \A k : Position(p, k)' = Position(p, k)
<1>1. \A p \in Phase : PhaseKeys(p)' = PhaseKeys(p)
  BY DEF Listing, PhaseKeys, Phase
<1>2. \A p \in Phase : Before(p)' = Before(p)
  BY <1>1 DEF Before, Phase
<1>3. \A p \in Phase : \A k : Position(p, k)' = Position(p, k)
  BY <1>1, <1>2 DEF Position
<1>. QED  BY <1>1, <1>2, <1>3 DEF WithinReach

-----------------------------------------------------------------------------
(* What the loops have passed. *)

\* A promised key is on the first page, or nothing is listed before the loop's.
LEMMA Reached ==
    ASSUME IInv, phase \in {"users", "channels"}, NEW k \in WithinReach(phase)
    PROVE  /\ k \in PhaseKeys(phase)
           /\ Position(phase, k) \in Nat /\ Position(phase, k) >= 1
           /\ Before(phase) = 0 \/ \A n \in Nat : Position(phase, k) <= (n + 1) * BatchSize
<1>1. k \in PhaseKeys(phase) /\ (Before(phase) = 0 \/ Position(phase, k) <= BatchSize)
  BY DEF WithinReach
<1>2. Position(phase, k) \in Nat /\ Position(phase, k) >= 1
  BY <1>1, PositionFacts DEF Phase
<1>3. \A n \in Nat : BatchSize <= (n + 1) * BatchSize /\ (n + 1) * BatchSize \in Nat
  <2>. TAKE n \in Nat
  <2>1. BatchSize \in Nat
    BY MigrationsAssumption
  <2>2. n * BatchSize \in Nat /\ (n + 1) * BatchSize = n * BatchSize + BatchSize
    BY <2>1
  <2>. QED  BY <2>1, <2>2
<1>4. BatchSize \in Nat
  BY MigrationsAssumption
<1>. QED  BY <1>1, <1>2, <1>3, <1>4

\* The loop of the key's visit has passed that key, and no other in reach.
LEMMA Passed ==
    ASSUME IInv, Paged, phase \in {"users", "channels"}, step # "list", NextKey,
           Listing' = Listing, others' = others
    PROVE  /\ Paged'
           /\ \A k \in WithinReach(phase) : phase' # phase \/ Past(k)' => Past(k) \/ k = Current
<1>1. /\ PhaseKeys(phase)' = PhaseKeys(phase') /\ Before(phase)' = Before(phase')
      /\ \A k : Position(phase, k)' = Position(phase', k)
  <2>1. phase' \in Phase
    BY Goes DEF Phase, NextKey, PhaseAfter
  <2>. QED  BY <2>1, SamePlaces
<1>2. CASE batch \ {Current} # {}
  <2>1. step' = "first" /\ batch' = batch \ {Current} /\ UNCHANGED <<phase, page, lastPage>>
    BY <1>2 DEF NextKey
  <2>. QED  BY <1>1, <2>1 DEF Past, Paged
<1>3. CASE batch \ {Current} = {}
  <2>1. step' = "list"
    BY <1>3 DEF NextKey
  <2>2. Paged'
    BY <2>1 DEF Paged
  <2>3. ASSUME NEW k \in WithinReach(phase), phase' # phase \/ Past(k)'  PROVE Past(k) \/ k = Current
    <3>1. Position(phase, k) <= (page + 1) * BatchSize
      <4>1. CASE lastPage
        BY <4>1, Reached DEF Paged, IInv, TypeOK
      <4>2. CASE ~lastPage
        <5>1. page' = page + 1 /\ phase' = phase
          BY <1>3, <4>2 DEF NextKey
        <5>. QED  BY <1>1, <2>1, <2>3, <5>1 DEF Past
      <4>. QED  BY <4>1, <4>2
    <3>. QED  BY <1>3, <3>1 DEF Past
  <2>. QED  BY <2>2, <2>3
<1>. QED  BY <1>2, <1>3

\* A listing passes no key in reach.
LEMMA Listed ==
    ASSUME IInv, List
    PROVE  /\ Paged'
           /\ phase \in {"users", "channels"} =>
                 \A k \in WithinReach(phase) : phase' # phase \/ Past(k)' => Past(k)
<1>. DEFINE keys == Page(phase, page)
<1>1. phase \in Phase /\ step = "list" /\ kv' = kv /\ others' = others
  BY DEF List, given
<1>2. /\ PhaseKeys(phase)' = PhaseKeys(phase') /\ Before(phase)' = Before(phase')
      /\ \A k : Position(phase, k)' = Position(phase', k)
  BY <1>1 DEF PhaseKeys, Keys, Before, Position
<1>3. page \in Nat /\ BatchSize \in Nat \ {0} /\ page * BatchSize \in Nat
      /\ (page + 1) * BatchSize = page * BatchSize + BatchSize
  BY MigrationsAssumption DEF IInv, TypeOK
<1>4. PhaseAfter(phase) # phase
  BY <1>1 DEF PhaseAfter, Phase
<1>5. Before(phase) = 0 /\ Cardinality(keys) < BatchSize =>
         \A k \in PhaseKeys(phase) : Position(phase, k) <= (page + 1) * BatchSize
  BY <1>1, <1>3, LastListed
<1>6. CASE keys = {}
  <2>1. phase' = PhaseAfter(phase) /\ step' = "list"
    BY <1>1, <1>6 DEF List
  <2>2. Cardinality(keys) < BatchSize
    BY <1>3, <1>6, FS_EmptySet
  <2>3. ASSUME phase \in {"users", "channels"}, NEW k \in WithinReach(phase)
        PROVE  Position(phase, k) <= page * BatchSize
    <3>1. /\ k \in PhaseKeys(phase) /\ Position(phase, k) \in Nat
          /\ Before(phase) = 0 \/ Position(phase, k) <= (page + 1) * BatchSize
      BY <1>3, <2>3, Reached
    <3>2. ~(page * BatchSize < Position(phase, k) /\ Position(phase, k) <= (page + 1) * BatchSize)
      BY <1>6, <3>1 DEF Page
    <3>. QED  BY <1>3, <1>5, <2>2, <3>1, <3>2
  <2>. QED  BY <2>1, <2>3 DEF Past, Paged
<1>7. CASE keys # {}
  <2>1. batch' = keys /\ step' = "first" /\ lastPage' = (Cardinality(keys) < BatchSize) /\ UNCHANGED <<phase, page>>
    BY <1>7 DEF List
  <2>2. Paged'
    BY <1>2, <1>5, <2>1 DEF Paged
  <2>3. ASSUME NEW k \in PhaseKeys(phase), Past(k)'  PROVE Past(k)
    <3>1. \/ Position(phase, k) <= page * BatchSize
          \/ Position(phase, k) <= (page + 1) * BatchSize /\ k \notin keys
      BY <1>2, <2>1, <2>3 DEF Past
    <3>2. k \notin keys => ~(page * BatchSize < Position(phase, k) /\ Position(phase, k) <= (page + 1) * BatchSize)
      BY <2>3 DEF Page
    <3>3. Position(phase, k) \in Nat
      BY <1>1, <2>3, PositionFacts
    <3>4. Position(phase, k) <= page * BatchSize
      <4>. HIDE DEF keys
      <4>. QED  BY <1>3, <3>1, <3>2, <3>3
    <3>. QED  BY <3>4 DEF Past
  <2>. QED  BY <2>1, <2>2, <2>3 DEF WithinReach
<1>. QED  BY <1>6, <1>7

\* A loop that begins has passed nothing.
NonePassed == IInv /\ phase \in Phase /\ step = "list" /\ page = 0 => \A k \in PhaseKeys(phase) : ~Past(k)

LEMMA NothingPassed == NonePassed'
<1>1. NonePassed
  <2>1. page = 0 => page * BatchSize = 0
    BY MigrationsAssumption
  <2>. QED  BY <2>1, PositionFacts DEF NonePassed, Past
<1>. QED  BY <1>1, PTL

LEMMA NothingPassedYet ==
    ASSUME IInv', phase' \in Phase, step' = "list", page' = 0
    PROVE  \A k \in PhaseKeys(phase)' : ~Past(k)'
BY NothingPassed DEF NonePassed

-----------------------------------------------------------------------------
(* What stays. *)

LEMMA CleanStep == ASSUME NoFault \/ Fault, clean' PROVE NoFault /\ clean
BY DEF NoFault, Fault

\* After a failure there is nothing left to show.
LEMMA NotClean == ASSUME ~clean', phase' \notin {"users", "channels"} PROVE CInv'
BY DEF CInv, Paged

\* What is ahead stays within reach when no key that is listed changes.
LEMMA StillAhead ==
    ASSUME Reach, Listing' = Listing, others' = others, promise' = promise,
           phase' = "users" => phase = "users",
           phase' \in {"users", "channels"} => phase \in {"users", "channels"},
           Ahead("dms")' => Ahead("dms"), Ahead("matrixDms")' => Ahead("matrixDms"), Shift' = Shift
    PROVE  Reach'
<1>1. \A p \in Phase : /\ WithinReach(p)' = WithinReach(p)
                       /\ \A k : Position(p, k)' = Position(p, k)
  BY SamePlaces
<1>2. {"users", "channels", "dms", "matrixDms"} \subseteq Phase
  BY DEF Phase
<1>. QED  BY <1>1, <1>2 DEF Reach, Listing

\* The mappings in reach stay, and the loops over DMs come to what is ahead.
LEMMA ReachOfDms ==
    ASSUME Reach, promise' = promise, phase' \notin {"users", "channels"},
           Keys(kv.matrixUser)' = Keys(kv.matrixUser), Keys(kv.channel) \subseteq Keys(kv.channel)',
           ~Ahead("dms")',
           Ahead("matrixDms")' => \A r \in promise["matrixDms"] : /\ r \in Keys(kv.matrixDm)'
                                                                  /\ Position("matrixDms", r)' <= BatchSize + Shift'
    PROVE  Reach'
BY DEF Reach

\* The reverse mapping of a room leads back after a step that writes none, or
\* one that leads back, and changes the mapping of no channel that has one.
LEMMA RoomsStayRight ==
    ASSUME IInv, IInv',
           \A c \in Channel : kv.channel[c] # None => kv'.channel[c] = kv.channel[c],
           \A i \in Room : RoomRight(i) => \/ kv'.room[i] = kv.room[i]
                                           \/ kv'.room[i] \in Channel /\ NamesRoom(kv'.room[i], i)
    PROVE  /\ \A i \in Room : RoomRight(i) => RoomRight(i)'
           /\ \A c \in Channel : kv.channel[c] # None /\ ChannelRight(c) => ChannelRight(c)'
<1>1. \A c \in Channel, i \in Room : NamesRoom(c, i) => kv.channel[c] # None
  BY MigrationsAssumption DEF NamesRoom, Room
<1>2. ASSUME NEW i \in Room, RoomRight(i)  PROVE RoomRight(i)'
  <2>1. kv.room[i] \in Channel /\ NamesRoom(kv.room[i], i)
    BY <1>2 DEF IInv, TypeOK, Store, RoomRight
  <2>2. PICK c \in Channel : kv'.room[i] = c /\ NamesRoom(c, i)
    BY <1>2, <2>1
  <2>3. kv'.channel[c] = kv.channel[c]
    BY <1>1, <2>2
  <2>4. c # None
    BY MigrationsAssumption
  <2>. QED  BY <2>2, <2>3, <2>4 DEF RoomRight, NamesRoom
<1>3. ASSUME NEW c \in Channel, kv.channel[c] # None, ChannelRight(c)  PROVE ChannelRight(c)'
  BY <1>2, <1>3 DEF ChannelRight, NamesRoom
<1>. QED  BY <1>2, <1>3

LEMMA UsersStayRight ==
    ASSUME UsersRight, promise' = promise, phase # "users", phase' # "users",
           kv'.user = kv.user, kv'.matrixUser = kv.matrixUser
    PROVE  UsersRight'
BY DEF UsersRight, UserRight

\* The loops over users and channels leave the legacy mappings alone.
LEMMA DmsUntouched ==
    ASSUME phase' \in {"users", "channels"} \/ (phase' = "dms" /\ step' = "list" /\ page' = 0)
    PROVE  DmsMoved' /\ MatrixDmsMoved' /\ Shift' = 0
BY DEF DmsMoved, MatrixDmsMoved, Left, Shift

-----------------------------------------------------------------------------
(* One lemma for each action. *)

LEMMA UserReverseClean == ASSUME IInv, IInv', CInv, UserReverse PROVE CInv'
<1>1. phase = "users" /\ step = "first" /\ NextKey /\ (NoFault \/ Fault) /\ promise' = promise /\ others' = others
  BY DEF UserReverse, Loop, given
<1>2. PICK m \in MatrixUser : m = Current
  BY <1>1, CurrentKey DEF Phase
<1>3. PICK u \in User : u = kv.matrixUser[m]
  BY <1>1, <1>2, CurrentKey DEF Phase
<1>4. kv' = kv \/ kv' = [kv EXCEPT !.user[u] = m]
  BY <1>2, <1>3 DEF UserReverse
<1>5. /\ kv'.matrixUser = kv.matrixUser /\ kv'.channel = kv.channel
      /\ kv'.dm = kv.dm /\ kv'.matrixDm = kv.matrixDm
  BY <1>4 DEF IInv, TypeOK, Store
<1>6. Listing' = Listing
  BY <1>5 DEF Listing, Keys
<1>7. /\ Paged'
      /\ \A k \in WithinReach("users") : phase' # phase \/ Past(k)' => Past(k) \/ k = m
  BY <1>1, <1>2, <1>6, Passed DEF CInv
<1>8. phase' = "users" \/ (phase' = "channels" /\ step' = "list" /\ page' = 0)
  BY <1>1 DEF NextKey, PhaseAfter
<1>9. ASSUME clean'  PROVE Right'
  <2>1. clean /\ kv' = [kv EXCEPT !.user[u] = m]
    BY <1>1, <1>2, <1>3, <1>9, CleanStep DEF UserReverse, Fault
  <2>2. kv'.user[u] = m /\ \A v \in User \ {u} : kv'.user[v] = kv.user[v]
    BY <2>1 DEF IInv, TypeOK, Store
  <2>3. m # None
    BY MigrationsAssumption
  <2>4. promise["users"] \subseteq WithinReach("users") /\ promise["users"] \subseteq MatrixUser
        /\ promise["users"] \subseteq Keys(kv.matrixUser)
    BY <1>1, <2>1, LegacyKeys DEF CInv, Right, Reach
  <2>5. ASSUME NEW k \in promise["users"], phase' # "users" \/ Past(k)'  PROVE UserRight(k)'
    <3>1. k \in MatrixUser /\ kv.matrixUser[k] \in User
      BY <2>4 DEF Keys, IInv, TypeOK, Store
    <3>2. CASE kv.matrixUser[k] = u
      BY <1>3, <1>5, <2>2, <2>3, <3>2 DEF UserRight
    <3>3. CASE kv.matrixUser[k] # u
      <4>1. UserRight(k)
        BY <1>1, <1>3, <1>7, <2>1, <2>4, <2>5, <3>3 DEF CInv, Right, UsersRight
      <4>. QED  BY <1>5, <2>2, <3>1, <3>3, <4>1 DEF UserRight
    <3>. QED  BY <3>2, <3>3
  <2>6. UsersRight'
    BY <1>1, <2>5 DEF UsersRight
  <2>7. Reach'
    BY <1>1, <1>6, <1>8, <2>1, StillAhead DEF CInv, Right, Ahead, Shift
  <2>8. ChannelsRight'
    <3>1. step' \in {"list", "first"}
      BY <1>1 DEF NextKey
    <3>2. phase' = "channels" => \A c \in promise'["channels"] : ~Past(c)'
      <4>. SUFFICES ASSUME phase' = "channels"  PROVE \A c \in promise'["channels"] : ~Past(c)'
        OBVIOUS
      <4>1. phase' \in Phase /\ PhaseKeys(phase)' = Keys(kv.channel)'
        BY DEF Phase, PhaseKeys
      <4>. QED  BY <1>8, <2>7, <4>1, NothingPassedYet DEF Reach
    <3>. QED  BY <1>8, <3>1, <3>2 DEF ChannelsRight
  <2>. QED  BY <1>8, <2>6, <2>7, <2>8, DmsUntouched DEF Right
<1>. QED  BY <1>7, <1>9 DEF CInv

LEMMA ChannelReverseClean == ASSUME IInv, IInv', CInv, ChannelReverse PROVE CInv'
<1>1. /\ phase = "channels" /\ step = "first" /\ (NoFault \/ Fault) /\ promise' = promise /\ others' = others
      /\ Then("second") \/ NextKey
  BY DEF ChannelReverse, Loop, given
<1>2. PICK c \in Channel : c = Current
  BY <1>1, CurrentKey DEF Phase
<1>3. PICK i \in Room : i = kv.channel[c]
  BY <1>1, <1>2, CurrentKey DEF Phase
<1>4. kv' = kv \/ kv' = [kv EXCEPT !.room[i] = c]
  BY <1>2, <1>3 DEF ChannelReverse
<1>5. /\ kv'.matrixUser = kv.matrixUser /\ kv'.user = kv.user /\ kv'.channel = kv.channel
      /\ kv'.dm = kv.dm /\ kv'.matrixDm = kv.matrixDm
  BY <1>4 DEF IInv, TypeOK, Store
<1>6. Listing' = Listing
  BY <1>5 DEF Listing, Keys
<1>7. \A p \in Phase : /\ PhaseKeys(p)' = PhaseKeys(p) /\ Before(p)' = Before(p)
                       /\ \A k : Position(p, k)' = Position(p, k)
  BY <1>1, <1>6, SamePlaces
<1>8. Paged'
  <2>1. CASE NextKey
    BY <1>1, <1>6, <2>1, Passed DEF CInv
  <2>2. CASE Then("second")
    <3>1. step' = "second" /\ UNCHANGED <<phase, page, batch, lastPage>>
      BY <2>2 DEF Then
    <3>2. PhaseKeys(phase)' = PhaseKeys(phase) /\ Before(phase)' = Before(phase)
          /\ \A k : Position(phase, k)' = Position(phase, k)
      BY <1>1, <1>6, <3>1 DEF Listing, PhaseKeys, Before, Position
    <3>. QED  BY <1>1, <3>1, <3>2 DEF Paged, CInv
  <2>. QED  BY <1>1, <2>1, <2>2
<1>9. ASSUME clean'  PROVE Right'
  <2>1. clean /\ kv' = [kv EXCEPT !.room[i] = c] /\ Then("second")
    BY <1>1, <1>2, <1>3, <1>9, CleanStep DEF ChannelReverse, Fault
  <2>2. step' = "second" /\ UNCHANGED <<phase, page, batch, lastPage>>
    BY <2>1 DEF Then
  <2>3. kv'.room[i] = c /\ (\A r \in Room \ {i} : kv'.room[r] = kv.room[r]) /\ NamesRoom(c, i) /\ c # None
    BY <1>3, <2>1, MigrationsAssumption DEF IInv, TypeOK, Store, NamesRoom
  <2>4. \A d \in Channel : kv.channel[d] # None /\ ChannelRight(d) => ChannelRight(d)'
    BY <1>5, <2>3, RoomsStayRight
  <2>5. Reach'
    BY <1>1, <1>6, <2>1, <2>2, StillAhead DEF CInv, Right, Ahead, Shift
  <2>6. ChannelsRight'
    <3>1. ASSUME NEW d \in promise["channels"], Past(d)'  PROVE ChannelRight(d)'
      <4>1. Position(phase, d)' = Position(phase, d)
        BY <1>1, <1>7, <2>2 DEF Phase
      <4>2. Past(d)
        BY <1>1, <2>2, <3>1, <4>1 DEF Past
      <4>3. d \in Channel /\ kv.channel[d] # None
        BY <2>1, LegacyKeys DEF CInv, Right, Reach, Keys
      <4>. QED  BY <1>1, <2>1, <2>4, <4>2, <4>3 DEF CInv, Right, ChannelsRight
    <3>2. RoomRight(kv.channel[Current])'
      BY <1>2, <1>3, <1>5, <2>2, <2>3 DEF RoomRight, NamesRoom, Current
    <3>. QED  BY <1>1, <2>2, <3>1, <3>2 DEF ChannelsRight
  <2>7. UsersRight'
    BY <1>1, <1>5, <2>1, <2>2, UsersStayRight DEF CInv, Right
  <2>. QED  BY <1>1, <2>2, <2>5, <2>6, <2>7, DmsUntouched DEF Right
<1>. QED  BY <1>8, <1>9 DEF CInv

LEMMA ChannelRoomIDClean == ASSUME IInv, IInv', CInv, ChannelRoomID PROVE CInv'
<1>1. phase = "channels" /\ step = "second" /\ NextKey /\ (NoFault \/ Fault) /\ promise' = promise /\ others' = others
  BY DEF ChannelRoomID, Loop, given
<1>2. PICK c \in Channel : c = Current
  BY <1>1, CurrentKey DEF Phase
<1>3. PICK i \in Room : i = kv.channel[c]
  BY <1>1, <1>2, CurrentKey DEF Phase
<1>4. \/ kv' = kv
      \/ i \in Alias /\ kv' = [kv EXCEPT !.room[RoomOf[i]] = c]
  BY <1>2, <1>3 DEF ChannelRoomID
<1>5. /\ kv'.matrixUser = kv.matrixUser /\ kv'.user = kv.user /\ kv'.channel = kv.channel
      /\ kv'.dm = kv.dm /\ kv'.matrixDm = kv.matrixDm
  BY <1>4 DEF IInv, TypeOK, Store
<1>6. Listing' = Listing
  BY <1>5 DEF Listing, Keys
<1>7. /\ Paged'
      /\ \A k \in WithinReach("channels") : phase' # phase \/ Past(k)' => Past(k) \/ k = c
  BY <1>1, <1>2, <1>6, Passed DEF CInv
<1>8. (phase' = "channels" /\ step' # "second") \/ (phase' = "dms" /\ step' = "list" /\ page' = 0)
  BY <1>1 DEF NextKey, PhaseAfter
<1>9. ASSUME clean'  PROVE Right'
  <2>1. clean /\ (i \in Alias => kv' = [kv EXCEPT !.room[RoomOf[i]] = c]) /\ (i \notin Alias => kv' = kv)
    BY <1>1, <1>2, <1>3, <1>9, CleanStep DEF ChannelRoomID, Fault
  <2>2. i \in Alias => RoomOf[i] \in Room /\ kv'.room[RoomOf[i]] = c /\ NamesRoom(c, RoomOf[i])
    BY <1>3, <2>1, MigrationsAssumption DEF IInv, TypeOK, Store, NamesRoom, Room
  <2>3. \A r \in Room : kv'.room[r] = kv.room[r] \/ (i \in Alias /\ r = RoomOf[i])
    BY <2>1 DEF IInv, TypeOK, Store
  <2>4. /\ \A r \in Room : RoomRight(r) => RoomRight(r)'
        /\ \A d \in Channel : kv.channel[d] # None /\ ChannelRight(d) => ChannelRight(d)'
    BY <1>5, <2>2, <2>3, RoomsStayRight
  <2>5. ChannelRight(c)'
    <3>1. RoomRight(i)'
      BY <1>1, <1>2, <1>3, <2>1, <2>4 DEF CInv, Right, ChannelsRight
    <3>2. i \in Alias => RoomRight(RoomOf[i])'
      BY <1>5, <2>2, MigrationsAssumption DEF RoomRight, NamesRoom
    <3>. QED  BY <1>3, <1>5, <3>1, <3>2 DEF ChannelRight, NamesRoom
  <2>6. ASSUME NEW d \in promise["channels"], phase' # phase \/ Past(d)'  PROVE ChannelRight(d)'
    <3>1. d \in WithinReach("channels") /\ d \in Channel /\ kv.channel[d] # None
      BY <1>1, <2>1, LegacyKeys DEF CInv, Right, Reach, Keys
    <3>2. CASE d = c
      BY <2>5, <3>2
    <3>3. CASE d # c
      BY <1>1, <1>7, <2>1, <2>4, <2>6, <3>1, <3>3 DEF CInv, Right, ChannelsRight
    <3>. QED  BY <3>2, <3>3
  <2>7. ChannelsRight'
    BY <1>1, <1>8, <2>6 DEF ChannelsRight
  <2>8. UsersRight'
    BY <1>1, <1>5, <1>8, <2>1, UsersStayRight DEF CInv, Right
  <2>9. Reach'
    BY <1>1, <1>6, <1>8, <2>1, StillAhead DEF CInv, Right, Ahead, Shift
  <2>. QED  BY <1>8, <2>7, <2>8, <2>9, DmsUntouched DEF Right
<1>. QED  BY <1>7, <1>9 DEF CInv

\* The loops over DMs write no mapping but what is not there yet.
LEMMA DmWrites ==
    ASSUME IInv, IInv', CInv, clean, phase \in {"dms", "matrixDms"}, phase' \notin {"users", "channels"},
           promise' = promise, kv'.user = kv.user, kv'.matrixUser = kv.matrixUser,
           \A c \in Channel : kv.channel[c] # None => kv'.channel[c] = kv.channel[c],
           \A i \in Room : kv.room[i] # None => kv'.room[i] = kv.room[i],
           ~Ahead("dms")',
           Ahead("matrixDms")' => \A r \in promise["matrixDms"] : /\ r \in Keys(kv.matrixDm)'
                                                                  /\ Position("matrixDms", r)' <= BatchSize + Shift',
           DmsMoved', MatrixDmsMoved'
    PROVE  CInv'
<1>1. Paged'
  BY DEF Paged
<1>2. UsersRight'
  BY UsersStayRight DEF CInv, Right
<1>3. Reach'
  <2>1. Keys(kv.matrixUser)' = Keys(kv.matrixUser) /\ Keys(kv.channel) \subseteq Keys(kv.channel)'
    BY DEF Keys, IInv, TypeOK, Store
  <2>. QED  BY <2>1, ReachOfDms DEF CInv, Right
<1>4. ChannelsRight'
  <2>1. \A c \in Channel : kv.channel[c] # None /\ ChannelRight(c) => ChannelRight(c)'
    BY RoomsStayRight DEF RoomRight
  <2>2. \A c \in promise["channels"] : c \in Channel /\ kv.channel[c] # None
    BY LegacyKeys DEF CInv, Right, Reach, Keys
  <2>. QED  BY <2>1, <2>2 DEF CInv, Right, ChannelsRight
<1>. QED  BY <1>1, <1>2, <1>3, <1>4 DEF CInv, Right

\* The keys before the last loop's.
LEMMA BeforeMatrixDms ==
    \A r : Position("matrixDms", r) = others["matrixDms"] + (Cardinality(Keys(kv.channel)) + Cardinality(Keys(kv.dm)))
                                         + Cardinality({j \in Keys(kv.matrixDm) : j <= r})
BY DEF Position, Before, PhaseKeys

LEMMA BeforeMatrixDmsNext ==
    \A r : Position("matrixDms", r)' = others["matrixDms"]' + (Cardinality(Keys(kv.channel)') + Cardinality(Keys(kv.dm)'))
                                          + Cardinality({j \in Keys(kv.matrixDm)' : j <= r})
BY DEF Position, Before, PhaseKeys

\* A step of the first of these loops takes its key along by one at most.
LEMMA Shifted ==
    ASSUME IInv, others' = others, kv'.matrixDm = kv.matrixDm, NEW s \in 0..1, NEW t \in 0..1,
           Cardinality(Keys(kv.channel)') + Cardinality(Keys(kv.dm)') + s
              <= Cardinality(Keys(kv.channel)) + Cardinality(Keys(kv.dm)) + t,
           Cardinality(Keys(kv.channel)') \in Nat, Cardinality(Keys(kv.dm)') \in Nat,
           NEW r \in Keys(kv.matrixDm), Position("matrixDms", r) <= BatchSize + s
    PROVE  r \in Keys(kv.matrixDm)' /\ Position("matrixDms", r)' <= BatchSize + t
<1>. DEFINE up == Cardinality({j \in Keys(kv.matrixDm) : j <= r})
<1>1. Keys(kv.matrixDm)' = Keys(kv.matrixDm)
  BY DEF Keys
<1>2. up \in Nat
  <2>1. Keys(kv.matrixDm) \in SUBSET Nat /\ r \in Nat
    BY KeysAreNats DEF PhaseKeys, Phase
  <2>. QED  BY <2>1, RankFacts DEF Rank
<1>3. Cardinality(Keys(kv.channel)) \in Nat /\ Cardinality(Keys(kv.dm)) \in Nat /\ others["matrixDms"] \in Nat
      /\ BatchSize \in Nat
  BY LegacyKeys, FS_CardinalityType, MigrationsAssumption DEF IInv, TypeOK, Phase
<1>4. /\ Position("matrixDms", r) = others["matrixDms"] + (Cardinality(Keys(kv.channel)) + Cardinality(Keys(kv.dm))) + up
      /\ Position("matrixDms", r)' = others["matrixDms"] + (Cardinality(Keys(kv.channel)') + Cardinality(Keys(kv.dm)')) + up
  BY <1>1, BeforeMatrixDms, BeforeMatrixDmsNext
<1>. HIDE DEF up
<1>. QED  BY <1>1, <1>2, <1>3, <1>4

LEMMA OneMore ==
    ASSUME NEW S, NEW x, IsFiniteSet(S), Cardinality(S) \in Nat
    PROVE  IsFiniteSet(S \cup {x}) /\ Cardinality(S \cup {x}) <= Cardinality(S) + 1
<1>1. CASE x \in S
  <2>1. S \cup {x} = S
    BY <1>1
  <2>2. Cardinality(S \cup {x}) = Cardinality(S) /\ IsFiniteSet(S \cup {x})
    BY <2>1, Zenon
  <2>. QED  BY <2>2
<1>2. CASE x \notin S
  BY <1>2, FS_AddElement
<1>. QED  BY <1>1, <1>2

LEMMA DmUnifyClean == ASSUME IInv, IInv', CInv, DmUnify PROVE CInv'
<1>1. /\ phase = "dms" /\ step = "first" /\ (NoFault \/ Fault) /\ promise' = promise /\ others' = others
      /\ Then("second") \/ NextKey
  BY DEF DmUnify, Loop, given
<1>2. phase' \in {"dms", "matrixDms"}
  BY <1>1 DEF Then, NextKey, PhaseAfter
<1>3. CASE clean'
  <2>1. NoFault /\ clean
    BY <1>1, <1>3, CleanStep
  <2>2. PICK c \in Channel : c = Current
    BY <1>1, CurrentKey DEF Phase
  <2>3. kv' = (IF kv.channel[c] # None THEN kv ELSE [kv EXCEPT !.channel[c] = kv.dm[c]]) /\ Then("second")
    BY <1>3, <2>2 DEF DmUnify, Fault
  <2>4. /\ kv'.user = kv.user /\ kv'.matrixUser = kv.matrixUser /\ kv'.room = kv.room
        /\ kv'.dm = kv.dm /\ kv'.matrixDm = kv.matrixDm
        /\ \A d \in Channel : d # c \/ kv.channel[d] # None => kv'.channel[d] = kv.channel[d]
    BY <2>3 DEF IInv, TypeOK, Store
  <2>5. step' = "second" /\ UNCHANGED <<phase, page, batch, lastPage>>
    BY <2>3 DEF Then
  <2>6. DmsMoved' /\ MatrixDmsMoved'
    BY <1>1, <2>1, <2>4, <2>5 DEF CInv, Right, DmsMoved, MatrixDmsMoved, DmsLeft, MatrixDmsLeft, Left, Keys
  <2>7. /\ Keys(kv.dm)' = Keys(kv.dm) /\ Cardinality(Keys(kv.channel)') \in Nat
        /\ Cardinality(Keys(kv.channel)') <= Cardinality(Keys(kv.channel)) + 1
    <3>1. Keys(kv.channel)' \in SUBSET (Keys(kv.channel) \cup {c})
      BY <2>4 DEF Keys, IInv, TypeOK, Store
    <3>2. /\ IsFiniteSet(Keys(kv.channel) \cup {c})
          /\ Cardinality(Keys(kv.channel) \cup {c}) <= Cardinality(Keys(kv.channel)) + 1
      <4>1. IsFiniteSet(Keys(kv.channel)) /\ Cardinality(Keys(kv.channel)) \in Nat
        BY LegacyKeys, FS_CardinalityType
      <4>. QED  BY <4>1, OneMore
    <3>3. /\ Cardinality(Keys(kv.channel)') \in Nat /\ Cardinality(Keys(kv.channel) \cup {c}) \in Nat
          /\ Cardinality(Keys(kv.channel)) \in Nat
          /\ Cardinality(Keys(kv.channel)') <= Cardinality(Keys(kv.channel) \cup {c})
      BY <3>1, <3>2, LegacyKeys, FS_Subset, FS_CardinalityType
    <3>. QED  BY <2>4, <3>2, <3>3 DEF Keys
  <2>8. ASSUME NEW r \in promise["matrixDms"]
        PROVE  r \in Keys(kv.matrixDm)' /\ Position("matrixDms", r)' <= BatchSize + Shift'
    <3>1. r \in Keys(kv.matrixDm) /\ Position("matrixDms", r) <= BatchSize + 0
      BY <1>1, <2>1, <2>8 DEF CInv, Right, Reach, Ahead, Shift
    <3>2. Cardinality(Keys(kv.channel)) \in Nat /\ Cardinality(Keys(kv.dm)) \in Nat
      BY LegacyKeys, FS_CardinalityType
    <3>3. Cardinality(Keys(kv.channel)') + Cardinality(Keys(kv.dm)') + 0
             <= Cardinality(Keys(kv.channel)) + Cardinality(Keys(kv.dm)) + 1
      BY <2>7, <3>2
    <3>4. r \in Keys(kv.matrixDm)' /\ Position("matrixDms", r)' <= BatchSize + 1
      BY <1>1, <2>4, <2>7, <3>1, <3>2, <3>3, Shifted
    <3>. QED  BY <1>1, <2>5, <3>4 DEF Shift
  <2>9. ~Ahead("dms")'
    BY <1>1, <2>5 DEF Ahead
  <2>. QED  BY <1>1, <1>2, <2>1, <2>4, <2>6, <2>8, <2>9, DmWrites
<1>. QED  BY <1>2, <1>3, NotClean

LEMMA DmReverseClean == ASSUME IInv, IInv', CInv, DmReverse PROVE CInv'
<1>1. /\ phase = "dms" /\ step = "second" /\ (NoFault \/ Fault) /\ promise' = promise /\ others' = others
      /\ Then("delete")
  BY DEF DmReverse, Loop, given
<1>2. step' = "delete" /\ UNCHANGED <<phase, page, batch, lastPage>>
  BY <1>1 DEF Then
<1>3. CASE clean'
  <2>1. NoFault /\ clean
    BY <1>1, <1>3, CleanStep
  <2>2. PICK c \in Channel : c = Current
    BY <1>1, CurrentKey DEF Phase
  <2>3. PICK r \in Room : r = kv.dm[c]
    BY <1>1, <2>2, CurrentKey DEF Phase, Room
  <2>4. kv' = IF kv.room[r] # None THEN kv ELSE [kv EXCEPT !.room[r] = c]
    BY <1>3, <2>2, <2>3 DEF DmReverse, Fault
  <2>5. /\ kv'.user = kv.user /\ kv'.matrixUser = kv.matrixUser /\ kv'.channel = kv.channel
        /\ kv'.dm = kv.dm /\ kv'.matrixDm = kv.matrixDm
        /\ \A i \in Room : kv.room[i] # None => kv'.room[i] = kv.room[i]
    BY <2>4 DEF IInv, TypeOK, Store
  <2>6. DmsMoved' /\ MatrixDmsMoved'
    BY <1>1, <1>2, <2>1, <2>5 DEF CInv, Right, DmsMoved, MatrixDmsMoved, DmsLeft, MatrixDmsLeft, Left, Keys
  <2>7. Listing' = Listing /\ Shift' = Shift /\ "matrixDms" \in Phase
    BY <1>1, <1>2, <2>5 DEF Listing, Keys, Shift, Phase
  <2>8. \A r2 \in promise["matrixDms"] : r2 \in Keys(kv.matrixDm)' /\ Position("matrixDms", r2)' <= BatchSize + Shift'
    BY <1>1, <2>1, <2>7, SamePlaces DEF CInv, Right, Reach, Ahead, Listing
  <2>9. ~Ahead("dms")'
    BY <1>1, <1>2 DEF Ahead
  <2>. QED  BY <1>1, <1>2, <2>1, <2>5, <2>6, <2>8, <2>9, DmWrites
<1>. QED  BY <1>1, <1>2, <1>3, NotClean

\* What a loop that deletes its keys leaves of them.
LEMMA KeyDeleted ==
    ASSUME NEW p \in Phase, NEW keys, NEW rest, Loop(p, "delete"), NextKey, IInv,
           page = 0 => keys \subseteq batch, page # 0 => keys = {}, rest = keys \ {Current}
    PROVE  /\ phase' = p /\ step' # "list" /\ page' = 0 => rest \subseteq batch'
           /\ phase' = p /\ page' # 0 => rest = {}
           /\ phase' # p => rest = {}
           /\ phase' \in {p, PhaseAfter(p)}
           /\ phase' # p => page' = 0 /\ step' = "list"
           /\ step' # "list" \/ phase' # p \/ page' # 0
           /\ step' \in {"list", "first"}
<1>1. page + 1 # 0
  BY DEF IInv, TypeOK
<1>2. PhaseAfter(p) # p
  BY DEF PhaseAfter, Phase
<1>. QED  BY <1>1, <1>2 DEF NextKey, Loop

LEMMA DmDeleteClean == ASSUME IInv, IInv', CInv, DmDelete PROVE CInv'
<1>1. /\ phase = "dms" /\ step = "delete" /\ (NoFault \/ Fault) /\ promise' = promise /\ others' = others
      /\ NextKey /\ Loop("dms", "delete") /\ "dms" \in Phase
  BY DEF DmDelete, Loop, given, Phase
<1>2. phase' \in {"dms", "matrixDms"} /\ (phase' = "matrixDms" => page' = 0 /\ step' = "list")
  BY <1>1 DEF NextKey, PhaseAfter
<1>3. CASE clean'
  <2>1. NoFault /\ clean
    BY <1>1, <1>3, CleanStep
  <2>2. PICK c \in Channel : c = Current /\ c \in Keys(kv.dm)
    <3>1. Current \in Channel /\ kv.dm[Current] \in RoomID /\ DOMAIN kv.dm = Channel
      BY <1>1, CurrentKey DEF IInv, TypeOK, Store
    <3>2. None \notin RoomID
      BY MigrationsAssumption DEF Room
    <3>. QED  BY <3>1, <3>2 DEF Keys
  <2>3. kv' = [kv EXCEPT !.dm[c] = None]
    BY <1>3, <2>2 DEF DmDelete, Fault
  <2>4. /\ kv'.user = kv.user /\ kv'.matrixUser = kv.matrixUser /\ kv'.channel = kv.channel
        /\ kv'.room = kv.room /\ kv'.matrixDm = kv.matrixDm
    BY <2>3 DEF IInv, TypeOK, Store
  <2>5. Keys(kv.dm)' = Keys(kv.dm) \ {c} /\ Keys(kv.channel)' = Keys(kv.channel)
    BY <2>2, <2>3, <2>4 DEF IInv, TypeOK, Store, Keys
  <2>6. /\ page = 0 => DmsLeft \subseteq batch
        /\ page # 0 => DmsLeft = {}
    BY <1>1, <2>1 DEF CInv, Right, DmsMoved, Left
  <2>7. DmsLeft' = DmsLeft \ {Current}
    BY <1>1, <2>2, <2>5 DEF DmsLeft
  <2>8. DmsMoved' /\ ~Ahead("dms")' /\ Shift' = 0
    BY <1>1, <1>2, <2>6, <2>7, KeyDeleted DEF DmsMoved, Left, Ahead, Shift
  <2>9. MatrixDmsMoved'
    BY <1>2 DEF MatrixDmsMoved, Left
  <2>10. ASSUME NEW r \in promise["matrixDms"]
         PROVE  r \in Keys(kv.matrixDm)' /\ Position("matrixDms", r)' <= BatchSize + Shift'
    <3>1. r \in Keys(kv.matrixDm) /\ Position("matrixDms", r) <= BatchSize + 1
      BY <1>1, <2>1, <2>10 DEF CInv, Right, Reach, Ahead, Shift
    <3>2. /\ Cardinality(Keys(kv.channel)) \in Nat /\ Cardinality(Keys(kv.dm)) \in Nat
          /\ Cardinality(Keys(kv.dm)') \in Nat /\ Cardinality(Keys(kv.dm)') = Cardinality(Keys(kv.dm)) - 1
      BY <2>2, <2>5, LegacyKeys, FS_CardinalityType, FS_RemoveElement
    <3>3. Cardinality(Keys(kv.channel)') + Cardinality(Keys(kv.dm)') + 1
             <= Cardinality(Keys(kv.channel)) + Cardinality(Keys(kv.dm)) + 0
      BY <2>5, <3>2
    <3>4. r \in Keys(kv.matrixDm)' /\ Position("matrixDms", r)' <= BatchSize + 0
      BY <1>1, <2>4, <2>5, <3>1, <3>2, <3>3, Shifted
    <3>. QED  BY <2>8, <3>4
  <2>. QED  BY <1>1, <1>2, <2>1, <2>4, <2>8, <2>9, <2>10, DmWrites
<1>. QED  BY <1>2, <1>3, NotClean

LEMMA MatrixDmUnifyClean == ASSUME IInv, IInv', CInv, MatrixDmUnify PROVE CInv'
<1>1. /\ phase = "matrixDms" /\ step = "first" /\ (NoFault \/ Fault) /\ promise' = promise
      /\ Then("delete") \/ NextKey
  BY DEF MatrixDmUnify, Loop, given
<1>2. phase' \in {"matrixDms", "version"}
  BY <1>1 DEF Then, NextKey, PhaseAfter
<1>3. CASE clean'
  <2>1. NoFault /\ clean
    BY <1>1, <1>3, CleanStep
  <2>2. PICK r \in Room : r = Current
    BY <1>1, CurrentKey DEF Phase, Room
  <2>3. kv' = (IF kv.room[r] # None THEN kv ELSE [kv EXCEPT !.room[r] = kv.matrixDm[r]]) /\ Then("delete")
    BY <1>3, <2>2 DEF MatrixDmUnify, Fault
  <2>4. /\ kv'.user = kv.user /\ kv'.matrixUser = kv.matrixUser /\ kv'.channel = kv.channel
        /\ kv'.dm = kv.dm /\ kv'.matrixDm = kv.matrixDm
        /\ \A i \in Room : kv.room[i] # None => kv'.room[i] = kv.room[i]
    BY <2>3 DEF IInv, TypeOK, Store
  <2>5. step' = "delete" /\ UNCHANGED <<phase, page, batch, lastPage>>
    BY <2>3 DEF Then
  <2>6. DmsMoved' /\ MatrixDmsMoved'
    BY <1>1, <2>1, <2>4, <2>5 DEF CInv, Right, DmsMoved, MatrixDmsMoved, DmsLeft, MatrixDmsLeft, Left, Keys
  <2>7. ~Ahead("dms")' /\ ~Ahead("matrixDms")'
    BY <1>1, <2>5 DEF Ahead
  <2>. QED  BY <1>1, <1>2, <2>1, <2>4, <2>6, <2>7, DmWrites
<1>. QED  BY <1>2, <1>3, NotClean

LEMMA MatrixDmDeleteClean == ASSUME IInv, IInv', CInv, MatrixDmDelete PROVE CInv'
<1>1. /\ phase = "matrixDms" /\ step = "delete" /\ (NoFault \/ Fault) /\ promise' = promise
      /\ NextKey /\ Loop("matrixDms", "delete") /\ "matrixDms" \in Phase
  BY DEF MatrixDmDelete, Loop, given, Phase
<1>2. phase' \in {"matrixDms", "version"}
  BY <1>1 DEF NextKey, PhaseAfter
<1>3. CASE clean'
  <2>1. NoFault /\ clean
    BY <1>1, <1>3, CleanStep
  <2>2. PICK r \in RoomID : r = Current
    BY <1>1, CurrentKey DEF Phase
  <2>3. kv' = [kv EXCEPT !.matrixDm[r] = None]
    BY <1>3, <2>2 DEF MatrixDmDelete, Fault
  <2>4. /\ kv'.user = kv.user /\ kv'.matrixUser = kv.matrixUser /\ kv'.channel = kv.channel
        /\ kv'.room = kv.room /\ kv'.dm = kv.dm
    BY <2>3 DEF IInv, TypeOK, Store
  <2>5. MatrixDmsLeft' = MatrixDmsLeft \ {Current}
    <3>1. Keys(kv.matrixDm)' = Keys(kv.matrixDm) \ {r}
      BY <2>2, <2>3 DEF IInv, TypeOK, Store, Keys
    <3>. QED  BY <1>1, <2>2, <3>1 DEF MatrixDmsLeft
  <2>6. DmsMoved'
    BY <1>1, <1>2, <2>1, <2>4 DEF CInv, Right, DmsMoved, DmsLeft, Left, Keys
  <2>7. /\ page = 0 => MatrixDmsLeft \subseteq batch
        /\ page # 0 => MatrixDmsLeft = {}
    BY <1>1, <2>1 DEF CInv, Right, MatrixDmsMoved, Left
  <2>8. MatrixDmsMoved' /\ ~Ahead("dms")' /\ ~Ahead("matrixDms")'
    BY <1>1, <1>2, <2>5, <2>7, KeyDeleted DEF MatrixDmsMoved, Left, Ahead
  <2>. QED  BY <1>1, <1>2, <2>1, <2>4, <2>6, <2>8, DmWrites
<1>. QED  BY <1>2, <1>3, NotClean

-----------------------------------------------------------------------------
(* Listings, and runs that begin or end. *)

LEMMA ListedReach ==
    ASSUME IInv, Reach, List
    PROVE  Reach'
<1>1. phase \in Phase /\ step = "list" /\ kv' = kv /\ promise' = promise /\ others' = others
  BY DEF List, given
<1>2. Listing' = Listing
  BY <1>1 DEF Listing, Keys
<1>3. (phase' = phase /\ page' = page /\ step' = "first") \/ (phase' = PhaseAfter(phase) /\ page' = 0 /\ step' = "list")
  BY <1>1 DEF List
<1>4. Shift = 0 /\ Shift' = 0
  BY <1>1, <1>3 DEF Shift
<1>5. /\ phase' = "users" => phase = "users"
      /\ phase' \in {"users", "channels"} => phase \in {"users", "channels"}
      /\ Ahead("dms")' => Ahead("dms")
      /\ Ahead("matrixDms")' => Ahead("matrixDms")
  BY <1>1, <1>3 DEF Phase, PhaseAfter, Ahead
<1>. QED  BY <1>1, <1>2, <1>4, <1>5, StillAhead

\* The promised keys are on the first page, those of its loop's that it holds.
LEMMA DmsListed ==
    ASSUME IInv, Reach, DmsMoved, MatrixDmsMoved, List
    PROVE  DmsMoved' /\ MatrixDmsMoved'
<1>. DEFINE keys == Page(phase, page)
<1>1. phase \in Phase /\ step = "list" /\ kv' = kv /\ promise' = promise
  BY DEF List, given
<1>2. DmsLeft' = DmsLeft /\ MatrixDmsLeft' = MatrixDmsLeft
  BY <1>1 DEF DmsLeft, MatrixDmsLeft, Keys
<1>3. 0 * BatchSize = 0 /\ (0 + 1) * BatchSize = BatchSize
  BY MigrationsAssumption
<1>4. CASE phase \in {"users", "channels"}
  <2>1. phase' \in {"users", "channels"} \/ (phase' = "dms" /\ step' = "list" /\ page' = 0)
    BY <1>1, <1>4 DEF List, PhaseAfter
  <2>. QED  BY <2>1, DmsUntouched
<1>5. CASE phase = "dms"
  <2>1. MatrixDmsMoved'
    BY <1>5 DEF List, PhaseAfter, MatrixDmsMoved, Left
  <2>2. page = 0 => DmsLeft \subseteq keys
    <3>. SUFFICES ASSUME page = 0, NEW k \in DmsLeft  PROVE k \in keys
      OBVIOUS
    <3>1. k \in PhaseKeys("dms") /\ Position("dms", k) <= BatchSize
      BY <1>1, <1>5 DEF Reach, Ahead, WithinReach, DmsLeft
    <3>2. Position("dms", k) \in Nat /\ Position("dms", k) >= 1
      BY <1>1, <1>5, <3>1, PositionFacts
    <3>. QED  BY <1>3, <1>5, <3>1, <3>2 DEF Page
  <2>3. page # 0 => DmsLeft = {}
    BY <1>5 DEF DmsMoved, Left
  <2>4. CASE keys = {}
    BY <1>2, <1>5, <2>1, <2>2, <2>3, <2>4 DEF List, PhaseAfter, DmsMoved, Left
  <2>5. CASE keys # {}
    BY <1>1, <1>2, <1>5, <2>1, <2>2, <2>3, <2>5 DEF List, DmsMoved, Left
  <2>. QED  BY <2>4, <2>5
<1>6. CASE phase = "matrixDms"
  <2>1. phase' \in {"matrixDms", "version"}
    BY <1>6 DEF List, PhaseAfter
  <2>2. DmsMoved'
    BY <1>2, <1>6, <2>1 DEF DmsMoved, Left
  <2>3. page = 0 => MatrixDmsLeft \subseteq keys
    <3>. SUFFICES ASSUME page = 0, NEW k \in MatrixDmsLeft  PROVE k \in keys
      OBVIOUS
    <3>1. k \in PhaseKeys("matrixDms") /\ Position("matrixDms", k) <= BatchSize + 0
      BY <1>1, <1>6 DEF Reach, Ahead, Shift, MatrixDmsLeft, PhaseKeys
    <3>2. Position("matrixDms", k) \in Nat /\ Position("matrixDms", k) >= 1 /\ BatchSize \in Nat
      BY <1>1, <1>6, <3>1, PositionFacts, MigrationsAssumption
    <3>. QED  BY <1>3, <1>6, <3>1, <3>2 DEF Page
  <2>4. page # 0 => MatrixDmsLeft = {}
    BY <1>6 DEF MatrixDmsMoved, Left
  <2>5. CASE keys = {}
    BY <1>2, <1>6, <2>2, <2>3, <2>4, <2>5 DEF List, PhaseAfter, MatrixDmsMoved, Left
  <2>6. CASE keys # {}
    BY <1>1, <1>2, <1>6, <2>2, <2>3, <2>4, <2>6 DEF List, MatrixDmsMoved, Left
  <2>. QED  BY <2>5, <2>6
<1>. QED  BY <1>1, <1>4, <1>5, <1>6 DEF Phase

LEMMA ListClean == ASSUME IInv, IInv', CInv, List PROVE CInv'
<1>1. phase \in Phase /\ step = "list" /\ kv' = kv /\ promise' = promise /\ NoFault
  BY DEF List, given
<1>2. /\ Paged'
      /\ phase \in {"users", "channels"} => \A k \in WithinReach(phase) : phase' # phase \/ Past(k)' => Past(k)
  BY Listed
<1>3. (phase' = phase /\ step' = "first") \/ (phase' = PhaseAfter(phase) /\ page' = 0 /\ step' = "list")
  BY <1>1 DEF List
<1>4. ASSUME clean'  PROVE Right'
  <2>1. clean /\ Right
    BY <1>1, <1>4 DEF NoFault, CInv
  <2>2. Reach'
    BY <2>1, ListedReach DEF Right
  <2>3. UsersRight'
    <3>1. CASE phase = "users"
      BY <1>1, <1>2, <2>1, <3>1 DEF Right, Reach, UsersRight, UserRight
    <3>2. CASE phase # "users"
      <4>1. phase' # "users"
        BY <1>1, <1>3, <3>2 DEF Phase, PhaseAfter
      <4>. QED  BY <1>1, <2>1, <3>2, <4>1, UsersStayRight DEF Right
    <3>. QED  BY <3>1, <3>2
  <2>4. \A c \in promise["channels"] : ChannelRight(c)' <=> ChannelRight(c)
    BY <1>1 DEF ChannelRight, RoomRight, NamesRoom
  <2>5. ChannelsRight'
    <3>1. CASE phase = "users"
      <4>1. phase' = "users" \/ (phase' = "channels" /\ page' = 0 /\ step' = "list")
        BY <1>3, <3>1 DEF PhaseAfter
      <4>2. CASE phase' = "channels"
        <5>1. phase' \in Phase /\ PhaseKeys(phase)' = Keys(kv.channel)'
          BY <4>2 DEF Phase, PhaseKeys
        <5>2. step' = "list" /\ page' = 0
          BY <4>1, <4>2
        <5>3. \A c \in promise'["channels"] : ~Past(c)'
          BY <2>2, <5>1, <5>2, NothingPassedYet DEF Reach
        <5>. QED  BY <4>2, <5>2, <5>3 DEF ChannelsRight
      <4>. QED  BY <4>1, <4>2 DEF ChannelsRight
    <3>2. CASE phase = "channels"
      <4>1. \A c \in promise["channels"] : phase' # phase \/ Past(c)' => ChannelRight(c)'
        BY <1>2, <2>1, <2>4, <3>2 DEF Right, Reach, ChannelsRight
      <4>2. step' # "second"
        BY <1>3
      <4>. QED  BY <1>1, <3>2, <4>1, <4>2 DEF ChannelsRight
    <3>3. CASE phase \notin {"users", "channels"}
      <4>1. phase' \notin {"users", "channels"}
        BY <1>1, <1>3, <3>3 DEF Phase, PhaseAfter
      <4>. QED  BY <1>1, <2>1, <2>4, <3>3, <4>1 DEF Right, ChannelsRight
    <3>. QED  BY <3>1, <3>2, <3>3
  <2>6. DmsMoved' /\ MatrixDmsMoved'
    BY <2>1, DmsListed DEF Right
  <2>. QED  BY <2>2, <2>3, <2>5, <2>6 DEF Right
<1>. QED  BY <1>2, <1>4 DEF CInv

\* A run promises what is within reach of it.
LEMMA BeginClean == ASSUME IInv, IInv', CInv, Activate \/ MigrateCommand PROVE CInv'
<1>1. Begin("users", TRUE) \/ Begin("dms", FALSE)
  BY DEF Activate, MigrateCommand
<1>2. CASE Begin("users", TRUE)
  <2>1. phase' = "users" /\ step' = "list" /\ page' = 0
    BY <1>2 DEF Begin
  <2>2. \A p \in Phase : promise'[p] = WithinReach(p)'
    BY <1>2 DEF Begin
  <2>3. /\ promise'["users"] = WithinReach("users")' /\ promise'["channels"] = WithinReach("channels")'
        /\ promise'["dms"] = WithinReach("dms")' /\ promise'["matrixDms"] = WithinReach("matrixDms")'
    BY <2>2 DEF Phase
  <2>4. \A p \in Phase : WithinReach(p)' \subseteq PhaseKeys(p)'
    BY DEF WithinReach
  <2>5. \A r \in WithinReach("matrixDms")' : r \in Keys(kv.matrixDm)' /\ Position("matrixDms", r)' <= BatchSize + Shift'
    <3>1. \A r \in WithinReach("matrixDms")' : r \in Keys(kv.matrixDm)' /\ Position("matrixDms", r)' <= BatchSize
      BY DEF WithinReach, PhaseKeys
    <3>2. Shift' = 0 /\ BatchSize + 0 = BatchSize
      BY <2>1, MigrationsAssumption DEF Shift
    <3>. QED  BY <3>1, <3>2
  <2>6. Reach'
    <3>1. WithinReach("users")' \subseteq Keys(kv.matrixUser)' /\ WithinReach("channels")' \subseteq Keys(kv.channel)'
      BY DEF WithinReach, PhaseKeys
    <3>. QED  BY <2>3, <2>5, <3>1 DEF Reach
  <2>7. \A m \in promise'["users"] : ~Past(m)'
    BY <2>1, <2>3, <2>4, NothingPassedYet DEF Phase
  <2>8. Paged' /\ UsersRight' /\ ChannelsRight'
    BY <2>1, <2>7 DEF Paged, UsersRight, ChannelsRight
  <2>. QED  BY <2>1, <2>6, <2>8, DmsUntouched DEF CInv, Right
<1>3. CASE Begin("dms", FALSE)
  BY <1>3, NotClean DEF Begin
<1>. QED  BY <1>1, <1>2, <1>3

LEMMA EndClean == ASSUME IInv, IInv', CInv, ListFails \/ SetVersion \/ Crash PROVE CInv'
<1>1. /\ phase' = "idle" /\ kv' = kv /\ others' = others /\ promise' = promise /\ page' = page /\ step' = step
      /\ Fault \/ (phase = "version" /\ NoFault)
  BY DEF ListFails, SetVersion, Crash, given
<1>2. CASE Fault
  BY <1>1, <1>2, NotClean DEF Fault
<1>3. CASE phase = "version" /\ NoFault /\ clean
  <2>1. \A c \in promise["channels"] : ChannelRight(c)' <=> ChannelRight(c)
    BY <1>1 DEF ChannelRight, RoomRight, NamesRoom
  <2>2. ChannelsRight'
    BY <1>1, <1>3, <2>1 DEF CInv, Right, ChannelsRight
  <2>3. UsersRight'
    BY <1>1, <1>3, UsersStayRight DEF CInv, Right
  <2>4. DmsMoved' /\ MatrixDmsMoved' /\ Paged'
    BY <1>1, <1>3 DEF CInv, Right, DmsMoved, MatrixDmsMoved, DmsLeft, MatrixDmsLeft, Keys, Left, Paged
  <2>5. Reach'
    <3>1. Listing' = Listing /\ Shift' = Shift /\ ~Ahead("dms")' /\ ~Ahead("matrixDms")'
      BY <1>1, <1>3 DEF Listing, Keys, Shift, Ahead
    <3>. QED  BY <1>1, <1>3, <3>1, StillAhead DEF CInv, Right
  <2>. QED  BY <2>2, <2>3, <2>4, <2>5 DEF CInv, Right
<1>4. CASE NoFault /\ ~clean
  BY <1>1, <1>4, NotClean DEF NoFault
<1>. QED  BY <1>1, <1>2, <1>3, <1>4

LEMMA StutterClean == ASSUME CInv, UNCHANGED vars PROVE CInv'
<1>. USE DEF vars, runVars, given
<1>1. Listing' = Listing /\ Shift' = Shift /\ phase' = phase /\ others' = others /\ promise' = promise
      /\ (Ahead("dms")' <=> Ahead("dms")) /\ (Ahead("matrixDms")' <=> Ahead("matrixDms"))
  BY DEF Listing, Keys, Shift, Ahead
<1>2. /\ PhaseKeys(phase)' = PhaseKeys(phase) /\ Before(phase)' = Before(phase)
      /\ \A k : Position(phase, k)' = Position(phase, k)
  BY <1>1 DEF Listing, PhaseKeys, Before, Position
<1>3. \A k : Past(k)' <=> Past(k)
  BY <1>2 DEF Past
<1>4. Paged'
  BY <1>2 DEF CInv, Paged
<1>5. /\ \A i : RoomRight(i)' <=> RoomRight(i)
      /\ \A c : ChannelRight(c)' <=> ChannelRight(c)
      /\ \A m : UserRight(m)' <=> UserRight(m)
  BY DEF RoomRight, ChannelRight, UserRight, NamesRoom
<1>6. UsersRight => UsersRight'
  BY <1>3, <1>5 DEF UsersRight
<1>7. ChannelsRight => ChannelsRight'
  <2>1. Current' = Current
    BY DEF Current
  <2>2. RoomRight(kv.channel[Current]) => RoomRight(kv.channel[Current])'
    BY <2>1 DEF RoomRight, NamesRoom
  <2>. QED  BY <1>3, <1>5, <2>2 DEF ChannelsRight
<1>8. (DmsMoved => DmsMoved') /\ (MatrixDmsMoved => MatrixDmsMoved')
  BY DEF DmsMoved, MatrixDmsMoved, DmsLeft, MatrixDmsLeft, Keys, Left
<1>9. Reach => Reach'
  BY <1>1, StillAhead
<1>. QED  BY <1>4, <1>6, <1>7, <1>8, <1>9 DEF CInv, Right

LEMMA CleanInvariant == Spec => [](IInv /\ CInv)
<1>1. Init => CInv
  BY DEF Init, CInv, Paged
<1>2. IInv /\ IInv' /\ CInv /\ [Next]_vars => CInv'
  BY BeginClean, ListClean, EndClean, StutterClean, UserReverseClean, ChannelReverseClean, ChannelRoomIDClean,
     DmUnifyClean, DmReverseClean, DmDeleteClean, MatrixDmUnifyClean, MatrixDmDeleteClean
  DEF Next, KeyStep
<1>. QED  BY <1>1, <1>2, Invariant, PTL DEF Spec

\* After a run in which no call failed every reverse mapping that was within
\* reach of its paging leads back to an identifier that leads to it, and the
\* legacy DM mappings that were on the store's first page when it began are
\* gone, whatever runs have failed or died before.
THEOREM MigrationsCleanRun == Spec => []CleanRun
<1>1. ASSUME IInv, CInv  PROVE RoundTrip
  BY <1>1 DEF RoundTrip, Finished, CInv, Right, UsersRight, UserRight, ChannelsRight, ChannelRight, RoomRight
<1>2. ASSUME CInv  PROVE FirstDmsMoved
  BY <1>2 DEF FirstDmsMoved, Finished, CInv, Right, DmsMoved, MatrixDmsMoved, DmsLeft, MatrixDmsLeft
<1>3. IInv /\ CInv => CleanRun
  BY <1>1, <1>2 DEF CleanRun
<1>. QED  BY <1>3, CleanInvariant, PTL
=============================================================================
