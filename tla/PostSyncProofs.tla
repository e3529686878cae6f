--------------------------- MODULE PostSyncProofs ---------------------------
(***************************************************************************)
(* What reaches the room, for any posts, threads, files and texts, queue,  *)
(* workers and trackers, and any number of changes, faults and jobs at     *)
(* once: the types, and SentOnce.                                          *)
(*                                                                         *)
(* How often a post can still be sent is counted over the jobs: those that *)
(* have still to make its first event, with their repetitions in the bag,  *)
(* the events there are, and the job that a post without an event id will  *)
(* be given (SentBound).  A file is with the service, pending, in a job's  *)
(* hands or in the room (FileBound).  What a job holds keeps its meaning   *)
(* because events stay where they are (JobOK).                             *)
(***************************************************************************)
EXTENDS PostSync, FiniteSetTheorems, TLAPS

-----------------------------------------------------------------------------
(* The inductive invariant *)

In(x, S) == IF x \in S THEN 1 ELSE 0

\* The jobs of S, each as often as it is in bag B, and in the queue.
Copies(B, S) == {x \in (S \cap DOMAIN B) \X (Nat \ {0}) : x[2] <= B[x[1]]}
Places(q, S) == {i \in DOMAIN q : q[i] \in S}
Number(S) == Cardinality(Copies(running, S)) + Cardinality(Places(queue, S))

\* The jobs that have still to make the first event of p, and those that have
\* f still to send.
Senders(p) == {j \in JobRecord : j.post = p /\ j.what = "post" /\ Sends(j.copy) /\ j.main = 0}
Holders(f) == {j \in JobRecord : f \in j.files}
SenderCount(p) == Number(Senders(p))
HolderCount(f) == Number(Holders(f))

\* Post p has not been sent and no job is to send it: one will be.
Due(p) == posts[p].state = "none" \/ (Sends(posts[p]) /\ ~Sending(p))
DueCount(p) == IF Due(p) THEN 1 ELSE 0
MainEvents(p) == {e \in Event : e.post = p /\ e.kind \in {"text", "file"} /\ e.main}
MainCount(p) == Cardinality(Places(room, MainEvents(p)))
SentBound == \A p \in Post : MainCount(p) + SenderCount(p) + DueCount(p) <= 1 + again[p] + faults

\* File f has still to be uploaded.
Fresh(f) == \E p \in Post : /\ f \in FilesOf[p]
                            /\ \/ posts[p].state = "none"
                               \/ posts[p].state = "live" /\ f \in dirtyFiles
FreshCount(f) == IF Fresh(f) THEN 1 ELSE 0
Carriers(f) == {e \in Event : e.file = f}
FileCount(f) == Cardinality(Places(room, Carriers(f)))
FileBound == \A f \in File : FileCount(f) + HolderCount(f) + In(f, pending) + FreshCount(f) <= 1

\* Nothing is about a post that there is not.
Known == /\ \A j \in Unfinished : posts[j.post].state # "none"
         /\ \A p \in dirty \cup dirtyReact : posts[p].state # "none"
         /\ dirtyFiles \subseteq UNION {FilesOf[p] : p \in Post}

\* An event id that p is given is that of an event of p, or, if p is a Matrix
\* user's, of one that is nobody's here.
Names(p, e) == e # 0 => e \in DOMAIN room /\ room[e].post = IF p \in remote THEN NoPost ELSE p
PostsNamed == \A p \in Post : Names(p, posts[p].eid)

\* What a job holds at its place.
JobOK(j) ==
    /\ Names(j.post, j.copy.eid)
    /\ j.thread <= Len(room) /\ j.main <= Len(room)
    /\ j.src = "service" => j.what = "post"
    /\ j.pc = "begin" => j.main = 0 /\ j.thread = 0 /\ j.files = {}
    /\ j.pc \in {"text", "files", "store"} =>
          j.what = "post" /\ Sends(j.copy) /\ j.post \notin remote /\ Names(j.post, j.main)
    /\ j.pc = "text" => j.main = 0
    /\ j.pc = "store" => j.main # 0
    /\ j.pc \in {"track", "compare", "edit"} => j.copy.eid # 0
    /\ j.pc \in {"compare", "edit"} => j.post \notin remote
    /\ j.pc = "redact" /\ j.what = "post" => j.copy.state = "deleted"
    /\ j.pc \in {"find", "annotate"} => j.what # "post"
JobsOK == \A j \in Unfinished : JobOK(j)

\* Posts of Matrix users are not sent or edited.
RoomOK ==
    /\ \A i \in DOMAIN room : room[i].post \in remote => room[i].kind = "reaction"
    /\ \A i \in DOMAIN room : room[i].post = NoPost => ~room[i].edited

\* The jobs are finitely many.
GoroutinesOK ==
    /\ IsABag(running) /\ BagToSet(running) \subseteq JobRecord
    /\ queue \in Seq(JobRecord) /\ Len(queue) <= QueueSize
    /\ IsFiniteSet(Copies(running, JobRecord))

\* Types, in parts.
MattermostTyped ==
    /\ posts \in [Post -> Copy] /\ remote \subseteq Post /\ reacted \subseteq Post
    /\ dirty \subseteq Post /\ dirtyFiles \subseteq File /\ dirtyReact \subseteq Post
MatrixTyped == room \in Seq(Event) /\ \A i \in DOMAIN room : room[i].target < i
TrackersTyped ==
    /\ tracker \in [Post -> Nat] /\ Cardinality(Tracked(tracker)) <= MaxTracked
    /\ puts \in 0..(CleanupEvery - 1) /\ adds \in 0..(CleanupEvery - 1)
    /\ pending \subseteq File
HistoryTyped ==
    /\ said \in [Post -> Nat] /\ again \in [Post -> Nat] /\ raced \subseteq Post
    /\ changes \in Nat /\ faults \in Nat

Typed == MattermostTyped /\ MatrixTyped /\ TrackersTyped /\ HistoryTyped
World == Known /\ PostsNamed /\ RoomOK /\ JobsOK
IInv == Typed /\ GoroutinesOK /\ World /\ SentBound /\ FileBound

-----------------------------------------------------------------------------
(* Bags of jobs *)

LEMMA BagAdd ==
    ASSUME NEW B, IsABag(B), NEW j
    PROVE  /\ IsABag(B (+) SetToBag({j}))
           /\ DOMAIN (B (+) SetToBag({j})) = DOMAIN B \cup {j}
           /\ \A i \in DOMAIN B : i # j => (B (+) SetToBag({j}))[i] = B[i]
           /\ (B (+) SetToBag({j}))[j] = (IF j \in DOMAIN B THEN B[j] ELSE 0) + 1
<1>1. \A i \in DOMAIN B : B[i] \in Nat /\ B[i] > 0
  BY DEF IsABag
<1>2. PICK C : C = SetToBag({j})
  OBVIOUS
<1>3. DOMAIN C = {j} /\ C[j] = 1
  BY <1>2 DEF SetToBag
<1>4. PICK D : D = B (+) C
  OBVIOUS
<1>5. DOMAIN D = DOMAIN B \cup {j}
  BY <1>3, <1>4 DEF (+)
<1>6. \A i \in DOMAIN B : i # j => D[i] = B[i]
  BY <1>1, <1>3, <1>4 DEF (+)
<1>7. D[j] = (IF j \in DOMAIN B THEN B[j] ELSE 0) + 1
  BY <1>3, <1>4 DEF (+)
<1>8. D = [i \in DOMAIN D |-> D[i]]
  BY <1>4 DEF (+)
<1>9. \A i \in DOMAIN D : D[i] \in Nat /\ D[i] > 0
  BY <1>1, <1>5, <1>6, <1>7
<1>10. IsABag(D)
  BY <1>8, <1>9 DEF IsABag
<1>. QED  BY <1>2, <1>4, <1>5, <1>6, <1>7, <1>10

LEMMA BagRemove ==
    ASSUME NEW B, IsABag(B), NEW j \in DOMAIN B
    PROVE  /\ IsABag(B (-) SetToBag({j}))
           /\ \A i : i \in DOMAIN (B (-) SetToBag({j})) <=> i \in DOMAIN B /\ (i = j => B[j] > 1)
           /\ \A i \in DOMAIN B : i # j => (B (-) SetToBag({j}))[i] = B[i]
           /\ B[j] > 1 => (B (-) SetToBag({j}))[j] = B[j] - 1
<1>1. \A i \in DOMAIN B : B[i] \in Nat /\ B[i] > 0
  BY DEF IsABag
<1>2. PICK C : C = SetToBag({j})
  OBVIOUS
<1>3. DOMAIN C = {j} /\ C[j] = 1
  BY <1>2 DEF SetToBag
<1>4. PICK A : A = [e \in DOMAIN B |-> IF e \in DOMAIN C THEN B[e] - C[e] ELSE B[e]]
  OBVIOUS
<1>5. DOMAIN A = DOMAIN B /\ A[j] = B[j] - 1 /\ \A i \in DOMAIN B : i # j => A[i] = B[i]
  BY <1>3, <1>4
<1>6. PICK D : D = B (-) C
  OBVIOUS
<1>7. D = [e \in {d \in DOMAIN A : A[d] > 0} |-> A[e]]
  BY <1>4, <1>6 DEF (-)
<1>8. \A i : i \in DOMAIN D <=> i \in DOMAIN B /\ (i = j => B[j] > 1)
  BY <1>1, <1>5, <1>7
<1>9. (\A i \in DOMAIN B : i # j => D[i] = B[i]) /\ (B[j] > 1 => D[j] = B[j] - 1)
  BY <1>1, <1>5, <1>7
<1>10. IsABag(D)
  BY <1>1, <1>5, <1>7 DEF IsABag
<1>. QED  BY <1>2, <1>6, <1>8, <1>9, <1>10

LEMMA CopiesMember ==
    ASSUME NEW B, IsABag(B), NEW S, NEW j, NEW k
    PROVE  <<j, k>> \in Copies(B, S) <=> j \in S /\ j \in DOMAIN B /\ k \in Nat \ {0} /\ k <= B[j]
BY DEF Copies

LEMMA CopiesPairs ==
    ASSUME NEW B, NEW S, NEW x \in Copies(B, S)
    PROVE  x = <<x[1], x[2]>>
BY DEF Copies

\* What is added to a bag is there once more.
LEMMA CopiesAdd ==
    ASSUME NEW B, IsABag(B), NEW S, IsFiniteSet(Copies(B, S)), NEW j, NEW D, D = B (+) SetToBag({j})
    PROVE  /\ IsFiniteSet(Copies(D, S))
           /\ Cardinality(Copies(D, S)) = Cardinality(Copies(B, S)) + In(j, S)
<1>. DEFINE n == (IF j \in DOMAIN B THEN B[j] ELSE 0) + 1
<1>1. /\ IsABag(D)
      /\ DOMAIN D = DOMAIN B \cup {j}
      /\ \A i \in DOMAIN B : i # j => D[i] = B[i]
      /\ D[j] = n
  BY BagAdd
<1>2. \A i \in DOMAIN B : B[i] \in Nat /\ B[i] > 0
  BY DEF IsABag
<1>3. CASE j \in S
  <2>1. Copies(D, S) \subseteq Copies(B, S) \cup {<<j, n>>}
    <3>. SUFFICES ASSUME NEW x \in Copies(D, S), x # <<j, n>>  PROVE x \in Copies(B, S)
      OBVIOUS
    <3>1. PICK i, k : x = <<i, k>>
      BY CopiesPairs
    <3>2. i \in S /\ i \in DOMAIN D /\ k \in Nat \ {0} /\ k <= D[i]
      BY <1>1, <3>1, CopiesMember
    <3>3. i \in DOMAIN B /\ k <= B[i]
      <4>1. CASE i = j
        <5>1. k # n /\ k <= n
          BY <1>1, <3>1, <3>2, <4>1
        <5>. QED  BY <1>2, <3>2, <4>1, <5>1
      <4>2. CASE i # j
        BY <1>1, <3>2, <4>2
      <4>. QED  BY <4>1, <4>2
    <3>. QED  BY <3>1, <3>2, <3>3, CopiesMember
  <2>2. Copies(B, S) \subseteq Copies(D, S)
    <3>. SUFFICES ASSUME NEW x \in Copies(B, S)  PROVE x \in Copies(D, S)
      OBVIOUS
    <3>1. PICK i, k : x = <<i, k>>
      BY CopiesPairs
    <3>2. i \in S /\ i \in DOMAIN B /\ k \in Nat \ {0} /\ k <= B[i]
      BY <3>1, CopiesMember
    <3>3. i \in DOMAIN D /\ k <= D[i]
      BY <1>1, <1>2, <3>2
    <3>. QED  BY <1>1, <3>1, <3>2, <3>3, CopiesMember
  <2>3. <<j, n>> \in Copies(D, S) /\ <<j, n>> \notin Copies(B, S)
    <3>1. n \in Nat \ {0} /\ n <= D[j] /\ j \in DOMAIN D
      BY <1>1, <1>2
    <3>2. j \in DOMAIN B => ~ (n <= B[j])
      BY <1>2
    <3>3. <<j, n>> \in Copies(D, S)
      BY <1>1, <1>3, <3>1, CopiesMember
    <3>4. <<j, n>> \notin Copies(B, S)
      BY <3>2, CopiesMember
    <3>. QED  BY <3>3, <3>4
  <2>4. PICK x : x = <<j, n>>
    OBVIOUS
  <2>5. Copies(D, S) = Copies(B, S) \cup {x} /\ x \notin Copies(B, S)
    BY <2>1, <2>2, <2>3, <2>4
  <2>6. In(j, S) = 1
    BY <1>3 DEF In
  <2>. QED  BY <2>5, <2>6, FS_AddElement
<1>4. CASE j \notin S
  <2>1. Copies(D, S) = Copies(B, S)
    <3>1. ASSUME NEW i, NEW k  PROVE <<i, k>> \in Copies(D, S) <=> <<i, k>> \in Copies(B, S)
      <4>1. CASE i \in S
        <5>1. i # j
          BY <1>4, <4>1
        <5>2. (i \in DOMAIN D <=> i \in DOMAIN B) /\ (i \in DOMAIN B => D[i] = B[i])
          BY <1>1, <5>1
        <5>. QED  BY <1>1, <5>2, CopiesMember
      <4>2. CASE i \notin S
        BY <1>1, <4>2, CopiesMember
      <4>. QED  BY <4>1, <4>2
    <3>2. ASSUME NEW x \in Copies(D, S)  PROVE x \in Copies(B, S)
      BY <3>1, CopiesPairs
    <3>3. ASSUME NEW x \in Copies(B, S)  PROVE x \in Copies(D, S)
      BY <3>1, CopiesPairs
    <3>. QED  BY <3>2, <3>3
  <2>. QED  BY <1>4, <2>1, FS_CardinalityType DEF In
<1>. QED  BY <1>3, <1>4

\* What is taken from a bag is there once less.
LEMMA CopiesRemove ==
    ASSUME NEW B, IsABag(B), NEW S, IsFiniteSet(Copies(B, S)), NEW j \in DOMAIN B,
           NEW D, D = B (-) SetToBag({j})
    PROVE  /\ IsFiniteSet(Copies(D, S))
           /\ Cardinality(Copies(D, S)) = Cardinality(Copies(B, S)) - In(j, S)
<1>1. /\ IsABag(D)
      /\ \A i : i \in DOMAIN D <=> i \in DOMAIN B /\ (i = j => B[j] > 1)
      /\ \A i \in DOMAIN B : i # j => D[i] = B[i]
      /\ B[j] > 1 => D[j] = B[j] - 1
  BY BagRemove
<1>2. \A i \in DOMAIN B : B[i] \in Nat /\ B[i] > 0
  BY DEF IsABag
<1>3. ASSUME NEW i, NEW k
      PROVE  <<i, k>> \in Copies(D, S) <=> <<i, k>> \in Copies(B, S) /\ <<i, k>> # <<j, B[j]>>
  <2>1. CASE i = j
    <3>1. k \in Nat => (k <= B[j] /\ k # B[j] <=> k <= B[j] - 1)
      BY <1>2
    <3>2. k \in Nat \ {0} => (k <= B[j] - 1 => B[j] > 1)
      BY <1>2
    <3>3. <<j, k>> \in Copies(D, S) <=> j \in S /\ k \in Nat \ {0} /\ B[j] > 1 /\ k <= B[j] - 1
      <4>1. <<j, k>> \in Copies(D, S) <=> j \in S /\ j \in DOMAIN D /\ k \in Nat \ {0} /\ k <= D[j]
        BY <1>1, CopiesMember
      <4>2. j \in DOMAIN D <=> B[j] > 1
        BY <1>1
      <4>. QED  BY <1>1, <4>1, <4>2
    <3>4. <<i, k>> \in Copies(B, S) <=> j \in S /\ k \in Nat \ {0} /\ k <= B[j]
      BY <2>1, CopiesMember
    <3>. QED  BY <2>1, <3>1, <3>2, <3>3, <3>4
  <2>2. CASE i # j
    <3>1. (i \in DOMAIN D <=> i \in DOMAIN B) /\ (i \in DOMAIN B => D[i] = B[i])
      BY <1>1, <2>2
    <3>. QED  BY <1>1, <2>2, <3>1, CopiesMember
  <2>. QED  BY <2>1, <2>2
<1>4. Copies(D, S) = Copies(B, S) \ {<<j, B[j]>>}
  <2>1. ASSUME NEW x \in Copies(D, S)  PROVE x \in Copies(B, S) \ {<<j, B[j]>>}
    BY <1>3, CopiesPairs
  <2>2. ASSUME NEW x \in Copies(B, S), x # <<j, B[j]>>  PROVE x \in Copies(D, S)
    BY <1>3, <2>2, CopiesPairs
  <2>. QED  BY <2>1, <2>2
<1>5. <<j, B[j]>> \in Copies(B, S) <=> j \in S
  BY <1>2, CopiesMember
<1>6. CASE j \in S
  BY <1>4, <1>5, <1>6, FS_RemoveElement DEF In
<1>7. CASE j \notin S
  <2>1. Copies(D, S) = Copies(B, S)
    BY <1>4, <1>5, <1>7
  <2>. QED  BY <1>7, <2>1, FS_CardinalityType DEF In
<1>. QED  BY <1>6, <1>7

\* The copies of fewer jobs are finitely many as well.
LEMMA CopiesSubset ==
    ASSUME NEW B, NEW S, NEW T, S \subseteq T, IsFiniteSet(Copies(B, T))
    PROVE  IsFiniteSet(Copies(B, S)) /\ Cardinality(Copies(B, S)) \in Nat
<1>1. Copies(B, S) \subseteq Copies(B, T)
  BY DEF Copies
<1>2. IsFiniteSet(Copies(B, S))
  BY <1>1, FS_Subset
<1>. QED  BY <1>2, FS_CardinalityType

-----------------------------------------------------------------------------
(* Places in a sequence *)

LEMMA PlacesFinite ==
    ASSUME NEW T, NEW q \in Seq(T), NEW S
    PROVE  IsFiniteSet(Places(q, S)) /\ Cardinality(Places(q, S)) \in Nat
<1>1. PICK n : n = Len(q)
  OBVIOUS
<1>2. n \in Nat /\ Places(q, S) \subseteq 1..n
  BY <1>1 DEF Places
<1>3. Places(q, S) \in SUBSET Nat /\ \A i \in Places(q, S) : i <= n
  BY <1>2
<1>4. IsFiniteSet(Places(q, S))
  BY <1>2, <1>3, FS_BoundedSetOfNaturals
<1>. QED  BY <1>4, FS_CardinalityType

LEMMA PlacesAppend ==
    ASSUME NEW T, NEW q \in Seq(T), NEW x \in T, NEW S
    PROVE  Cardinality(Places(Append(q, x), S)) = Cardinality(Places(q, S)) + In(x, S)
<1>1. PICK n, r : n = Len(q) /\ r = Append(q, x)
  OBVIOUS
<1>2. /\ n \in Nat /\ DOMAIN q = 1..n /\ DOMAIN r = 1..(n + 1) /\ r[n + 1] = x
      /\ \A i \in 1..n : r[i] = q[i]
  BY <1>1
<1>3. PICK k : k = n + 1
  OBVIOUS
<1>4. DOMAIN r = DOMAIN q \cup {k} /\ r[k] = x /\ k \notin DOMAIN q
  BY <1>2, <1>3
<1>5. \A i \in DOMAIN q : r[i] = q[i]
  BY <1>2
<1>6. IsFiniteSet(Places(q, S))
  BY PlacesFinite
<1>. SUFFICES Cardinality(Places(r, S)) = Cardinality(Places(q, S)) + In(x, S)
  BY <1>1, Zenon
<1>7. CASE x \in S
  <2>1. Places(r, S) = Places(q, S) \cup {k} /\ k \notin Places(q, S)
    BY <1>4, <1>5, <1>7 DEF Places
  <2>2. In(x, S) = 1
    BY <1>7 DEF In
  <2>. QED  BY <1>6, <2>1, <2>2, FS_AddElement
<1>8. CASE x \notin S
  <2>1. Places(r, S) = Places(q, S)
    BY <1>4, <1>5, <1>8 DEF Places
  <2>2. In(x, S) = 0
    BY <1>8 DEF In
  <2>3. Cardinality(Places(q, S)) \in Nat
    BY <1>6, FS_CardinalityType
  <2>. QED  BY <2>1, <2>2, <2>3
<1>. QED  BY <1>7, <1>8

LEMMA PlacesTail ==
    ASSUME NEW T, NEW q \in Seq(T), q # <<>>, NEW r, r = Tail(q), NEW S
    PROVE  Cardinality(Places(r, S)) = Cardinality(Places(q, S)) - In(Head(q), S)
<1>1. PICK n : n = Len(q)
  OBVIOUS
<1>2. /\ n \in Nat \ {0} /\ DOMAIN q = 1..n /\ DOMAIN r = 1..(n - 1)
      /\ \A i \in 1..(n - 1) : r[i] = q[i + 1]
      /\ Head(q) = q[1]
  BY <1>1
<1>3. PICK one : one = 1
  OBVIOUS
<1>. DEFINE W == Places(q, S) \ {one}
            f == [i \in Places(r, S) |-> i + 1]
<1>4. IsFiniteSet(Places(q, S)) /\ IsFiniteSet(Places(r, S))
  <2>1. r \in Seq(T)
    OBVIOUS
  <2>. QED  BY <2>1, PlacesFinite
<1>5. f \in Bijection(Places(r, S), W)
  <2>1. \A i \in Places(r, S) : i \in 1..(n - 1) /\ i + 1 \in W
    BY <1>2, <1>3 DEF Places
  <2>2. \A i \in W : i - 1 \in Places(r, S) /\ i = (i - 1) + 1
    <3>. SUFFICES ASSUME NEW i \in W  PROVE i - 1 \in Places(r, S) /\ i = (i - 1) + 1
      OBVIOUS
    <3>1. i \in 1..n /\ i # 1 /\ q[i] \in S
      BY <1>2, <1>3 DEF Places
    <3>2. i - 1 \in 1..(n - 1) /\ i = (i - 1) + 1
      BY <1>2, <3>1
    <3>3. r[i - 1] = q[i]
      BY <1>2, <3>2
    <3>. QED  BY <1>2, <3>1, <3>2, <3>3 DEF Places
  <2>3. f \in [Places(r, S) -> W]
    BY <2>1
  <2>4. \A i, j \in Places(r, S) : f[i] = f[j] => i = j
    BY <2>1
  <2>5. \A i \in W : \E j \in Places(r, S) : f[j] = i
    BY <2>2
  <2>. QED  BY <2>3, <2>4, <2>5 DEF Bijection, Injection, Surjection, IsInjective
<1>6. Cardinality(W) = Cardinality(Places(r, S))
  BY <1>4, <1>5, FS_Bijection DEF ExistsBijection
<1>7. one \in Places(q, S) <=> Head(q) \in S
  BY <1>2, <1>3 DEF Places
<1>8. Cardinality(Places(q, S)) \in Nat
  BY <1>4, FS_CardinalityType
<1>9. CASE Head(q) \in S
  <2>1. In(Head(q), S) = 1
    BY <1>9 DEF In
  <2>. QED  BY <1>4, <1>6, <1>7, <1>9, <2>1, FS_RemoveElement
<1>10. CASE Head(q) \notin S
  <2>1. In(Head(q), S) = 0
    BY <1>10 DEF In
  <2>2. Cardinality(W) = Cardinality(Places(q, S))
    <3>1. W = Places(q, S)
      BY <1>7, <1>10
    <3>. QED  BY <3>1
  <2>. QED  BY <1>6, <1>8, <2>1, <2>2
<1>. QED  BY <1>9, <1>10

\* What replaces an element counts as the element did.
LEMMA PlacesSame ==
    ASSUME NEW q, NEW r, DOMAIN r = DOMAIN q, NEW S,
           \A i \in DOMAIN q : r[i] \in S <=> q[i] \in S
    PROVE  Places(r, S) = Places(q, S)
BY DEF Places

-----------------------------------------------------------------------------
(* Goroutines and the queue *)

\* A job has come, one has ended, one has become another.
Joined(j) ==
    /\ GoroutinesOK'
    /\ \A S \in SUBSET JobRecord : Number(S)' = Number(S) + In(j, S)
    /\ Unfinished' = Unfinished \cup {j}
Ended(j) ==
    /\ GoroutinesOK'
    /\ \A S \in SUBSET JobRecord : Number(S)' = Number(S) - In(j, S)
    /\ Unfinished' \subseteq Unfinished /\ Unfinished \subseteq Unfinished' \cup {j}
Became(j, k) ==
    /\ GoroutinesOK'
    /\ \A S \in SUBSET JobRecord : Number(S)' = Number(S) - In(j, S) + In(k, S)
    /\ Unfinished' \subseteq Unfinished \cup {k}
    /\ Unfinished \subseteq Unfinished' \cup {j} /\ k \in Unfinished'
Remained ==
    /\ GoroutinesOK'
    /\ \A S \in SUBSET JobRecord : Number(S)' = Number(S)
    /\ Unfinished' = Unfinished

LEMMA NumberType ==
    ASSUME GoroutinesOK, NEW S \in SUBSET JobRecord
    PROVE  /\ IsFiniteSet(Copies(running, S)) /\ Cardinality(Copies(running, S)) \in Nat
           /\ Cardinality(Places(queue, S)) \in Nat
           /\ Number(S) \in Nat
<1>1. IsFiniteSet(Copies(running, S)) /\ Cardinality(Copies(running, S)) \in Nat
  BY CopiesSubset DEF GoroutinesOK
<1>2. Cardinality(Places(queue, S)) \in Nat
  BY PlacesFinite DEF GoroutinesOK
<1>. QED  BY <1>1, <1>2 DEF Number

\* The jobs at hand are records of jobs.
LEMMA UnfinishedJobs ==
    ASSUME GoroutinesOK
    PROVE  Unfinished \subseteq JobRecord
<1>1. \A i \in DOMAIN queue : queue[i] \in JobRecord
  BY DEF GoroutinesOK
<1>. QED  BY <1>1 DEF GoroutinesOK, Unfinished, Range

LEMMA StartJoins ==
    ASSUME GoroutinesOK, NEW j \in JobRecord, Start(j), UNCHANGED queue
    PROVE  Joined(j)
<1>1. PICK B, D : B = running /\ D = running'
  OBVIOUS
<1>2. D = B (+) SetToBag({j}) /\ IsABag(B) /\ BagToSet(B) \subseteq JobRecord
  BY <1>1 DEF Start, GoroutinesOK
<1>3. IsABag(D) /\ DOMAIN D = DOMAIN B \cup {j}
  BY <1>2, BagAdd
<1>4. ASSUME NEW S \in SUBSET JobRecord
      PROVE  /\ IsFiniteSet(Copies(D, S))
             /\ Cardinality(Copies(D, S)) = Cardinality(Copies(B, S)) + In(j, S)
             /\ Cardinality(Copies(B, S)) \in Nat
  <2>1. IsFiniteSet(Copies(B, S)) /\ Cardinality(Copies(B, S)) \in Nat
    BY <1>1, NumberType
  <2>. QED  BY <1>2, <2>1, CopiesAdd
<1>5. GoroutinesOK'
  <2>1. IsFiniteSet(Copies(D, JobRecord))
    BY <1>4
  <2>2. PICK J : J = JobRecord
    OBVIOUS
  <2>3. IsFiniteSet(Copies(running', J))
    BY <1>1, <2>1, <2>2
  <2>. QED  BY <1>1, <1>2, <1>3, <2>2, <2>3 DEF GoroutinesOK, BagToSet
<1>6. ASSUME NEW S \in SUBSET JobRecord  PROVE Number(S)' = Number(S) + In(j, S)
  <2>1. Number(S) = Cardinality(Copies(B, S)) + Cardinality(Places(queue, S))
    BY <1>1 DEF Number
  <2>2. Number(S)' = Cardinality(Copies(D, S)) + Cardinality(Places(queue, S))
    BY <1>1 DEF Number
  <2>3. Cardinality(Places(queue, S)) \in Nat /\ In(j, S) \in Nat
    BY NumberType DEF In
  <2>. QED  BY <1>4, <2>1, <2>2, <2>3
<1>7. Unfinished' = Unfinished \cup {j}
  BY <1>1, <1>3 DEF Unfinished, BagToSet
<1>. QED  BY <1>5, <1>6, <1>7 DEF Joined

LEMMA FinishEnds ==
    ASSUME GoroutinesOK, NEW j \in BagToSet(running), Finish(j), UNCHANGED queue
    PROVE  Ended(j)
<1>1. PICK B, D : B = running /\ D = running'
  OBVIOUS
<1>2. D = B (-) SetToBag({j}) /\ IsABag(B) /\ BagToSet(B) \subseteq JobRecord /\ j \in DOMAIN B
  BY <1>1 DEF Finish, GoroutinesOK, BagToSet
<1>3. IsABag(D) /\ DOMAIN D \subseteq DOMAIN B /\ DOMAIN B \subseteq DOMAIN D \cup {j}
  BY <1>2, BagRemove
<1>4. ASSUME NEW S \in SUBSET JobRecord
      PROVE  /\ IsFiniteSet(Copies(D, S))
             /\ Cardinality(Copies(D, S)) = Cardinality(Copies(B, S)) - In(j, S)
             /\ Cardinality(Copies(B, S)) \in Nat
  <2>1. IsFiniteSet(Copies(B, S)) /\ Cardinality(Copies(B, S)) \in Nat
    BY <1>1, NumberType
  <2>. QED  BY <1>2, <2>1, CopiesRemove
<1>5. GoroutinesOK'
  <2>1. IsFiniteSet(Copies(D, JobRecord))
    BY <1>4
  <2>2. PICK J : J = JobRecord
    OBVIOUS
  <2>3. IsFiniteSet(Copies(running', J))
    BY <1>1, <2>1, <2>2
  <2>. QED  BY <1>1, <1>2, <1>3, <2>2, <2>3 DEF GoroutinesOK, BagToSet
<1>6. ASSUME NEW S \in SUBSET JobRecord  PROVE Number(S)' = Number(S) - In(j, S)
  <2>1. Number(S) = Cardinality(Copies(B, S)) + Cardinality(Places(queue, S))
    BY <1>1 DEF Number
  <2>2. Number(S)' = Cardinality(Copies(D, S)) + Cardinality(Places(queue, S))
    BY <1>1 DEF Number
  <2>3. Cardinality(Places(queue, S)) \in Nat /\ In(j, S) \in Nat
    BY NumberType DEF In
  <2>. QED  BY <1>4, <2>1, <2>2, <2>3
<1>7. Unfinished' \subseteq Unfinished /\ Unfinished \subseteq Unfinished' \cup {j}
  BY <1>1, <1>3 DEF Unfinished, BagToSet
<1>. QED  BY <1>5, <1>6, <1>7 DEF Ended

LEMMA ReplaceBecomes ==
    ASSUME GoroutinesOK, NEW j \in BagToSet(running), NEW k \in JobRecord, Replace(j, k),
           UNCHANGED queue
    PROVE  Became(j, k)
<1>1. PICK B, C, D : B = running /\ C = B (-) SetToBag({j}) /\ D = running'
  OBVIOUS
<1>2. D = C (+) SetToBag({k}) /\ IsABag(B) /\ BagToSet(B) \subseteq JobRecord /\ j \in DOMAIN B
  BY <1>1 DEF Replace, GoroutinesOK, BagToSet
<1>3. IsABag(C) /\ DOMAIN C \subseteq DOMAIN B /\ DOMAIN B \subseteq DOMAIN C \cup {j}
  BY <1>1, <1>2, BagRemove
<1>4. IsABag(D) /\ DOMAIN D = DOMAIN C \cup {k}
  BY <1>2, <1>3, BagAdd
<1>5. ASSUME NEW S \in SUBSET JobRecord
      PROVE  /\ IsFiniteSet(Copies(D, S))
             /\ Cardinality(Copies(D, S)) = Cardinality(Copies(B, S)) - In(j, S) + In(k, S)
             /\ Cardinality(Copies(B, S)) \in Nat
  <2>1. IsFiniteSet(Copies(B, S)) /\ Cardinality(Copies(B, S)) \in Nat
    BY <1>1, NumberType
  <2>2. /\ IsFiniteSet(Copies(C, S))
        /\ Cardinality(Copies(C, S)) = Cardinality(Copies(B, S)) - In(j, S)
    BY <1>1, <1>2, <2>1, CopiesRemove
  <2>3. /\ IsFiniteSet(Copies(D, S))
        /\ Cardinality(Copies(D, S)) = Cardinality(Copies(C, S)) + In(k, S)
    BY <1>2, <1>3, <2>2, CopiesAdd
  <2>. QED  BY <2>1, <2>2, <2>3
<1>6. GoroutinesOK'
  <2>1. IsFiniteSet(Copies(D, JobRecord))
    BY <1>5
  <2>2. PICK J : J = JobRecord
    OBVIOUS
  <2>3. IsFiniteSet(Copies(running', J))
    BY <1>1, <2>1, <2>2
  <2>. QED  BY <1>1, <1>2, <1>3, <1>4, <2>2, <2>3 DEF GoroutinesOK, BagToSet
<1>7. ASSUME NEW S \in SUBSET JobRecord  PROVE Number(S)' = Number(S) - In(j, S) + In(k, S)
  <2>1. Number(S) = Cardinality(Copies(B, S)) + Cardinality(Places(queue, S))
    BY <1>1 DEF Number
  <2>2. Number(S)' = Cardinality(Copies(D, S)) + Cardinality(Places(queue, S))
    BY <1>1 DEF Number
  <2>3. Cardinality(Places(queue, S)) \in Nat /\ In(j, S) \in Nat /\ In(k, S) \in Nat
    BY NumberType DEF In
  <2>. QED  BY <1>5, <2>1, <2>2, <2>3
<1>8. /\ Unfinished' \subseteq Unfinished \cup {k}
      /\ Unfinished \subseteq Unfinished' \cup {j} /\ k \in Unfinished'
  BY <1>1, <1>3, <1>4 DEF Unfinished, BagToSet
<1>. QED  BY <1>6, <1>7, <1>8 DEF Became

\* What is put into the queue is in it, and what was stays.
LEMMA AppendRange ==
    ASSUME NEW q \in Seq(JobRecord), NEW j \in JobRecord, NEW r, r = Append(q, j)
    PROVE  r \in Seq(JobRecord) /\ Len(r) = Len(q) + 1 /\ Range(r) = Range(q) \cup {j}
<1>1. PICK n : n = Len(q)
  OBVIOUS
<1>2. /\ n \in Nat /\ DOMAIN q = 1..n /\ DOMAIN r = 1..(n + 1) /\ r[n + 1] = j
      /\ \A i \in 1..n : r[i] = q[i]
  BY <1>1
<1>3. Range(r) = Range(q) \cup {j}
  BY <1>2 DEF Range
<1>. QED  BY <1>3

LEMMA QueueJoins ==
    ASSUME GoroutinesOK, NEW j \in JobRecord, Len(queue) < QueueSize, QueueSize \in Nat,
           queue' = Append(queue, j), UNCHANGED running
    PROVE  Joined(j)
<1>1. PICK q, r : q = queue /\ r = queue'
  OBVIOUS
<1>2. r = Append(q, j) /\ q \in Seq(JobRecord)
  BY <1>1 DEF GoroutinesOK
<1>3. r \in Seq(JobRecord) /\ Len(r) = Len(q) + 1 /\ Range(r) = Range(q) \cup {j}
  BY <1>2, AppendRange
<1>4. GoroutinesOK'
  BY <1>1, <1>2, <1>3 DEF GoroutinesOK
<1>5. ASSUME NEW S \in SUBSET JobRecord  PROVE Number(S)' = Number(S) + In(j, S)
  <2>1. Number(S) = Cardinality(Copies(running, S)) + Cardinality(Places(q, S))
    BY <1>1 DEF Number
  <2>2. Number(S)' = Cardinality(Copies(running, S)) + Cardinality(Places(r, S))
    BY <1>1 DEF Number
  <2>3. Cardinality(Places(r, S)) = Cardinality(Places(q, S)) + In(j, S)
    <3>1. Cardinality(Places(Append(q, j), S)) = Cardinality(Places(q, S)) + In(j, S)
      BY <1>2, PlacesAppend, Zenon
    <3>. QED  BY <1>2, <3>1
  <2>4. Cardinality(Copies(running, S)) \in Nat /\ Cardinality(Places(q, S)) \in Nat /\ In(j, S) \in Nat
    BY <1>1, NumberType DEF In
  <2>. QED  BY <2>1, <2>2, <2>3, <2>4
<1>6. Unfinished' = Unfinished \cup {j}
  BY <1>1, <1>3 DEF Unfinished
<1>. QED  BY <1>4, <1>5, <1>6 DEF Joined

LEMMA EnqueueJoins ==
    ASSUME GoroutinesOK, QueueSize \in Nat, NEW j \in JobRecord, Enqueue(j)
    PROVE  \E k \in {j, [j EXCEPT !.src = "worker"]} : Joined(k)
<1>1. CASE Len(queue) < QueueSize /\ queue' = Append(queue, [j EXCEPT !.src = "worker"]) /\ UNCHANGED running
  <2>1. [j EXCEPT !.src = "worker"] \in JobRecord
    BY DEF JobRecord
  <2>. QED  BY <1>1, <2>1, QueueJoins
<1>2. CASE Len(queue) = QueueSize /\ Start(j) /\ UNCHANGED queue
  BY <1>2, StartJoins
<1>. QED  BY <1>1, <1>2 DEF Enqueue

LEMMA TailRange ==
    ASSUME NEW q \in Seq(JobRecord), q # <<>>
    PROVE  /\ Head(q) \in JobRecord /\ Tail(q) \in Seq(JobRecord) /\ Len(Tail(q)) = Len(q) - 1
           /\ Range(q) = Range(Tail(q)) \cup {Head(q)}
<1>1. PICK n, r : n = Len(q) /\ r = Tail(q)
  OBVIOUS
<1>2. /\ n \in Nat \ {0} /\ DOMAIN q = 1..n /\ DOMAIN r = 1..(n - 1)
      /\ \A i \in 1..(n - 1) : r[i] = q[i + 1]
      /\ Head(q) = q[1]
  BY <1>1
<1>3. \A i \in 1..n : i = 1 \/ (i - 1 \in 1..(n - 1) /\ r[i - 1] = q[i])
  BY <1>2
<1>4. Range(q) \subseteq Range(r) \cup {Head(q)}
  <2>1. ASSUME NEW i \in 1..n  PROVE q[i] \in Range(r) \cup {Head(q)}
    <3>1. CASE i = 1
      BY <1>2, <3>1
    <3>2. CASE i - 1 \in DOMAIN r /\ r[i - 1] = q[i]
      BY <3>2 DEF Range
    <3>. QED  BY <1>2, <1>3, <3>1, <3>2
  <2>. QED  BY <1>2, <2>1 DEF Range
<1>5. \A i \in 1..(n - 1) : i + 1 \in 1..n /\ r[i] = q[i + 1]
  BY <1>2
<1>6. Range(r) \cup {Head(q)} \subseteq Range(q)
  BY <1>2, <1>5 DEF Range
<1>7. Head(q) \in JobRecord /\ r \in Seq(JobRecord) /\ Len(r) = n - 1
  BY <1>1, <1>2
<1>. QED  BY <1>1, <1>4, <1>6, <1>7

\* A task that a worker takes is where it was not, and no longer where it was.
LEMMA TakeRemains ==
    ASSUME GoroutinesOK, QueueSize \in Nat, queue # <<>>, Start(Head(queue)), queue' = Tail(queue)
    PROVE  Remained
<1>1. PICK B, D, q, r, j : B = running /\ D = running' /\ q = queue /\ r = queue' /\ j = Head(queue)
  OBVIOUS
<1>2. q \in Seq(JobRecord) /\ q # <<>> /\ r = Tail(q) /\ j = Head(q)
  BY <1>1 DEF GoroutinesOK
<1>3. /\ j \in JobRecord /\ r \in Seq(JobRecord) /\ Len(r) = Len(q) - 1
      /\ Range(q) = Range(r) \cup {j}
  <2>1. /\ Head(q) \in JobRecord /\ Tail(q) \in Seq(JobRecord) /\ Len(Tail(q)) = Len(q) - 1
        /\ Range(q) = Range(Tail(q)) \cup {Head(q)}
    BY <1>2, TailRange, Zenon
  <2>. QED  BY <1>2, <2>1, Zenon
<1>4. D = B (+) SetToBag({j}) /\ IsABag(B) /\ BagToSet(B) \subseteq JobRecord
  BY <1>1 DEF Start, GoroutinesOK
<1>5. IsABag(D) /\ DOMAIN D = DOMAIN B \cup {j}
  BY <1>4, BagAdd
<1>6. ASSUME NEW S \in SUBSET JobRecord
      PROVE  /\ IsFiniteSet(Copies(D, S))
             /\ Cardinality(Copies(D, S)) = Cardinality(Copies(B, S)) + In(j, S)
             /\ Cardinality(Copies(B, S)) \in Nat
  <2>1. IsFiniteSet(Copies(B, S)) /\ Cardinality(Copies(B, S)) \in Nat
    BY <1>1, NumberType
  <2>. QED  BY <1>4, <2>1, CopiesAdd
<1>7. GoroutinesOK'
  <2>1. IsFiniteSet(Copies(D, JobRecord))
    BY <1>6
  <2>2. PICK J : J = JobRecord
    OBVIOUS
  <2>3. IsFiniteSet(Copies(running', J))
    BY <1>1, <2>1, <2>2
  <2>4. Len(r) <= QueueSize
    <3>1. Len(q) \in Nat /\ Len(q) <= QueueSize
      BY <1>1, <1>2 DEF GoroutinesOK
    <3>. QED  BY <1>3, <3>1
  <2>. QED  BY <1>1, <1>3, <1>4, <1>5, <2>2, <2>3, <2>4 DEF GoroutinesOK, BagToSet
<1>8. ASSUME NEW S \in SUBSET JobRecord  PROVE Number(S)' = Number(S)
  <2>1. Number(S) = Cardinality(Copies(B, S)) + Cardinality(Places(q, S))
    BY <1>1 DEF Number
  <2>2. Number(S)' = Cardinality(Copies(D, S)) + Cardinality(Places(r, S))
    BY <1>1 DEF Number
  <2>3. Cardinality(Places(r, S)) = Cardinality(Places(q, S)) - In(j, S)
    BY <1>2, PlacesTail
  <2>4. Cardinality(Places(q, S)) \in Nat /\ In(j, S) \in Nat
    BY <1>1, NumberType DEF In
  <2>. QED  BY <1>6, <2>1, <2>2, <2>3, <2>4
<1>9. Unfinished' = Unfinished
  BY <1>1, <1>3, <1>5 DEF Unfinished, BagToSet
<1>. QED  BY <1>7, <1>8, <1>9 DEF Remained

LEMMA NothingRuns ==
    /\ IsABag(EmptyBag) /\ BagToSet(EmptyBag) = {}
    /\ \A S : Copies(EmptyBag, S) = {}
    /\ Range(<<>>) = {} /\ \A S : Places(<<>>, S) = {}
<1>1. DOMAIN EmptyBag = {} /\ IsABag(EmptyBag)
  BY DEF EmptyBag, SetToBag, IsABag
<1>2. \A S : Copies(EmptyBag, S) = {}
  BY <1>1 DEF Copies
<1>3. BagToSet(EmptyBag) = {}
  BY <1>1 DEF BagToSet
<1>4. Range(<<>>) = {} /\ \A S : Places(<<>>, S) = {}
  BY DEF Range, Places
<1>. QED  BY <1>1, <1>2, <1>3, <1>4

LEMMA NothingLeft ==
    ASSUME QueueSize \in Nat, running = EmptyBag, queue = <<>>
    PROVE  GoroutinesOK /\ Unfinished = {} /\ \A S \in SUBSET JobRecord : Number(S) = 0
<1>1. IsFiniteSet(Copies(running, JobRecord))
  BY NothingRuns, FS_EmptySet
<1>2. GoroutinesOK
  BY <1>1, NothingRuns DEF GoroutinesOK
<1>3. Unfinished = {}
  BY NothingRuns DEF Unfinished
<1>4. ASSUME NEW S \in SUBSET JobRecord  PROVE Number(S) = 0
  <2>1. Cardinality(Copies(running, S)) = 0 /\ Cardinality(Places(queue, S)) = 0
    BY NothingRuns, FS_EmptySet
  <2>. QED  BY <2>1 DEF Number
<1>. QED  BY <1>2, <1>3, <1>4

LEMMA UnchangedRemains ==
    ASSUME GoroutinesOK, UNCHANGED goroutines
    PROVE  Remained
BY DEF Remained, GoroutinesOK, Number, Unfinished, goroutines

\* What becomes of the two counts.
LEMMA CountsType ==
    ASSUME GoroutinesOK, NEW x
    PROVE  SenderCount(x) \in Nat /\ HolderCount(x) \in Nat
<1>1. Senders(x) \in SUBSET JobRecord /\ Holders(x) \in SUBSET JobRecord
  BY DEF Senders, Holders
<1>. QED  BY <1>1, NumberType DEF SenderCount, HolderCount

LEMMA JoinedCounts ==
    ASSUME NEW j, Joined(j), NEW x
    PROVE  /\ SenderCount(x)' = SenderCount(x) + In(j, Senders(x))
           /\ HolderCount(x)' = HolderCount(x) + In(j, Holders(x))
<1>1. PICK S, H : S = Senders(x) /\ H = Holders(x)
  OBVIOUS
<1>2. S \in SUBSET JobRecord /\ H \in SUBSET JobRecord
  BY <1>1 DEF Senders, Holders
<1>3. Number(S)' = Number(S) + In(j, S) /\ Number(H)' = Number(H) + In(j, H)
  BY <1>2 DEF Joined
<1>. QED  BY <1>1, <1>3 DEF SenderCount, HolderCount

LEMMA EndedCounts ==
    ASSUME NEW j, Ended(j), NEW x
    PROVE  /\ SenderCount(x)' = SenderCount(x) - In(j, Senders(x))
           /\ HolderCount(x)' = HolderCount(x) - In(j, Holders(x))
<1>1. PICK S, H : S = Senders(x) /\ H = Holders(x)
  OBVIOUS
<1>2. S \in SUBSET JobRecord /\ H \in SUBSET JobRecord
  BY <1>1 DEF Senders, Holders
<1>3. Number(S)' = Number(S) - In(j, S) /\ Number(H)' = Number(H) - In(j, H)
  BY <1>2 DEF Ended
<1>. QED  BY <1>1, <1>3 DEF SenderCount, HolderCount

LEMMA BecameCounts ==
    ASSUME NEW j, NEW k, Became(j, k), NEW x
    PROVE  /\ SenderCount(x)' = SenderCount(x) - In(j, Senders(x)) + In(k, Senders(x))
           /\ HolderCount(x)' = HolderCount(x) - In(j, Holders(x)) + In(k, Holders(x))
<1>1. PICK S, H : S = Senders(x) /\ H = Holders(x)
  OBVIOUS
<1>2. S \in SUBSET JobRecord /\ H \in SUBSET JobRecord
  BY <1>1 DEF Senders, Holders
<1>3. /\ Number(S)' = Number(S) - In(j, S) + In(k, S)
      /\ Number(H)' = Number(H) - In(j, H) + In(k, H)
  BY <1>2 DEF Became
<1>. QED  BY <1>1, <1>3 DEF SenderCount, HolderCount

LEMMA RemainedCounts ==
    ASSUME Remained, NEW x
    PROVE  SenderCount(x)' = SenderCount(x) /\ HolderCount(x)' = HolderCount(x)
<1>1. PICK S, H : S = Senders(x) /\ H = Holders(x)
  OBVIOUS
<1>2. S \in SUBSET JobRecord /\ H \in SUBSET JobRecord
  BY <1>1 DEF Senders, Holders
<1>3. Number(S)' = Number(S) /\ Number(H)' = Number(H)
  BY <1>2 DEF Remained
<1>. QED  BY <1>1, <1>3 DEF SenderCount, HolderCount

-----------------------------------------------------------------------------
(* The room *)

\* Events stay where they are and about what they are.
RoomKept == /\ Len(room) <= Len(room') /\ DOMAIN room \subseteq DOMAIN room'
            /\ \A i \in DOMAIN room : room'[i].post = room[i].post

\* An event is added.
Grown(e) ==
    /\ room' \in Seq(Event) /\ Len(room') = Len(room) + 1 /\ DOMAIN room' = DOMAIN room \cup {Len(room) + 1}
    /\ \A i \in DOMAIN room : room'[i] = room[i]
    /\ room'[Len(room) + 1] = e
    /\ \A x : MainCount(x)' = MainCount(x) + In(e, MainEvents(x))
    /\ \A x : FileCount(x)' = FileCount(x) + In(e, Carriers(x))

\* Events are edited or redacted.
Kept ==
    /\ room' \in Seq(Event) /\ DOMAIN room' = DOMAIN room /\ Len(room') = Len(room)
    /\ \A i \in DOMAIN room : /\ room'[i].post = room[i].post /\ room'[i].kind = room[i].kind
                              /\ room'[i].target = room[i].target
    /\ \A x : MainCount(x)' = MainCount(x) /\ FileCount(x)' = FileCount(x)

LEMMA RoomCounts ==
    ASSUME MatrixTyped, NEW x
    PROVE  MainCount(x) \in Nat /\ FileCount(x) \in Nat /\ Len(room) \in Nat /\ DOMAIN room = 1..Len(room)
<1>1. Len(room) \in Nat /\ DOMAIN room = 1..Len(room)
  BY DEF MatrixTyped
<1>2. room \in Seq(Event)
  BY DEF MatrixTyped
<1>3. MainCount(x) \in Nat
  BY <1>2, PlacesFinite DEF MainCount
<1>4. FileCount(x) \in Nat
  BY <1>2, PlacesFinite DEF FileCount
<1>. QED  BY <1>1, <1>3, <1>4

LEMMA RoomGrows ==
    ASSUME MatrixTyped, NEW e \in Event, room' = Append(room, e)
    PROVE  Grown(e)
<1>1. PICK q, r, n : q = room /\ r = room' /\ n = Len(room)
  OBVIOUS
<1>2. q \in Seq(Event) /\ r = Append(q, e) /\ n = Len(q)
  BY <1>1 DEF MatrixTyped
<1>3. /\ n \in Nat /\ r \in Seq(Event) /\ Len(r) = n + 1 /\ DOMAIN r = DOMAIN q \cup {n + 1}
      /\ \A i \in DOMAIN q : r[i] = q[i]
      /\ r[n + 1] = e
  BY <1>2
<1>4. ASSUME NEW S  PROVE Cardinality(Places(r, S)) = Cardinality(Places(q, S)) + In(e, S)
  <2>1. Cardinality(Places(Append(q, e), S)) = Cardinality(Places(q, S)) + In(e, S)
    BY <1>2, PlacesAppend, Zenon
  <2>. QED  BY <1>2, <2>1, Zenon
<1>5. ASSUME NEW x
      PROVE  /\ MainCount(x)' = MainCount(x) + In(e, MainEvents(x))
             /\ FileCount(x)' = FileCount(x) + In(e, Carriers(x))
  <2>1. PICK M, F : M = MainEvents(x) /\ F = Carriers(x)
    OBVIOUS
  <2>2. MainCount(x) = Cardinality(Places(q, M)) /\ FileCount(x) = Cardinality(Places(q, F))
    BY <1>1, <2>1 DEF MainCount, FileCount
  <2>3. MainCount(x)' = Cardinality(Places(r, M)) /\ FileCount(x)' = Cardinality(Places(r, F))
    BY <1>1, <2>1 DEF MainCount, FileCount
  <2>. QED  BY <1>4, <2>1, <2>2, <2>3
<1>. QED  BY <1>1, <1>3, <1>5 DEF Grown

LEMMA RoomAltered ==
    ASSUME MatrixTyped, room' \in Seq(Event), DOMAIN room' = DOMAIN room, Len(room') = Len(room),
           \A i \in DOMAIN room : /\ room'[i].post = room[i].post /\ room'[i].kind = room[i].kind
                                  /\ room'[i].target = room[i].target /\ room'[i].main = room[i].main
                                  /\ room'[i].file = room[i].file
    PROVE  Kept
<1>1. PICK q, r : q = room /\ r = room'
  OBVIOUS
<1>2. /\ DOMAIN r = DOMAIN q
      /\ \A i \in DOMAIN q : /\ r[i] \in Event /\ q[i] \in Event
                             /\ r[i].post = q[i].post /\ r[i].kind = q[i].kind
                             /\ r[i].main = q[i].main /\ r[i].file = q[i].file
  BY <1>1 DEF MatrixTyped
<1>3. ASSUME NEW x  PROVE MainCount(x)' = MainCount(x) /\ FileCount(x)' = FileCount(x)
  <2>1. PICK M, F : M = MainEvents(x) /\ F = Carriers(x)
    OBVIOUS
  <2>2. MainCount(x) = Cardinality(Places(q, M)) /\ FileCount(x) = Cardinality(Places(q, F))
    BY <1>1, <2>1 DEF MainCount, FileCount
  <2>3. MainCount(x)' = Cardinality(Places(r, M)) /\ FileCount(x)' = Cardinality(Places(r, F))
    BY <1>1, <2>1 DEF MainCount, FileCount
  <2>4. \A i \in DOMAIN q : r[i] \in M <=> q[i] \in M
    BY <1>2, <2>1 DEF MainEvents
  <2>5. \A i \in DOMAIN q : r[i] \in F <=> q[i] \in F
    BY <1>2, <2>1 DEF Carriers
  <2>6. Places(r, M) = Places(q, M) /\ Places(r, F) = Places(q, F)
    BY <1>2, <2>4, <2>5, PlacesSame
  <2>. QED  BY <2>2, <2>3, <2>6
<1>. QED  BY <1>3 DEF Kept

LEMMA RoomSame ==
    ASSUME IInv, UNCHANGED <<room, remote>>
    PROVE  Kept /\ RoomKept /\ MatrixTyped' /\ RoomOK'
<1>1. MatrixTyped /\ RoomOK /\ Len(room) \in Nat
  BY RoomCounts DEF IInv, Typed, World
<1>2. MatrixTyped' /\ RoomOK' /\ RoomKept
  BY <1>1 DEF MatrixTyped, RoomOK, RoomKept
<1>3. Kept
  BY <1>1, RoomAltered DEF MatrixTyped
<1>. QED  BY <1>2, <1>3

\* What an event that a job makes must be.
LEMMA GrownRoom ==
    ASSUME IInv, NEW e \in Event, room' = Append(room, e), UNCHANGED remote,
           e.target <= Len(room), e.post \in remote => e.kind = "reaction",
           e.post = NoPost => ~e.edited
    PROVE  Grown(e) /\ RoomKept /\ MatrixTyped' /\ RoomOK'
<1>1. MatrixTyped /\ RoomOK /\ Len(room) \in Nat /\ DOMAIN room = 1..Len(room)
  BY RoomCounts DEF IInv, Typed, World
<1>2. Grown(e)
  BY <1>1, RoomGrows
<1>3. RoomKept
  BY <1>1, <1>2 DEF Grown, RoomKept
<1>4. MatrixTyped'
  <2>1. ASSUME NEW i \in DOMAIN room'  PROVE room'[i].target < i
    <3>1. CASE i \in DOMAIN room
      BY <1>1, <1>2, <3>1 DEF Grown, MatrixTyped
    <3>2. CASE i = Len(room) + 1
      <4>1. room'[i] = e /\ e.target \in Nat
        BY <1>2, <3>2 DEF Grown, Event
      <4>. QED  BY <1>1, <3>2, <4>1
    <3>. QED  BY <1>2, <3>1, <3>2 DEF Grown
  <2>. QED  BY <1>2, <2>1 DEF MatrixTyped, Grown
<1>5. RoomOK'
  BY <1>1, <1>2 DEF RoomOK, Grown
<1>. QED  BY <1>2, <1>3, <1>4, <1>5

LEMMA KeptRoom ==
    ASSUME IInv, Kept, UNCHANGED remote,
           \A i \in DOMAIN room : room[i].post = NoPost => room'[i].edited = room[i].edited
    PROVE  RoomKept /\ MatrixTyped' /\ RoomOK'
<1>1. MatrixTyped /\ RoomOK /\ Len(room) \in Nat /\ DOMAIN room = 1..Len(room)
  BY RoomCounts DEF IInv, Typed, World
<1>2. RoomKept
  BY <1>1 DEF Kept, RoomKept
<1>3. MatrixTyped'
  BY <1>1 DEF MatrixTyped, Kept
<1>4. RoomOK'
  BY <1>1 DEF RoomOK, Kept
<1>. QED  BY <1>2, <1>3, <1>4

-----------------------------------------------------------------------------
(* Jobs, while others are at work *)

SendsFor(j, p) == j.post = p /\ j.what = "post" /\ Sends(j.copy)

LEMMA JobStays ==
    ASSUME RoomKept, UNCHANGED remote, MatrixTyped, MatrixTyped', NEW j \in JobRecord, JobOK(j)
    PROVE  JobOK(j)'
<1>1. \A p, e : Names(p, e) => Names(p, e)'
  BY DEF Names, RoomKept
<1>2. j.thread \in Nat /\ j.main \in Nat /\ Len(room) \in Nat /\ Len(room') \in Nat
  BY DEF JobRecord, MatrixTyped
<1>3. j.thread <= Len(room') /\ j.main <= Len(room')
  <2>1. j.thread <= Len(room) /\ j.main <= Len(room) /\ Len(room) <= Len(room')
    BY DEF JobOK, RoomKept
  <2>. QED  BY <1>2, <2>1
<1>4. Names(j.post, j.copy.eid)' /\ (Names(j.post, j.main) => Names(j.post, j.main)')
  BY <1>1 DEF JobOK
<1>. QED  BY <1>3, <1>4 DEF JobOK

LEMMA JobsStay ==
    ASSUME IInv, RoomKept, UNCHANGED remote, MatrixTyped', GoroutinesOK',
           \A k \in Unfinished' : k \in Unfinished \/ JobOK(k)'
    PROVE  JobsOK'
<1>1. JobsOK /\ MatrixTyped
  BY DEF IInv, World, Typed
<1>2. Unfinished \subseteq JobRecord
  BY UnfinishedJobs DEF IInv
<1>3. ASSUME NEW k \in Unfinished'  PROVE JobOK(k)'
  <2>1. CASE k \in Unfinished
    BY <1>1, <1>2, <2>1, JobStays DEF JobsOK
  <2>. QED  BY <1>3, <2>1
<1>. QED  BY <1>3 DEF JobsOK

LEMMA PostsStay ==
    ASSUME IInv, RoomKept, UNCHANGED remote, NEW Q, Q \subseteq Post,
           \A p \in Post \ Q : posts'[p].eid = posts[p].eid,
           \A p \in Q : Names(p, posts[p].eid)'
    PROVE  PostsNamed'
<1>1. \A p, e : Names(p, e) => Names(p, e)'
  BY DEF Names, RoomKept
<1>2. \A p \in Post : Names(p, posts[p].eid)
  BY DEF IInv, World, PostsNamed
<1>3. ASSUME NEW p \in Post  PROVE Names(p, posts[p].eid)'
  <2>1. CASE p \in Q
    BY <2>1
  <2>2. CASE p \notin Q
    <3>1. PICK e : e = posts[p].eid
      OBVIOUS
    <3>2. posts'[p].eid = e /\ Names(p, e)'
      BY <1>1, <1>2, <2>2, <3>1
    <3>. QED  BY <3>2 DEF Names
  <2>. QED  BY <2>1, <2>2
<1>. QED  BY <1>3 DEF PostsNamed

LEMMA PostsIdle ==
    ASSUME IInv, RoomKept, UNCHANGED <<remote, posts>>
    PROVE  PostsNamed'
<1>1. PICK Q : Q = {}
  OBVIOUS
<1>2. (\A p \in Post \ Q : posts'[p].eid = posts[p].eid) /\ \A p \in Q : Names(p, posts[p].eid)'
  BY <1>1
<1>. QED  BY <1>1, <1>2, PostsStay

\* How far a post is from being sent does not change with a job that goes on,
\* and not with one that ends before the first event.
LEMMA DueType == \A p : DueCount(p) \in {0, 1}
BY DEF DueCount

LEMMA InType == \A x, S : In(x, S) \in {0, 1}
BY DEF In

LEMMA EndedDue ==
    ASSUME GoroutinesOK, NEW j \in JobRecord, Ended(j), UNCHANGED posts, NEW p \in Post
    PROVE  SenderCount(p)' + DueCount(p)'
             <= SenderCount(p) + DueCount(p)
                  + IF SendsFor(j, p) /\ j.main # 0 /\ posts[p].state # "deleted" THEN 1 ELSE 0
<1>1. SenderCount(p)' = SenderCount(p) - In(j, Senders(p)) /\ SenderCount(p) \in Nat
  BY EndedCounts, CountsType
<1>2. /\ DueCount(p) \in {0, 1} /\ DueCount(p)' \in {0, 1} /\ In(j, Senders(p)) \in {0, 1}
      /\ In(j, Senders(p)) = 1 <=> SendsFor(j, p) /\ j.main = 0
  BY DueType DEF DueCount, In, Senders, SendsFor
<1>3. CASE SendsFor(j, p)
  <2>1. posts[p].state = "deleted" => DueCount(p)' = 0
    BY DEF DueCount, Due, Sends
  <2>2. CASE posts[p].state = "deleted"
    BY <1>1, <1>2, <2>1, <2>2
  <2>3. CASE posts[p].state # "deleted" /\ j.main = 0
    BY <1>1, <1>2, <1>3, <2>3
  <2>4. CASE posts[p].state # "deleted" /\ j.main # 0
    BY <1>1, <1>2, <1>3, <2>4
  <2>. QED  BY <2>2, <2>3, <2>4
<1>4. CASE ~SendsFor(j, p)
  <2>1. Sending(p) => Sending(p)'
    <3>1. ASSUME NEW k \in Unfinished, k.post = p, k.what = "post", Sends(k.copy)  PROVE k \in Unfinished'
      BY <1>4, <3>1 DEF Ended, SendsFor
    <3>2. ASSUME Sending(p)  PROVE Sending(p)'
      <4>1. PICK k \in Unfinished : k.post = p /\ k.what = "post" /\ Sends(k.copy)
        BY <3>2 DEF Sending
      <4>. QED  BY <3>1, <4>1 DEF Sending
    <3>. QED  BY <3>2
  <2>2. DueCount(p)' <= DueCount(p)
    BY <2>1 DEF DueCount, Due, Sends
  <2>. QED  BY <1>1, <1>2, <1>4, <2>2
<1>. QED  BY <1>3, <1>4

LEMMA BecameDue ==
    ASSUME NEW j, NEW k, Became(j, k), k.post = j.post, k.what = j.what, k.copy = j.copy,
           UNCHANGED posts, NEW p
    PROVE  DueCount(p)' <= DueCount(p)
<1>1. ASSUME Sending(p)  PROVE Sending(p)'
  <2>1. PICK l \in Unfinished : l.post = p /\ l.what = "post" /\ Sends(l.copy)
    BY <1>1 DEF Sending
  <2>2. CASE l = j
    BY <2>1, <2>2 DEF Became, Sending
  <2>3. CASE l # j
    BY <2>1, <2>3 DEF Became, Sending
  <2>. QED  BY <2>2, <2>3
<1>. QED  BY <1>1 DEF DueCount, Due, Sends

LEMMA RemainedDue ==
    ASSUME Remained, NEW p, posts'[p].state = posts[p].state, posts'[p].eid = posts[p].eid
    PROVE  DueCount(p)' = DueCount(p)
<1>1. Sending(p)' <=> Sending(p)
  BY DEF Remained, Sending
<1>. QED  BY <1>1 DEF DueCount, Due, Sends

LEMMA FreshSame ==
    ASSUME UNCHANGED <<posts, dirtyFiles>>, NEW f
    PROVE  FreshCount(f)' = FreshCount(f)
BY DEF FreshCount, Fresh

-----------------------------------------------------------------------------
(* Steps of jobs *)

\* A call that fails is counted.
Faulted == faults' \in {faults, faults + 1}

LEMMA CallTypes ==
    ASSUME IInv, UNCHANGED unchangedByCalls, Faulted
    PROVE  MattermostTyped' /\ HistoryTyped'
<1>1. MattermostTyped /\ HistoryTyped
  BY DEF IInv, Typed
<1>2. MattermostTyped'
  BY <1>1 DEF MattermostTyped, unchangedByCalls, mattermost, service
<1>3. HistoryTyped'
  <2>1. faults' \in Nat
    BY <1>1 DEF HistoryTyped, Faulted
  <2>. QED  BY <1>1, <2>1 DEF HistoryTyped, unchangedByCalls
<1>. QED  BY <1>2, <1>3

LEMMA CallKnown ==
    ASSUME IInv, UNCHANGED unchangedByCalls,
           \A k \in Unfinished' : \E j \in Unfinished : k.post = j.post
    PROVE  Known'
<1>1. Known
  BY DEF IInv, World
<1>. QED  BY <1>1 DEF Known, unchangedByCalls, mattermost, service

\* The counts are numbers.
LEMMA CountsAreNats ==
    ASSUME IInv, NEW x
    PROVE  /\ MainCount(x) \in Nat /\ FileCount(x) \in Nat
           /\ SenderCount(x) \in Nat /\ HolderCount(x) \in Nat
           /\ DueCount(x) \in Nat /\ FreshCount(x) \in Nat /\ In(x, pending) \in Nat
           /\ faults \in Nat
<1>1. MatrixTyped /\ GoroutinesOK /\ faults \in Nat
  BY DEF IInv, Typed, HistoryTyped
<1>2. MainCount(x) \in Nat /\ FileCount(x) \in Nat
  BY <1>1, RoomCounts
<1>3. SenderCount(x) \in Nat /\ HolderCount(x) \in Nat
  BY <1>1, CountsType
<1>4. DueCount(x) \in Nat /\ FreshCount(x) \in Nat /\ In(x, pending) \in Nat
  BY DEF DueCount, FreshCount, In
<1>. QED  BY <1>1, <1>2, <1>3, <1>4

\* A job ends.
LEMMA EndStep ==
    ASSUME IInv, NEW j \in BagToSet(running), UNCHANGED unchangedByCalls, Finish(j), UNCHANGED queue,
           RoomKept, MatrixTyped', RoomOK', TrackersTyped', Faulted,
           \A p \in Post : /\ MainCount(p)' \in Nat
                           /\ MainCount(p)' + (IF SendsFor(j, p) /\ j.main # 0 /\ posts[p].state # "deleted"
                                               THEN 1 ELSE 0)
                                <= MainCount(p) + faults' - faults,
           \A f \in File : /\ FileCount(f)' \in Nat
                           /\ FileCount(f)' + In(f, pending') <= FileCount(f) + In(f, pending) + In(j, Holders(f))
    PROVE  IInv'
<1>1. GoroutinesOK /\ j \in JobRecord /\ j \in Unfinished
  BY UnfinishedJobs DEF IInv, Unfinished
<1>2. Ended(j)
  BY <1>1, FinishEnds
<1>3. GoroutinesOK' /\ Unfinished' \subseteq Unfinished
  BY <1>2 DEF Ended
<1>4. UNCHANGED <<posts, remote, dirtyFiles, again>>
  BY DEF unchangedByCalls, mattermost, service
<1>5. MattermostTyped' /\ HistoryTyped' /\ Known'
  <2>1. \A k \in Unfinished' : \E i \in Unfinished : k.post = i.post
    BY <1>3
  <2>. QED  BY <2>1, CallTypes, CallKnown
<1>6. PostsNamed'
  BY <1>4, PostsIdle
<1>7. JobsOK'
  BY <1>3, <1>4, JobsStay
<1>8. SentBound'
  <2>. SUFFICES ASSUME NEW p \in Post
                PROVE  MainCount(p)' + SenderCount(p)' + DueCount(p)' <= 1 + again'[p] + faults'
    BY DEF SentBound
  <2>1. MainCount(p) + SenderCount(p) + DueCount(p) <= 1 + again[p] + faults
    BY DEF IInv, SentBound
  <2>2. SenderCount(p)' + DueCount(p)'
             <= SenderCount(p) + DueCount(p)
                  + IF SendsFor(j, p) /\ j.main # 0 /\ posts[p].state # "deleted" THEN 1 ELSE 0
    BY <1>1, <1>2, <1>4, EndedDue
  <2>3. again'[p] = again[p] /\ again[p] \in Nat /\ faults' \in Nat
    BY <1>4, <1>5 DEF IInv, Typed, HistoryTyped
  <2>4. SenderCount(p)' \in Int /\ DueCount(p)' \in Nat
    <3>1. SenderCount(p)' = SenderCount(p) - In(j, Senders(p)) /\ In(j, Senders(p)) \in Nat
      BY <1>2, EndedCounts DEF In
    <3>2. DueCount(p)' \in Nat
      BY DEF DueCount
    <3>. QED  BY <3>1, <3>2, CountsAreNats
  <2>. QED  BY <2>1, <2>2, <2>3, <2>4, CountsAreNats
<1>9. FileBound'
  <2>. SUFFICES ASSUME NEW f \in File
                PROVE  FileCount(f)' + HolderCount(f)' + In(f, pending') + FreshCount(f)' <= 1
    BY DEF FileBound
  <2>1. FileCount(f) + HolderCount(f) + In(f, pending) + FreshCount(f) <= 1
    BY DEF IInv, FileBound
  <2>2. HolderCount(f)' = HolderCount(f) - In(j, Holders(f)) /\ FreshCount(f)' = FreshCount(f)
    BY <1>2, <1>4, EndedCounts, FreshSame
  <2>3. In(f, pending') \in Nat /\ In(j, Holders(f)) \in Nat
    BY DEF In
  <2>. QED  BY <2>1, <2>2, <2>3, CountsAreNats
<1>. QED  BY <1>3, <1>5, <1>6, <1>7, <1>8, <1>9 DEF IInv, Typed, World

\* A job goes on.
LEMMA BecomeStep ==
    ASSUME IInv, NEW j \in BagToSet(running), NEW k \in JobRecord, Replace(j, k),
           UNCHANGED unchangedByCalls, UNCHANGED queue,
           k.post = j.post, k.what = j.what, k.copy = j.copy,
           RoomKept, MatrixTyped', RoomOK', TrackersTyped', Faulted, JobOK(k)',
           \A p \in Post : /\ MainCount(p)' \in Nat
                           /\ MainCount(p)' + In(k, Senders(p))
                                <= MainCount(p) + In(j, Senders(p)) + faults' - faults,
           \A f \in File : /\ FileCount(f)' \in Nat
                           /\ FileCount(f)' + In(k, Holders(f)) + In(f, pending')
                                <= FileCount(f) + In(j, Holders(f)) + In(f, pending)
    PROVE  IInv'
<1>1. GoroutinesOK /\ j \in JobRecord /\ j \in Unfinished
  BY UnfinishedJobs DEF IInv, Unfinished
<1>2. Became(j, k)
  BY <1>1, ReplaceBecomes
<1>3. GoroutinesOK' /\ Unfinished' \subseteq Unfinished \cup {k}
  BY <1>2 DEF Became
<1>4. UNCHANGED <<posts, remote, dirtyFiles, again>>
  BY DEF unchangedByCalls, mattermost, service
<1>5. MattermostTyped' /\ HistoryTyped' /\ Known'
  <2>1. \A l \in Unfinished' : \E i \in Unfinished : l.post = i.post
    BY <1>1, <1>3
  <2>. QED  BY <2>1, CallTypes, CallKnown
<1>6. PostsNamed'
  BY <1>4, PostsIdle
<1>7. JobsOK'
  BY <1>3, <1>4, JobsStay
<1>8. SentBound'
  <2>. SUFFICES ASSUME NEW p \in Post
                PROVE  MainCount(p)' + SenderCount(p)' + DueCount(p)' <= 1 + again'[p] + faults'
    BY DEF SentBound
  <2>1. MainCount(p) + SenderCount(p) + DueCount(p) <= 1 + again[p] + faults
    BY DEF IInv, SentBound
  <2>2. SenderCount(p)' = SenderCount(p) - In(j, Senders(p)) + In(k, Senders(p))
    BY <1>2, BecameCounts
  <2>3. DueCount(p)' <= DueCount(p)
    BY <1>2, <1>4, BecameDue
  <2>4. again'[p] = again[p] /\ again[p] \in Nat /\ faults' \in Nat
    BY <1>4, <1>5 DEF IInv, Typed, HistoryTyped
  <2>5. In(j, Senders(p)) \in Nat /\ In(k, Senders(p)) \in Nat /\ DueCount(p)' \in Nat
    BY DEF In, DueCount
  <2>. QED  BY <2>1, <2>2, <2>3, <2>4, <2>5, CountsAreNats
<1>9. FileBound'
  <2>. SUFFICES ASSUME NEW f \in File
                PROVE  FileCount(f)' + HolderCount(f)' + In(f, pending') + FreshCount(f)' <= 1
    BY DEF FileBound
  <2>1. FileCount(f) + HolderCount(f) + In(f, pending) + FreshCount(f) <= 1
    BY DEF IInv, FileBound
  <2>2. /\ HolderCount(f)' = HolderCount(f) - In(j, Holders(f)) + In(k, Holders(f))
        /\ FreshCount(f)' = FreshCount(f)
    BY <1>2, <1>4, BecameCounts, FreshSame
  <2>3. In(f, pending') \in Nat /\ In(j, Holders(f)) \in Nat /\ In(k, Holders(f)) \in Nat
    BY DEF In
  <2>. QED  BY <2>1, <2>2, <2>3, CountsAreNats
<1>. QED  BY <1>3, <1>5, <1>6, <1>7, <1>8, <1>9 DEF IInv, Typed, World

LEMMA RunningJob ==
    ASSUME IInv, NEW j \in BagToSet(running)
    PROVE  j \in JobRecord /\ j \in Unfinished /\ JobOK(j)
BY UnfinishedJobs DEF IInv, World, JobsOK, Unfinished

LEMMA TrackersSame ==
    ASSUME IInv, UNCHANGED trackers
    PROVE  TrackersTyped' /\ pending' = pending
BY DEF IInv, Typed, TrackersTyped, trackers, Tracked

\* A job ends, or goes on, that has left the room as it was.
LEMMA QuietEnd ==
    ASSUME IInv, NEW j \in BagToSet(running), UNCHANGED unchangedByCalls, Finish(j), UNCHANGED queue,
           UNCHANGED room, TrackersTyped', pending' \subseteq pending, Faulted,
           SendsFor(j, j.post) /\ j.main # 0 /\ posts[j.post].state # "deleted" => faults' = faults + 1
    PROVE  IInv'
<1>1. UNCHANGED <<room, remote>>
  BY DEF unchangedByCalls, mattermost
<1>2. Kept /\ RoomKept /\ MatrixTyped' /\ RoomOK'
  BY <1>1, RoomSame
<1>3. ASSUME NEW p \in Post
      PROVE  /\ MainCount(p)' \in Nat
             /\ MainCount(p)' + (IF SendsFor(j, p) /\ j.main # 0 /\ posts[p].state # "deleted"
                                 THEN 1 ELSE 0)
                  <= MainCount(p) + faults' - faults
  <2>1. MainCount(p)' = MainCount(p) /\ MainCount(p) \in Nat /\ faults \in Nat
    BY <1>2, CountsAreNats DEF Kept
  <2>2. SendsFor(j, p) => p = j.post
    BY DEF SendsFor
  <2>. QED  BY <2>1, <2>2 DEF Faulted
<1>4. ASSUME NEW f \in File
      PROVE  /\ FileCount(f)' \in Nat
             /\ FileCount(f)' + In(f, pending') <= FileCount(f) + In(f, pending) + In(j, Holders(f))
  <2>1. FileCount(f)' = FileCount(f) /\ FileCount(f) \in Nat
    BY <1>2, CountsAreNats DEF Kept
  <2>2. In(f, pending') <= In(f, pending) /\ In(f, pending) \in Nat /\ In(f, pending') \in Nat /\ In(j, Holders(f)) \in Nat
    BY DEF In
  <2>. QED  BY <2>1, <2>2
<1>. QED  BY <1>2, <1>3, <1>4, EndStep

LEMMA QuietBecome ==
    ASSUME IInv, NEW j \in BagToSet(running), NEW k \in JobRecord, Replace(j, k),
           UNCHANGED unchangedByCalls, UNCHANGED queue,
           k.post = j.post, k.what = j.what, k.copy = j.copy,
           UNCHANGED room, TrackersTyped', Faulted, JobOK(k),
           SendsFor(j, j.post) => (k.main = 0 => j.main = 0),
           \A f \in File : In(k, Holders(f)) + In(f, pending') <= In(j, Holders(f)) + In(f, pending)
    PROVE  IInv'
<1>1. UNCHANGED <<room, remote>>
  BY DEF unchangedByCalls, mattermost
<1>2. Kept /\ RoomKept /\ MatrixTyped' /\ RoomOK'
  BY <1>1, RoomSame
<1>3. ASSUME NEW p \in Post
      PROVE  /\ MainCount(p)' \in Nat
             /\ MainCount(p)' + In(k, Senders(p)) <= MainCount(p) + In(j, Senders(p)) + faults' - faults
  <2>1. MainCount(p)' = MainCount(p) /\ MainCount(p) \in Nat /\ faults \in Nat
    BY <1>2, CountsAreNats DEF Kept
  <2>2. k \in Senders(p) => j \in Senders(p)
    BY RunningJob DEF SendsFor, Senders
  <2>3. In(k, Senders(p)) <= In(j, Senders(p)) /\ In(k, Senders(p)) \in Nat /\ In(j, Senders(p)) \in Nat
    BY <2>2 DEF In
  <2>. QED  BY <2>1, <2>3 DEF Faulted
<1>4. ASSUME NEW f \in File
      PROVE  /\ FileCount(f)' \in Nat
             /\ FileCount(f)' + In(k, Holders(f)) + In(f, pending') <= FileCount(f) + In(j, Holders(f)) + In(f, pending)
  <2>1. FileCount(f)' = FileCount(f) /\ FileCount(f) \in Nat
    BY <1>2, CountsAreNats DEF Kept
  <2>2. /\ In(f, pending) \in Nat /\ In(f, pending') \in Nat /\ In(j, Holders(f)) \in Nat
        /\ In(k, Holders(f)) \in Nat
    BY DEF In
  <2>3. In(k, Holders(f)) + In(f, pending') <= In(j, Holders(f)) + In(f, pending)
    OBVIOUS
  <2>. QED  BY <2>1, <2>2, <2>3
<1>5. JobOK(k)'
  <2>1. MatrixTyped
    BY DEF IInv, Typed
  <2>. QED  BY <1>1, <1>2, <2>1, JobStays
<1>. QED  BY <1>2, <1>3, <1>4, <1>5, BecomeStep

LEMMA FaultIsFaulted == Fault => Faulted /\ faults' = faults + 1
BY DEF Fault, Faulted

LEMMA SameIsFaulted == UNCHANGED faults => Faulted
BY DEF Faulted

LEMMA FailEarlyIInv ==
    ASSUME IInv, NEW j \in BagToSet(running), FailEarly(j)
    PROVE  IInv'
<1>1. /\ j.pc = "begin" /\ Finish(j) /\ UNCHANGED unchangedByCalls /\ UNCHANGED queue /\ UNCHANGED room
      /\ UNCHANGED trackers /\ faults' = faults + 1 /\ Faulted
  BY FaultIsFaulted DEF FailEarly, matrix
<1>2. TrackersTyped' /\ pending' \subseteq pending
  BY <1>1, TrackersSame
<1>. QED  BY <1>1, <1>2, QuietEnd

LEMMA BeginDeleteIInv ==
    ASSUME IInv, NEW j \in BagToSet(running), BeginDelete(j)
    PROVE  IInv'
<1>1. j \in JobRecord /\ JobOK(j)
  BY RunningJob
<1>2. /\ j.pc = "begin" /\ j.what = "post" /\ j.copy.state = "deleted"
      /\ UNCHANGED unchangedByCalls /\ UNCHANGED queue /\ UNCHANGED room /\ UNCHANGED trackers
  BY DEF BeginDelete, matrix
<1>3. TrackersTyped' /\ pending' = pending
  BY <1>2, TrackersSame
<1>4. ~SendsFor(j, j.post)
  BY <1>2 DEF SendsFor, Sends
<1>5. CASE Finish(j) /\ UNCHANGED faults
  BY <1>2, <1>3, <1>4, <1>5, SameIsFaulted, QuietEnd
<1>6. ASSUME NEW evs \in SUBSET Nat, Faulted,
             Replace(j, [j EXCEPT !.pc = "redact", !.main = j.copy.eid, !.evs = evs])
      PROVE  IInv'
  <2>1. PICK k : k = [j EXCEPT !.pc = "redact", !.main = j.copy.eid, !.evs = evs]
    OBVIOUS
  <2>2. /\ k \in JobRecord /\ k.post = j.post /\ k.what = j.what /\ k.copy = j.copy /\ k.files = j.files
        /\ k.pc = "redact" /\ k.main = j.copy.eid /\ k.thread = j.thread /\ k.src = j.src
    BY <1>1, <2>1 DEF JobRecord, Copy
  <2>3. j.copy.eid <= Len(room)
    <3>1. Names(j.post, j.copy.eid) /\ MatrixTyped
      BY <1>1 DEF JobOK, IInv, Typed
    <3>. QED  BY <3>1, RoomCounts DEF Names
  <2>4. JobOK(k)
    BY <1>1, <1>2, <2>2, <2>3 DEF JobOK
  <2>5. ASSUME NEW f \in File  PROVE In(k, Holders(f)) + In(f, pending') <= In(j, Holders(f)) + In(f, pending)
    <3>1. In(k, Holders(f)) = In(j, Holders(f)) /\ In(f, pending') = In(f, pending)
      BY <1>1, <1>3, <2>2 DEF In, Holders
    <3>2. In(j, Holders(f)) \in Nat /\ In(f, pending) \in Nat
      BY DEF In
    <3>. QED  BY <3>1, <3>2
  <2>. QED  BY <1>2, <1>3, <1>4, <1>6, <2>1, <2>2, <2>4, <2>5, QuietBecome
<1>7. FileEvents(j.copy.eid) \in SUBSET Nat /\ {} \in SUBSET Nat
  BY RoomCounts DEF FileEvents, Related, IInv, Typed
<1>8. \/ Finish(j) /\ UNCHANGED faults
      \/ \E evs \in {{}, FileEvents(j.copy.eid)} :
            /\ Replace(j, [j EXCEPT !.pc = "redact", !.main = j.copy.eid, !.evs = evs])
            /\ UNCHANGED faults \/ Fault
  BY DEF BeginDelete
<1>. QED  BY <1>5, <1>6, <1>7, <1>8, FaultIsFaulted, SameIsFaulted

\* A job that goes on with the files it has.
LEMMA SameFiles ==
    ASSUME NEW j \in JobRecord, NEW k \in JobRecord, k.files = j.files, pending' \subseteq pending, NEW f
    PROVE  In(k, Holders(f)) + In(f, pending') <= In(j, Holders(f)) + In(f, pending)
<1>1. In(k, Holders(f)) = In(j, Holders(f)) /\ In(f, pending') <= In(f, pending)
  BY DEF In, Holders
<1>2. In(j, Holders(f)) \in Nat /\ In(f, pending) \in Nat /\ In(f, pending') \in Nat
  BY DEF In
<1>. QED  BY <1>1, <1>2

\* A tracker with fewer entries.
LEMMA FewerTracked ==
    ASSUME NEW T \in [Post -> Nat], NEW U \in [Post -> Nat],
           Cardinality(Tracked(T)) <= MaxTracked, Tracked(U) \subseteq Tracked(T)
    PROVE  Cardinality(Tracked(U)) <= MaxTracked
<1>1. IsFiniteSet(Tracked(T))
  <2>1. Tracked(T) \subseteq Post
    BY DEF Tracked
  <2>. QED  BY <2>1, FS_Subset, PostSyncAssumption
<1>2. IsFiniteSet(Tracked(U)) /\ Cardinality(Tracked(U)) <= Cardinality(Tracked(T))
  BY <1>1, FS_Subset
<1>3. Cardinality(Tracked(U)) \in Nat /\ Cardinality(Tracked(T)) \in Nat
  BY <1>1, <1>2, FS_CardinalityType
<1>4. MaxTracked \in Nat
  BY PostSyncAssumption
<1>. QED  BY <1>2, <1>3, <1>4

LEMMA BeginUpdateIInv ==
    ASSUME IInv, NEW j \in BagToSet(running), BeginUpdate(j)
    PROVE  IInv'
<1>1. j \in JobRecord /\ JobOK(j)
  BY RunningJob
<1>2. /\ j.pc = "begin" /\ j.what = "post" /\ j.copy.eid # 0
      /\ tracker' = [tracker EXCEPT ![j.post] = 0]
      /\ UNCHANGED unchangedByCalls /\ UNCHANGED queue /\ UNCHANGED room /\ UNCHANGED faults
      /\ UNCHANGED <<puts, adds, pending>>
      /\ Finish(j) \/ (j.post \notin remote /\ Goto(j, "compare"))
  BY DEF BeginUpdate, matrix, history, unchangedByCalls
<1>3. TrackersTyped'
  <2>1. TrackersTyped /\ j.post \in Post
    BY <1>1 DEF IInv, Typed, JobRecord
  <2>2. tracker \in [Post -> Nat] /\ tracker' \in [Post -> Nat]
    BY <1>2, <2>1 DEF TrackersTyped
  <2>3. PICK T, U : T = tracker /\ U = tracker'
    OBVIOUS
  <2>4. Tracked(U) \subseteq Tracked(T)
    BY <1>2, <2>1, <2>2, <2>3 DEF Tracked
  <2>5. Cardinality(Tracked(U)) <= MaxTracked
    BY <2>1, <2>2, <2>3, <2>4, FewerTracked, PostSyncAssumption DEF TrackersTyped
  <2>6. Cardinality(Tracked(tracker')) <= MaxTracked
    BY <2>3, <2>5
  <2>. QED  BY <1>2, <2>1, <2>2, <2>6 DEF TrackersTyped, Tracked
<1>4. ~SendsFor(j, j.post)
  BY <1>2 DEF SendsFor, Sends
<1>5. CASE Finish(j)
  BY <1>2, <1>3, <1>4, <1>5, SameIsFaulted, QuietEnd
<1>6. CASE j.post \notin remote /\ Goto(j, "compare")
  <2>1. PICK k : k = [j EXCEPT !.pc = "compare"]
    OBVIOUS
  <2>2. /\ k \in JobRecord /\ k.post = j.post /\ k.what = j.what /\ k.copy = j.copy /\ k.files = j.files
        /\ k.pc = "compare" /\ k.main = j.main /\ k.thread = j.thread /\ k.src = j.src
    BY <1>1, <2>1 DEF JobRecord
  <2>3. JobOK(k)
    BY <1>1, <1>2, <1>6, <2>2 DEF JobOK
  <2>4. Replace(j, k)
    BY <1>6, <2>1 DEF Goto
  <2>5. \A f \in File : In(k, Holders(f)) + In(f, pending') <= In(j, Holders(f)) + In(f, pending)
    BY <1>1, <1>2, <2>2, SameFiles
  <2>. QED  BY <1>2, <1>3, <1>4, <2>2, <2>3, <2>4, <2>5, SameIsFaulted, QuietBecome
<1>. QED  BY <1>2, <1>5, <1>6

LEMMA BeginReactionIInv ==
    ASSUME IInv, NEW j \in BagToSet(running), BeginReaction(j)
    PROVE  IInv'
<1>1. j \in JobRecord /\ JobOK(j)
  BY RunningJob
<1>2. /\ j.pc = "begin" /\ j.what # "post"
      /\ UNCHANGED unchangedByCalls /\ UNCHANGED queue /\ UNCHANGED room /\ UNCHANGED faults
      /\ UNCHANGED trackers
      /\ \/ Finish(j)
         \/ Replace(j, [j EXCEPT !.main = posts[j.post].eid,
                                 !.pc = IF j.what = "react" THEN "annotate" ELSE "find"])
  BY DEF BeginReaction, matrix, history, unchangedByCalls
<1>3. TrackersTyped' /\ pending' = pending
  BY <1>2, TrackersSame
<1>4. ~SendsFor(j, j.post)
  BY <1>2 DEF SendsFor
<1>5. CASE Finish(j)
  BY <1>2, <1>3, <1>4, <1>5, SameIsFaulted, QuietEnd
<1>6. CASE Replace(j, [j EXCEPT !.main = posts[j.post].eid,
                                !.pc = IF j.what = "react" THEN "annotate" ELSE "find"])
  <2>1. PICK k : k = [j EXCEPT !.main = posts[j.post].eid,
                               !.pc = IF j.what = "react" THEN "annotate" ELSE "find"]
    OBVIOUS
  <2>2. PICK e : e = posts[j.post].eid
    OBVIOUS
  <2>3. e \in Nat /\ e <= Len(room)
    <3>1. j.post \in Post /\ posts[j.post] \in Copy /\ Names(j.post, e)
      BY <1>1, <2>2 DEF IInv, World, PostsNamed, Typed, MattermostTyped, JobRecord
    <3>2. e \in Nat
      BY <2>2, <3>1 DEF Copy
    <3>3. MatrixTyped
      BY DEF IInv, Typed
    <3>. QED  BY <3>1, <3>2, <3>3, RoomCounts DEF Names
  <2>4. /\ k \in JobRecord /\ k.post = j.post /\ k.what = j.what /\ k.copy = j.copy /\ k.files = j.files
        /\ k.pc \in {"annotate", "find"} /\ k.main = e /\ k.thread = j.thread /\ k.src = j.src
    BY <1>1, <2>1, <2>2, <2>3 DEF JobRecord
  <2>5. JobOK(k)
    BY <1>1, <1>2, <2>3, <2>4 DEF JobOK
  <2>6. \A f \in File : In(k, Holders(f)) + In(f, pending') <= In(j, Holders(f)) + In(f, pending)
    BY <1>1, <1>3, <2>4, SameFiles
  <2>. QED  BY <1>2, <1>3, <1>4, <1>6, <2>1, <2>4, <2>5, <2>6, SameIsFaulted, QuietBecome
<1>. QED  BY <1>2, <1>5, <1>6

LEMMA BeginCreateIInv ==
    ASSUME IInv, NEW j \in BagToSet(running), BeginCreate(j)
    PROVE  IInv'
<1>1. j \in JobRecord /\ JobOK(j)
  BY RunningJob
<1>. DEFINE files == GetFiles(j.post)
            thread == IF Root[j.post] # NoPost /\ posts[Root[j.post]].state = "live"
                      THEN posts[Root[j.post]].eid ELSE 0
            pc == IF j.copy.text = 0 THEN "files" ELSE "text"
<1>2. /\ j.pc = "begin" /\ j.what = "post" /\ Sends(j.copy)
      /\ UNCHANGED unchangedByCalls /\ UNCHANGED queue /\ UNCHANGED room /\ UNCHANGED faults
      /\ UNCHANGED <<tracker, puts, adds>> /\ pending' = pending \ files
      /\ \/ Finish(j)
         \/ /\ j.post \notin remote
            /\ Replace(j, [j EXCEPT !.thread = thread, !.files = files, !.pc = pc])
  BY DEF BeginCreate, matrix, history, unchangedByCalls
<1>3. TrackersTyped' /\ pending' \subseteq pending
  BY <1>2 DEF IInv, Typed, TrackersTyped, Tracked
<1>4. j.main = 0 /\ j.files = {} /\ j.post \in Post
  BY <1>1, <1>2 DEF JobOK, JobRecord
<1>5. CASE Finish(j)
  BY <1>2, <1>3, <1>4, <1>5, SameIsFaulted, QuietEnd
<1>6. CASE j.post \notin remote /\ Replace(j, [j EXCEPT !.thread = thread, !.files = files, !.pc = pc])
  <2>1. PICK k : k = [j EXCEPT !.thread = thread, !.files = files, !.pc = pc]
    OBVIOUS
  <2>2. thread \in Nat /\ thread <= Len(room)
    <3>1. MatrixTyped
      BY DEF IInv, Typed
    <3>2. CASE thread = 0
      BY <3>1, <3>2, RoomCounts
    <3>3. CASE thread # 0
      <4>1. PICK r \in Post : thread = posts[r].eid
        <5>1. Root[j.post] \in Post
          BY <1>4, <3>3, PostSyncAssumption
        <5>. QED  BY <3>3, <5>1
      <4>2. posts[r] \in Copy /\ Names(r, thread)
        BY <4>1 DEF IInv, World, PostsNamed, Typed, MattermostTyped
      <4>3. thread \in Nat
        BY <4>1, <4>2 DEF Copy
      <4>. QED  BY <3>1, <4>2, <4>3, RoomCounts DEF Names
    <3>. QED  BY <3>2, <3>3
  <2>3. files \subseteq File /\ files = pending \cap FilesOf[j.post] /\ pc \in {"files", "text"}
    BY DEF GetFiles, IInv, Typed, TrackersTyped
  <2>. HIDE DEF files, thread, pc
  <2>4. /\ k \in JobRecord /\ k.post = j.post /\ k.what = j.what /\ k.copy = j.copy /\ k.files = files
        /\ k.pc \in {"files", "text"} /\ k.main = 0 /\ k.thread = thread /\ k.src = j.src
    BY <1>1, <1>4, <2>1, <2>2, <2>3 DEF JobRecord
  <2>5. JobOK(k)
    <3>1. k.main <= Len(room) /\ Names(k.post, k.main)
      BY <1>1, <1>4, <2>4 DEF JobOK, Names
    <3>. QED  BY <1>1, <1>2, <1>6, <2>2, <2>4, <3>1 DEF JobOK
  <2>6. ASSUME NEW f \in File  PROVE In(k, Holders(f)) + In(f, pending') <= In(j, Holders(f)) + In(f, pending)
    <3>1. In(k, Holders(f)) = In(f, files)
      BY <2>4 DEF In, Holders
    <3>2. In(j, Holders(f)) = 0
      BY <1>4 DEF In, Holders
    <3>3. In(f, files) + In(f, pending') <= In(f, pending)
      BY <1>2, <2>3 DEF In
    <3>. QED  BY <3>1, <3>2, <3>3 DEF In
  <2>7. Replace(j, k)
    BY <1>6, <2>1
  <2>8. /\ UNCHANGED unchangedByCalls /\ UNCHANGED queue /\ UNCHANGED room /\ Faulted
        /\ j.main = 0
    BY <1>2, <1>4, SameIsFaulted
  <2>. QED  BY ONLY IInv, j \in BagToSet(running), <1>3, <2>4, <2>5, <2>6, <2>7, <2>8, QuietBecome
<1>. QED  BY <1>2, <1>5, <1>6

-----------------------------------------------------------------------------
(* Sending *)

LEMMA MessageOK ==
    ASSUME IInv, NEW j \in JobRecord, JobOK(j), j.pc \in {"text", "files"},
           NEW kind \in {"text", "file"}, NEW f \in File \cup {NoFile},
           NEW e, e = Message(j, kind, f)
    PROVE  /\ e \in Event /\ e.target <= Len(room) /\ e.post = j.post /\ e.kind = kind /\ e.file = f
           /\ e.main <=> j.main = 0
           /\ j.post \in Post /\ j.post \notin remote /\ j.post # NoPost
<1>1. /\ j.post \in Post /\ j.post \notin remote /\ j.post # NoPost /\ j.thread \in Nat /\ j.main \in Nat
      /\ j.copy.text \in Nat /\ j.thread <= Len(room) /\ j.main <= Len(room)
  BY PostSyncAssumption DEF JobRecord, Copy, JobOK
<1>. DEFINE text == IF kind = "text" THEN j.copy.text ELSE 0
            rel == IF j.thread # 0 THEN "thread" ELSE IF j.main # 0 THEN "post" ELSE "none"
            target == IF j.thread # 0 THEN j.thread ELSE j.main
<1>2. text \in Nat /\ rel \in {"none", "thread", "post", "annotation"} /\ target \in Nat /\ target <= Len(room)
  BY <1>1
<1>3. e = [post |-> j.post, kind |-> kind, text |-> text, file |-> f, rel |-> rel, target |-> target,
           main |-> j.main = 0, edited |-> FALSE, shown |-> 0, redacted |-> FALSE]
  BY DEF Message
<1>. HIDE DEF text, rel, target
<1>4. e.target = target /\ e.post = j.post /\ e.kind = kind /\ e.file = f
  BY <1>3
<1>6. e.main <=> j.main = 0
  <2>1. PICK m \in BOOLEAN : m <=> j.main = 0
    OBVIOUS
  <2>2. e = [post |-> j.post, kind |-> kind, text |-> text, file |-> f, rel |-> rel, target |-> target,
             main |-> m, edited |-> FALSE, shown |-> 0, redacted |-> FALSE]
    BY <1>3, <2>1
  <2>3. e.main = m
    BY <2>2
  <2>. QED  BY <2>1, <2>3
<1>5. e \in Event
  BY <1>1, <1>2, <1>3 DEF Event
<1>. QED  BY <1>1, <1>2, <1>4, <1>5, <1>6

\* A message is the first of its post if the job has made none.
LEMMA MessageCounts ==
    ASSUME NEW j \in JobRecord, NEW e \in Event, e.post = j.post, e.kind \in {"text", "file"},
           e.main <=> j.main = 0, j.what = "post", Sends(j.copy), NEW p
    PROVE  In(e, MainEvents(p)) = In(j, Senders(p))
BY DEF In, MainEvents, Senders

LEMMA SendTextIInv ==
    ASSUME IInv, NEW j \in BagToSet(running), SendText(j)
    PROVE  IInv'
<1>1. j \in JobRecord /\ JobOK(j)
  BY RunningJob
<1>2. PICK e : e = Message(j, "text", NoFile)
  OBVIOUS
<1>3. /\ j.pc = "text" /\ UNCHANGED unchangedByCalls /\ UNCHANGED trackers /\ UNCHANGED queue
      /\ \/ /\ Made(e)
            /\ Replace(j, [j EXCEPT !.main = Len(room) + 1, !.pc = IF j.files = {} THEN "store" ELSE "files"])
         \/ Refused /\ Finish(j)
         \/ MadeInVain(e) /\ Finish(j)
  BY <1>2 DEF SendText
<1>4. j.main = 0 /\ j.what = "post" /\ Sends(j.copy)
  BY <1>1, <1>3 DEF JobOK
<1>5. /\ e \in Event /\ e.target <= Len(room) /\ e.post = j.post /\ e.kind = "text" /\ e.file = NoFile
      /\ e.main <=> j.main = 0
      /\ j.post \in Post /\ j.post \notin remote /\ j.post # NoPost
  BY <1>1, <1>2, <1>3, MessageOK
<1>6. UNCHANGED remote
  BY <1>3 DEF unchangedByCalls, mattermost
<1>7. TrackersTyped' /\ pending' = pending
  BY <1>3, TrackersSame
<1>8. ASSUME NEW f \in File  PROVE In(e, Carriers(f)) = 0
  BY <1>5, PostSyncAssumption DEF In, Carriers
<1>9. CASE /\ Made(e)
           /\ Replace(j, [j EXCEPT !.main = Len(room) + 1, !.pc = IF j.files = {} THEN "store" ELSE "files"])
  <2>1. room' = Append(room, e) /\ Faulted
    BY <1>9, SameIsFaulted DEF Made
  <2>2. Grown(e) /\ RoomKept /\ MatrixTyped' /\ RoomOK'
    BY <1>5, <1>6, <2>1, GrownRoom
  <2>3. PICK n, m : n = Len(room) /\ m = n + 1
    OBVIOUS
  <2>4. n \in Nat /\ m \in Nat /\ m = n + 1 /\ MatrixTyped
    BY <2>3, RoomCounts DEF IInv, Typed
  <2>. DEFINE pc == IF j.files = {} THEN "store" ELSE "files"
  <2>5. PICK k : k = [j EXCEPT !.main = m, !.pc = pc]
    OBVIOUS
  <2>11. pc \in {"store", "files"}
    OBVIOUS
  <2>12. Replace(j, k)
    BY <1>9, <2>3, <2>5
  <2>. HIDE DEF pc
  <2>6. /\ k \in JobRecord /\ k.post = j.post /\ k.what = j.what /\ k.copy = j.copy /\ k.files = j.files
        /\ k.pc \in {"store", "files"} /\ k.main = m /\ k.thread = j.thread /\ k.src = j.src
    BY <1>1, <2>4, <2>5, <2>11 DEF JobRecord
  <2>7. JobOK(k)'
    <3>1. JobOK(j)'
      BY <1>1, <1>6, <2>2, <2>4, JobStays
    <3>2. Len(room') = m /\ m \in DOMAIN room' /\ room'[m].post = j.post
      BY <1>5, <2>2, <2>3 DEF Grown
    <3>3. Names(k.post, k.main)'
      BY <1>5, <1>6, <2>6, <3>2 DEF Names
    <3>4. j.post \notin remote'
      BY <1>5, <1>6
    <3>. QED  BY <1>3, <1>4, <2>4, <2>6, <3>1, <3>2, <3>3, <3>4 DEF JobOK
  <2>8. ASSUME NEW p \in Post
        PROVE  /\ MainCount(p)' \in Nat
               /\ MainCount(p)' + In(k, Senders(p)) <= MainCount(p) + In(j, Senders(p)) + faults' - faults
    <3>1. MainCount(p)' = MainCount(p) + In(j, Senders(p))
      BY <1>1, <1>4, <1>5, <2>2, MessageCounts DEF Grown
    <3>2. In(k, Senders(p)) = 0
      BY <2>4, <2>6 DEF In, Senders
    <3>3. In(j, Senders(p)) \in Nat
      BY DEF In
    <3>. QED  BY <2>1, <3>1, <3>2, <3>3, CountsAreNats DEF Faulted
  <2>9. ASSUME NEW f \in File
        PROVE  /\ FileCount(f)' \in Nat
               /\ FileCount(f)' + In(k, Holders(f)) + In(f, pending') <= FileCount(f) + In(j, Holders(f)) + In(f, pending)
    <3>1. FileCount(f)' = FileCount(f)
      BY <1>8, <2>2, CountsAreNats DEF Grown
    <3>2. In(k, Holders(f)) + In(f, pending') <= In(j, Holders(f)) + In(f, pending)
      BY <1>1, <1>7, <2>6, SameFiles
    <3>3. In(k, Holders(f)) \in Nat /\ In(f, pending') \in Nat /\ In(j, Holders(f)) \in Nat /\ In(f, pending) \in Nat
      BY DEF In
    <3>. QED  BY <3>1, <3>2, <3>3, CountsAreNats
  <2>. QED  BY <1>3, <1>7, <2>1, <2>2, <2>6, <2>7, <2>8, <2>9, <2>12, BecomeStep
<1>10. CASE Refused /\ Finish(j)
  <2>1. Faulted /\ UNCHANGED room
    BY <1>10, FaultIsFaulted DEF Refused, matrix
  <2>. QED  BY <1>3, <1>4, <1>7, <1>10, <2>1, QuietEnd
<1>11. CASE MadeInVain(e) /\ Finish(j)
  <2>1. room' = Append(room, e) /\ Faulted /\ faults' = faults + 1
    BY <1>11, FaultIsFaulted DEF MadeInVain
  <2>2. Grown(e) /\ RoomKept /\ MatrixTyped' /\ RoomOK'
    BY <1>5, <1>6, <2>1, GrownRoom
  <2>3. ASSUME NEW p \in Post
        PROVE  /\ MainCount(p)' \in Nat
               /\ MainCount(p)' + (IF SendsFor(j, p) /\ j.main # 0 /\ posts[p].state # "deleted"
                                   THEN 1 ELSE 0)
                    <= MainCount(p) + faults' - faults
    <3>1. MainCount(p)' = MainCount(p) + In(e, MainEvents(p)) /\ In(e, MainEvents(p)) \in {0, 1}
      BY <2>2, InType DEF Grown
    <3>. QED  BY <1>4, <2>1, <3>1, CountsAreNats
  <2>4. ASSUME NEW f \in File
        PROVE  /\ FileCount(f)' \in Nat
               /\ FileCount(f)' + In(f, pending') <= FileCount(f) + In(f, pending) + In(j, Holders(f))
    <3>1. FileCount(f)' = FileCount(f)
      BY <1>8, <2>2, CountsAreNats DEF Grown
    <3>2. In(f, pending') = In(f, pending) /\ In(f, pending) \in Nat /\ In(j, Holders(f)) \in Nat
      BY <1>7 DEF In
    <3>. QED  BY <3>1, <3>2, CountsAreNats
  <2>. QED  BY <1>3, <1>7, <1>11, <2>1, <2>2, <2>3, <2>4, EndStep
<1>. QED  BY <1>3, <1>9, <1>10, <1>11

\* A job that goes on without f: it is at its next file, or at the end.
Without(j, f, m, pc) == [j EXCEPT !.main = m, !.files = @ \ {f}, !.pc = pc]
LEMMA WithoutFile ==
    ASSUME NEW j \in JobRecord, NEW f \in j.files, NEW m \in Nat, NEW pc \in {"store", "files"},
           NEW k, k = Without(j, f, m, pc)
    PROVE  /\ k \in JobRecord /\ k.post = j.post /\ k.what = j.what /\ k.copy = j.copy
           /\ k.files = j.files \ {f} /\ k.pc = pc /\ k.main = m /\ k.thread = j.thread /\ k.src = j.src
           /\ \A g : In(k, Holders(g)) = IF g = f THEN 0 ELSE In(j, Holders(g))
           /\ In(j, Holders(f)) = 1
<1>1. PICK files : files = j.files \ {f}
  OBVIOUS
<1>2. k = [j EXCEPT !.main = m, !.files = files, !.pc = pc]
  BY <1>1 DEF Without
<1>3. files \subseteq File
  BY <1>1 DEF JobRecord
<1>4. /\ k \in JobRecord /\ k.post = j.post /\ k.what = j.what /\ k.copy = j.copy
      /\ k.files = files /\ k.pc = pc /\ k.main = m /\ k.thread = j.thread /\ k.src = j.src
  BY <1>2, <1>3 DEF JobRecord
<1>5. \A g : In(k, Holders(g)) = IF g = f THEN 0 ELSE In(j, Holders(g))
  BY <1>1, <1>4 DEF In, Holders
<1>6. In(j, Holders(f)) = 1
  BY DEF In, Holders
<1>. QED  BY <1>1, <1>4, <1>5, <1>6

LEMMA SendFileIInv ==
    ASSUME IInv, NEW j \in BagToSet(running), SendFile(j)
    PROVE  IInv'
<1>1. j \in JobRecord /\ JobOK(j)
  BY RunningJob
<1>2. /\ j.pc = "files" /\ UNCHANGED unchangedByCalls /\ UNCHANGED trackers /\ UNCHANGED queue
  BY DEF SendFile
<1>. DEFINE next(f) == IF j.files = {f} THEN "store" ELSE "files"
            then(m, f) == [j EXCEPT !.main = m, !.files = @ \ {f}, !.pc = next(f)]
<1>3. PICK f \in j.files :
         \/ /\ Made(Message(j, "file", f))
            /\ LET m == IF j.main = 0 THEN Len(room) + 1 ELSE j.main
               IN  IF j.files = {f} /\ m = 0 THEN Finish(j) ELSE Replace(j, then(m, f))
         \/ /\ Refused \/ MadeInVain(Message(j, "file", f))
            /\ IF j.files = {f} /\ j.main = 0 THEN Finish(j) ELSE Replace(j, then(j.main, f))
  BY DEF SendFile
<1>4. PICK e, pc : e = Message(j, "file", f) /\ pc = next(f)
  OBVIOUS
<1>5. f \in File /\ pc \in {"store", "files"} /\ (pc = "store" => j.files = {f})
  BY <1>1, <1>4 DEF JobRecord
<1>6. j.what = "post" /\ Sends(j.copy) /\ j.main \in Nat
  BY <1>1, <1>2 DEF JobOK, JobRecord
<1>7. /\ e \in Event /\ e.target <= Len(room) /\ e.post = j.post /\ e.kind = "file" /\ e.file = f
      /\ e.main <=> j.main = 0
      /\ j.post \in Post /\ j.post \notin remote /\ j.post # NoPost
  BY <1>1, <1>2, <1>4, <1>5, MessageOK
<1>8. UNCHANGED remote
  BY <1>2 DEF unchangedByCalls, mattermost
<1>9. TrackersTyped' /\ pending' = pending
  BY <1>2, TrackersSame
<1>10. \A g \in File : In(e, Carriers(g)) = IF g = f THEN 1 ELSE 0
  BY <1>7 DEF In, Carriers
<1>11. \A p : In(e, MainEvents(p)) = In(j, Senders(p))
  BY <1>1, <1>6, <1>7, MessageCounts
<1>12. PICK n, l : n = Len(room) /\ l = n + 1
  OBVIOUS
<1>13. n \in Nat /\ l \in Nat /\ l = n + 1 /\ l # 0 /\ MatrixTyped
  BY <1>12, RoomCounts DEF IInv, Typed
<1>14. \/ Made(e) /\ j.main = 0 /\ Replace(j, then(l, f))
       \/ Made(e) /\ j.main # 0 /\ Replace(j, then(j.main, f))
       \/ (Refused \/ MadeInVain(e)) /\ j.main = 0 /\ j.files = {f} /\ Finish(j)
       \/ (Refused \/ MadeInVain(e)) /\ j.main = 0 /\ j.files # {f} /\ Replace(j, then(j.main, f))
       \/ (Refused \/ MadeInVain(e)) /\ j.main # 0 /\ Replace(j, then(j.main, f))
  BY <1>3, <1>4, <1>12, <1>13
<1>15. \A m : then(m, f) = Without(j, f, m, pc)
  BY <1>4 DEF Without
<1>. HIDE DEF next, then
\* The room with the file's event, or without it.
<1>16. ASSUME Made(e) \/ MadeInVain(e)
       PROVE  /\ Grown(e) /\ RoomKept /\ MatrixTyped' /\ RoomOK' /\ Faulted
              /\ \A p \in Post : MainCount(p)' = MainCount(p) + In(j, Senders(p))
              /\ \A g \in File : FileCount(g)' = FileCount(g) + IF g = f THEN 1 ELSE 0
  <2>1. room' = Append(room, e) /\ Faulted
    BY <1>16, FaultIsFaulted, SameIsFaulted DEF Made, MadeInVain
  <2>2. Grown(e) /\ RoomKept /\ MatrixTyped' /\ RoomOK'
    BY <1>7, <1>8, <2>1, GrownRoom
  <2>. QED  BY <1>10, <1>11, <2>1, <2>2 DEF Grown
<1>17. ASSUME Refused
       PROVE  /\ Kept /\ RoomKept /\ MatrixTyped' /\ RoomOK' /\ Faulted
              /\ \A p \in Post : MainCount(p)' = MainCount(p)
              /\ \A g \in File : FileCount(g)' = FileCount(g)
  <2>1. UNCHANGED <<room, remote>> /\ Faulted
    BY <1>8, <1>17, FaultIsFaulted DEF Refused, matrix
  <2>2. Kept /\ RoomKept /\ MatrixTyped' /\ RoomOK'
    BY <2>1, RoomSame
  <2>. QED  BY <2>1, <2>2 DEF Kept
<1>18. ASSUME Refused \/ MadeInVain(e)
       PROVE  faults' = faults + 1 /\ ~Made(e)
  <2>1. faults' = faults + 1
    BY <1>18, FaultIsFaulted DEF Refused, MadeInVain
  <2>2. faults \in Nat
    BY CountsAreNats
  <2>. QED  BY <2>1, <2>2 DEF Made
\* The job goes on, with the post's first event m.
<1>19. ASSUME NEW m \in Nat, Replace(j, then(m, f)), Made(e) \/ MadeInVain(e) \/ Refused,
              pc = "store" => m # 0,
              (m = j.main /\ (Made(e) => m # 0)) \/ (Made(e) /\ m = l)
       PROVE  IInv'
  <2>1. PICK k : k = then(m, f)
    OBVIOUS
  <2>2. k = Without(j, f, m, pc)
    BY <1>15, <2>1
  <2>3. /\ k \in JobRecord /\ k.post = j.post /\ k.what = j.what /\ k.copy = j.copy
        /\ k.files = j.files \ {f} /\ k.pc = pc /\ k.main = m /\ k.thread = j.thread /\ k.src = j.src
        /\ \A g : In(k, Holders(g)) = IF g = f THEN 0 ELSE In(j, Holders(g))
        /\ In(j, Holders(f)) = 1
    BY <1>1, <1>5, <2>2, WithoutFile
  <2>4. RoomKept /\ MatrixTyped' /\ RoomOK' /\ Faulted
    BY <1>16, <1>17, <1>19
  <2>5. m <= Len(room') /\ Names(j.post, m)'
    <3>1. CASE m = j.main
      <4>1. JobOK(j)'
        BY <1>1, <1>8, <1>13, <2>4, JobStays
      <4>2. j.main <= Len(room') /\ Names(j.post, j.main)'
        BY <1>2, <4>1 DEF JobOK
      <4>. QED  BY <3>1, <4>2
    <3>2. CASE Made(e) /\ m = l
      <4>1. Len(room') = l /\ l \in DOMAIN room' /\ room'[l].post = j.post
        BY <1>7, <1>12, <1>16, <3>2 DEF Grown
      <4>2. Names(j.post, l)'
        BY <1>7, <1>8, <4>1 DEF Names
      <4>. QED  BY <1>13, <3>2, <4>1, <4>2
    <3>. QED  BY <1>19, <3>1, <3>2
  <2>6. JobOK(k)'
    <3>1. JobOK(j)'
      BY <1>1, <1>8, <1>13, <2>4, JobStays
    <3>2. j.post \notin remote'
      BY <1>7, <1>8
    <3>3. Names(k.post, k.main)'
      BY <2>3, <2>5
    <3>. QED  BY <1>2, <1>5, <1>6, <1>19, <2>3, <2>5, <3>1, <3>2, <3>3 DEF JobOK
  <2>7. ASSUME NEW p \in Post
        PROVE  /\ MainCount(p)' \in Nat
               /\ MainCount(p)' + In(k, Senders(p)) <= MainCount(p) + In(j, Senders(p)) + faults' - faults
    <3>1. In(k, Senders(p)) = IF m = 0 THEN In(j, Senders(p)) ELSE 0
      <4>1. k \in Senders(p) <=> m = 0 /\ k.post = p
        BY <1>6, <2>3 DEF Senders
      <4>2. j \in Senders(p) <=> j.main = 0 /\ j.post = p
        BY <1>1, <1>6 DEF Senders
      <4>3. m = 0 => j.main = 0
        BY <1>13, <1>19
      <4>. QED  BY <2>3, <4>1, <4>2, <4>3 DEF In
    <3>2. In(j, Senders(p)) \in {0, 1} /\ MainCount(p) \in Nat /\ faults \in Nat
      BY InType, CountsAreNats
    <3>3. CASE Made(e) /\ m # 0
      <4>1. MainCount(p)' = MainCount(p) + In(j, Senders(p)) /\ In(k, Senders(p)) = 0
        BY <1>16, <3>1, <3>3
      <4>. QED  BY <2>4, <3>2, <4>1 DEF Faulted
    <3>4. CASE Made(e) /\ m = 0
      BY <1>13, <1>19, <3>4
    <3>5. CASE MadeInVain(e)
      <4>1. MainCount(p)' = MainCount(p) + In(j, Senders(p)) /\ faults' = faults + 1
        BY <1>16, <1>18, <3>5
      <4>2. In(k, Senders(p)) \in Nat /\ In(k, Senders(p)) <= In(j, Senders(p))
        BY <3>1, <3>2
      <4>. QED  BY <3>2, <4>1, <4>2
    <3>6. CASE Refused
      <4>1. MainCount(p)' = MainCount(p) /\ faults' = faults + 1
        BY <1>17, <1>18, <3>6
      <4>2. In(k, Senders(p)) \in Nat /\ In(k, Senders(p)) <= In(j, Senders(p))
        BY <3>1, <3>2
      <4>. QED  BY <3>2, <4>1, <4>2
    <3>. QED  BY <1>19, <3>3, <3>4, <3>5, <3>6
  <2>8. ASSUME NEW g \in File
        PROVE  /\ FileCount(g)' \in Nat
               /\ FileCount(g)' + In(k, Holders(g)) + In(g, pending')
                    <= FileCount(g) + In(j, Holders(g)) + In(g, pending)
    <3>1. FileCount(g) \in Nat /\ In(g, pending') = In(g, pending) /\ In(g, pending) \in Nat
      BY <1>9, CountsAreNats
    <3>2. In(j, Holders(g)) \in {0, 1}
      BY InType
    <3>3. FileCount(g)' \in Nat /\ FileCount(g)' <= FileCount(g) + IF g = f THEN 1 ELSE 0
      BY <1>16, <1>17, <1>19, <3>1
    <3>4. In(k, Holders(g)) + (IF g = f THEN 1 ELSE 0) = In(j, Holders(g))
      BY <2>3, <3>2
    <3>5. In(k, Holders(g)) \in {0, 1}
      BY InType
    <3>. QED  BY <3>1, <3>2, <3>3, <3>4, <3>5
  <2>. QED  BY <1>2, <1>9, <1>19, <2>1, <2>3, <2>4, <2>6, <2>7, <2>8, BecomeStep
\* The job ends without an event.
<1>20. ASSUME j.main = 0, j.files = {f}, Finish(j), Refused \/ MadeInVain(e)
       PROVE  IInv'
  <2>1. RoomKept /\ MatrixTyped' /\ RoomOK' /\ Faulted /\ faults' = faults + 1
    BY <1>16, <1>17, <1>18, <1>20
  <2>2. ASSUME NEW p \in Post
        PROVE  /\ MainCount(p)' \in Nat
               /\ MainCount(p)' + (IF SendsFor(j, p) /\ j.main # 0 /\ posts[p].state # "deleted"
                                   THEN 1 ELSE 0)
                    <= MainCount(p) + faults' - faults
    <3>1. MainCount(p) \in Nat /\ faults \in Nat /\ In(j, Senders(p)) \in {0, 1}
      BY InType, CountsAreNats
    <3>2. MainCount(p)' \in Nat /\ MainCount(p)' <= MainCount(p) + 1
      BY <1>16, <1>17, <1>20, <3>1
    <3>. QED  BY <1>20, <2>1, <3>1, <3>2
  <2>3. ASSUME NEW g \in File
        PROVE  /\ FileCount(g)' \in Nat
               /\ FileCount(g)' + In(g, pending') <= FileCount(g) + In(g, pending) + In(j, Holders(g))
    <3>1. FileCount(g) \in Nat /\ In(g, pending') = In(g, pending) /\ In(g, pending) \in Nat
      BY <1>9, CountsAreNats
    <3>2. In(j, Holders(g)) = IF g = f THEN 1 ELSE 0
      BY <1>1, <1>20 DEF In, Holders
    <3>3. FileCount(g)' \in Nat /\ FileCount(g)' <= FileCount(g) + IF g = f THEN 1 ELSE 0
      BY <1>16, <1>17, <1>20, <3>1
    <3>. QED  BY <3>1, <3>2, <3>3
  <2>. QED  BY <1>2, <1>9, <1>20, <2>1, <2>2, <2>3, EndStep
<1>21. CASE Made(e) /\ j.main = 0 /\ Replace(j, then(l, f))
  BY <1>13, <1>19, <1>21
<1>22. CASE Made(e) /\ j.main # 0 /\ Replace(j, then(j.main, f))
  BY <1>6, <1>19, <1>22
<1>23. CASE (Refused \/ MadeInVain(e)) /\ j.main = 0 /\ j.files = {f} /\ Finish(j)
  BY <1>20, <1>23
<1>24. CASE (Refused \/ MadeInVain(e)) /\ j.main = 0 /\ j.files # {f} /\ Replace(j, then(j.main, f))
  BY <1>5, <1>6, <1>18, <1>19, <1>24
<1>25. CASE (Refused \/ MadeInVain(e)) /\ j.main # 0 /\ Replace(j, then(j.main, f))
  BY <1>6, <1>19, <1>25
<1>. QED  BY <1>14, <1>21, <1>22, <1>23, <1>24, <1>25

-----------------------------------------------------------------------------
(* The trackers, edits, redactions and reactions *)

LEMMA CleanedUp ==
    ASSUME NEW T \in [Post -> Nat], NEW U, U \in CleanupOldEntries(T)
    PROVE  U \in [Post -> Nat] /\ Tracked(U) \subseteq Tracked(T)
<1>1. PICK old \in SUBSET {p \in Tracked(T) : InPeace(p)} :
         U = [p \in Post |-> IF p \in old THEN 0 ELSE T[p]]
  BY DEF CleanupOldEntries
<1>. QED  BY <1>1 DEF Tracked

LEMMA OneMoreTracked ==
    ASSUME NEW T \in [Post -> Nat], ~Full(T), NEW p \in Post, NEW v \in Nat,
           NEW U, U = [T EXCEPT ![p] = v]
    PROVE  U \in [Post -> Nat] /\ Cardinality(Tracked(U)) <= MaxTracked
<1>1. U \in [Post -> Nat] /\ Tracked(U) \subseteq Tracked(T) \cup {p}
  BY DEF Tracked
<1>2. IsFiniteSet(Tracked(T)) /\ Cardinality(Tracked(T)) \in Nat
  <2>1. Tracked(T) \subseteq Post
    BY DEF Tracked
  <2>2. IsFiniteSet(Tracked(T))
    BY <2>1, FS_Subset, PostSyncAssumption
  <2>. QED  BY <2>2, FS_CardinalityType
<1>3. /\ IsFiniteSet(Tracked(T) \cup {p})
      /\ Cardinality(Tracked(T) \cup {p}) <= Cardinality(Tracked(T)) + 1
      /\ Cardinality(Tracked(T) \cup {p}) \in Nat
  <2>1. /\ IsFiniteSet(Tracked(T) \cup {p})
        /\ Cardinality(Tracked(T) \cup {p}) = IF p \in Tracked(T) THEN Cardinality(Tracked(T))
                                              ELSE Cardinality(Tracked(T)) + 1
    BY <1>2, FS_AddElement
  <2>. QED  BY <1>2, <2>1
<1>4. IsFiniteSet(Tracked(U)) /\ Cardinality(Tracked(U)) <= Cardinality(Tracked(T) \cup {p})
  BY <1>1, <1>3, FS_Subset
<1>5. Cardinality(Tracked(U)) \in Nat
  BY <1>4, FS_CardinalityType
<1>6. MaxTracked \in Nat /\ ~ (Cardinality(Tracked(T)) >= MaxTracked)
  BY PostSyncAssumption DEF Full
<1>. QED  BY <1>1, <1>2, <1>3, <1>4, <1>5, <1>6

LEMMA TrackTypes ==
    ASSUME IInv, NEW j \in JobRecord, Track(j)
    PROVE  TrackersTyped'
<1>1. /\ tracker \in [Post -> Nat] /\ Cardinality(Tracked(tracker)) <= MaxTracked
      /\ puts \in 0..(CleanupEvery - 1) /\ CleanupEvery \in Nat \ {0}
      /\ j.post \in Post /\ j.copy.at \in Nat
  BY PostSyncAssumption DEF IInv, Typed, TrackersTyped, JobRecord, Copy
<1>2. PICK count : count = IF Full(tracker) THEN 0 ELSE puts
  OBVIOUS
<1>3. count \in 0..(CleanupEvery - 1)
  BY <1>1, <1>2
<1>4. PICK T \in IF Full(tracker) THEN CleanupOldEntries(tracker) ELSE {tracker} :
         IF Full(T) THEN tracker' = T /\ puts' = count
         ELSE /\ puts' = (count + 1) % CleanupEvery
              /\ tracker' \in IF puts' = 0 THEN CleanupOldEntries([T EXCEPT ![j.post] = j.copy.at])
                                           ELSE {[T EXCEPT ![j.post] = j.copy.at]}
  BY <1>2 DEF Track
<1>5. T \in [Post -> Nat] /\ Tracked(T) \subseteq Tracked(tracker)
  <2>1. PICK U : U = tracker
    OBVIOUS
  <2>2. T \in CleanupOldEntries(U) \/ T = U
    BY <1>4, <2>1
  <2>. QED  BY <1>1, <2>1, <2>2, CleanedUp
<1>6. Cardinality(Tracked(T)) <= MaxTracked
  BY <1>1, <1>5, FewerTracked
<1>7. puts' \in 0..(CleanupEvery - 1)
  BY <1>1, <1>3, <1>4
<1>8. PICK V : V = tracker'
  OBVIOUS
<1>9. V \in [Post -> Nat] /\ Cardinality(Tracked(V)) <= MaxTracked
  <2>1. CASE Full(T)
    BY <1>4, <1>5, <1>6, <1>8, <2>1
  <2>2. CASE ~Full(T)
    <3>1. PICK added : added = [T EXCEPT ![j.post] = j.copy.at]
      OBVIOUS
    <3>2. added \in [Post -> Nat] /\ Cardinality(Tracked(added)) <= MaxTracked
      BY <1>1, <1>5, <2>2, <3>1, OneMoreTracked
    <3>3. V \in CleanupOldEntries(added) \/ V = added
      BY <1>4, <1>8, <2>2, <3>1
    <3>4. V \in [Post -> Nat] /\ Tracked(V) \subseteq Tracked(added)
      BY <3>2, <3>3, CleanedUp
    <3>. QED  BY <3>2, <3>4, FewerTracked
  <2>. QED  BY <2>1, <2>2
<1>10. UNCHANGED <<pending, adds>>
  BY DEF Track
<1>11. Cardinality(Tracked(tracker')) <= MaxTracked
  BY <1>8, <1>9
<1>. QED  BY <1>7, <1>8, <1>9, <1>10, <1>11 DEF IInv, Typed, TrackersTyped, Tracked

LEMMA TrackIInv ==
    ASSUME IInv, NEW j \in BagToSet(running), Track(j)
    PROVE  IInv'
<1>1. j \in JobRecord /\ JobOK(j)
  BY RunningJob
<1>2. /\ j.pc = "track" /\ Finish(j) /\ UNCHANGED unchangedByCalls /\ UNCHANGED queue /\ UNCHANGED room
      /\ UNCHANGED faults /\ pending' = pending
  BY DEF Track, history, unchangedByCalls, matrix
<1>3. ~SendsFor(j, j.post)
  BY <1>1, <1>2 DEF JobOK, SendsFor, Sends
<1>4. TrackersTyped'
  BY <1>1, TrackTypes
<1>. QED  BY <1>2, <1>3, <1>4, SameIsFaulted, QuietEnd

LEMMA CompareIInv ==
    ASSUME IInv, NEW j \in BagToSet(running), Compare(j)
    PROVE  IInv'
<1>1. j \in JobRecord /\ JobOK(j)
  BY RunningJob
<1>2. /\ j.pc = "compare" /\ UNCHANGED unchangedByCalls /\ UNCHANGED queue /\ UNCHANGED room
      /\ UNCHANGED <<tracker, puts, adds>> /\ pending' = pending \ GetFiles(j.post)
      /\ Finish(j) \/ Goto(j, "edit")
      /\ Faulted
  BY FaultIsFaulted, SameIsFaulted DEF Compare, matrix
<1>3. ~SendsFor(j, j.post)
  BY <1>1, <1>2 DEF JobOK, SendsFor, Sends
<1>4. TrackersTyped' /\ pending' \subseteq pending
  BY <1>2 DEF IInv, Typed, TrackersTyped, Tracked
<1>5. CASE Finish(j)
  BY <1>2, <1>3, <1>4, <1>5, QuietEnd
<1>6. CASE Goto(j, "edit")
  <2>1. PICK k : k = [j EXCEPT !.pc = "edit"]
    OBVIOUS
  <2>2. /\ k \in JobRecord /\ k.post = j.post /\ k.what = j.what /\ k.copy = j.copy /\ k.files = j.files
        /\ k.pc = "edit" /\ k.main = j.main /\ k.thread = j.thread /\ k.src = j.src
    BY <1>1, <2>1 DEF JobRecord
  <2>3. JobOK(k)
    BY <1>1, <1>2, <2>2 DEF JobOK
  <2>4. Replace(j, k)
    BY <1>6, <2>1 DEF Goto
  <2>5. \A f \in File : In(k, Holders(f)) + In(f, pending') <= In(j, Holders(f)) + In(f, pending)
    BY <1>1, <1>4, <2>2, SameFiles
  <2>. QED  BY <1>2, <1>3, <1>4, <2>2, <2>3, <2>4, <2>5, QuietBecome
<1>. QED  BY <1>2, <1>5, <1>6

\* A job ends, or goes on, that has altered an event.
LEMMA AlteringEnd ==
    ASSUME IInv, NEW j \in BagToSet(running), UNCHANGED unchangedByCalls, Finish(j), UNCHANGED queue,
           UNCHANGED trackers, Kept, RoomKept, MatrixTyped', RoomOK', Faulted, ~SendsFor(j, j.post)
    PROVE  IInv'
<1>1. TrackersTyped' /\ pending' = pending
  BY TrackersSame
<1>2. ASSUME NEW p \in Post
      PROVE  /\ MainCount(p)' \in Nat
             /\ MainCount(p)' + (IF SendsFor(j, p) /\ j.main # 0 /\ posts[p].state # "deleted"
                                 THEN 1 ELSE 0)
                  <= MainCount(p) + faults' - faults
  <2>1. MainCount(p)' = MainCount(p) /\ MainCount(p) \in Nat /\ faults \in Nat /\ ~SendsFor(j, p)
    BY CountsAreNats DEF Kept, SendsFor
  <2>. QED  BY <2>1 DEF Faulted
<1>3. ASSUME NEW f \in File
      PROVE  /\ FileCount(f)' \in Nat
             /\ FileCount(f)' + In(f, pending') <= FileCount(f) + In(f, pending) + In(j, Holders(f))
  <2>1. FileCount(f)' = FileCount(f) /\ FileCount(f) \in Nat
    BY CountsAreNats DEF Kept
  <2>2. In(f, pending') = In(f, pending) /\ In(f, pending) \in Nat /\ In(j, Holders(f)) \in Nat
    BY <1>1 DEF In
  <2>. QED  BY <2>1, <2>2
<1>. QED  BY <1>1, <1>2, <1>3, EndStep

LEMMA AlteringBecome ==
    ASSUME IInv, NEW j \in BagToSet(running), NEW k \in JobRecord, Replace(j, k),
           UNCHANGED unchangedByCalls, UNCHANGED queue,
           k.post = j.post, k.what = j.what, k.copy = j.copy, k.files = j.files,
           UNCHANGED trackers, Kept, RoomKept, MatrixTyped', RoomOK', Faulted, JobOK(k),
           ~SendsFor(j, j.post)
    PROVE  IInv'
<1>1. TrackersTyped' /\ pending' = pending
  BY TrackersSame
<1>2. j \in JobRecord
  BY RunningJob
<1>3. ASSUME NEW p \in Post
      PROVE  /\ MainCount(p)' \in Nat
             /\ MainCount(p)' + In(k, Senders(p)) <= MainCount(p) + In(j, Senders(p)) + faults' - faults
  <2>1. MainCount(p)' = MainCount(p) /\ MainCount(p) \in Nat /\ faults \in Nat
    BY CountsAreNats DEF Kept
  <2>2. In(k, Senders(p)) = 0 /\ In(j, Senders(p)) \in Nat
    BY DEF SendsFor, In, Senders
  <2>. QED  BY <2>1, <2>2 DEF Faulted
<1>4. ASSUME NEW f \in File
      PROVE  /\ FileCount(f)' \in Nat
             /\ FileCount(f)' + In(k, Holders(f)) + In(f, pending') <= FileCount(f) + In(j, Holders(f)) + In(f, pending)
  <2>1. FileCount(f)' = FileCount(f) /\ FileCount(f) \in Nat
    BY CountsAreNats DEF Kept
  <2>2. In(k, Holders(f)) + In(f, pending') <= In(j, Holders(f)) + In(f, pending)
    BY <1>1, <1>2, SameFiles
  <2>3. /\ In(f, pending) \in Nat /\ In(f, pending') \in Nat /\ In(j, Holders(f)) \in Nat
        /\ In(k, Holders(f)) \in Nat
    BY DEF In
  <2>. QED  BY <2>1, <2>2, <2>3
<1>5. JobOK(k)'
  <2>1. MatrixTyped /\ UNCHANGED remote
    BY DEF IInv, Typed, unchangedByCalls, mattermost
  <2>. QED  BY <2>1, JobStays
<1>. QED  BY <1>1, <1>3, <1>4, <1>5, BecomeStep

LEMMA EditIInv ==
    ASSUME IInv, NEW j \in BagToSet(running), Edit(j)
    PROVE  IInv'
<1>1. j \in JobRecord /\ JobOK(j)
  BY RunningJob
<1>2. PICK e, text : e = j.copy.eid /\ text = j.copy.text
  OBVIOUS
<1>3. /\ j.pc = "edit" /\ UNCHANGED unchangedByCalls /\ UNCHANGED trackers /\ UNCHANGED queue /\ Finish(j)
      /\ \/ room' = [room EXCEPT ![e].edited = TRUE, ![e].shown = text] /\ UNCHANGED faults
         \/ Refused
  BY <1>2 DEF Edit
<1>4. ~SendsFor(j, j.post)
  BY <1>1, <1>3 DEF JobOK, SendsFor, Sends
<1>5. UNCHANGED remote
  BY <1>3 DEF unchangedByCalls, mattermost
<1>6. CASE Refused
  <2>1. Faulted /\ UNCHANGED <<room, remote>>
    BY <1>5, <1>6, FaultIsFaulted DEF Refused, matrix
  <2>2. Kept /\ RoomKept /\ MatrixTyped' /\ RoomOK'
    BY <2>1, RoomSame
  <2>. QED  BY <1>3, <1>4, <2>1, <2>2, AlteringEnd
<1>7. CASE room' = [room EXCEPT ![e].edited = TRUE, ![e].shown = text] /\ UNCHANGED faults
  <2>1. MatrixTyped /\ text \in Nat
    BY <1>1, <1>2 DEF IInv, Typed, JobRecord, Copy
  <2>2. e \in DOMAIN room /\ room[e].post = j.post /\ j.post # NoPost
    BY <1>1, <1>2, <1>3, PostSyncAssumption DEF JobOK, Names, JobRecord
  <2>3. PICK x : x = [room[e] EXCEPT !.edited = TRUE, !.shown = text]
    OBVIOUS
  <2>4. room[e] \in Event
    BY <2>1, <2>2 DEF MatrixTyped
  <2>5. /\ x \in Event /\ x.post = room[e].post /\ x.kind = room[e].kind /\ x.target = room[e].target
        /\ x.main = room[e].main /\ x.file = room[e].file
    BY <2>1, <2>3, <2>4 DEF Event
  <2>6. room' = [room EXCEPT ![e] = x]
    BY <1>7, <2>2, <2>3
  <2>7. Kept
    <3>1. room' \in Seq(Event) /\ DOMAIN room' = DOMAIN room /\ Len(room') = Len(room)
      BY <2>1, <2>2, <2>5, <2>6 DEF MatrixTyped
    <3>2. \A i \in DOMAIN room : room'[i] = IF i = e THEN x ELSE room[i]
      BY <2>6
    <3>. QED  BY <2>1, <2>5, <3>1, <3>2, RoomAltered
  <2>8. \A i \in DOMAIN room : room[i].post = NoPost => room'[i].edited = room[i].edited
    BY <2>2, <2>6
  <2>9. RoomKept /\ MatrixTyped' /\ RoomOK'
    BY <1>5, <2>7, <2>8, KeptRoom
  <2>. QED  BY <1>3, <1>4, <1>7, <2>7, <2>9, SameIsFaulted, AlteringEnd
<1>. QED  BY <1>3, <1>6, <1>7

LEMMA FindReactionIInv ==
    ASSUME IInv, NEW j \in BagToSet(running), FindReaction(j)
    PROVE  IInv'
<1>1. j \in JobRecord /\ JobOK(j)
  BY RunningJob
<1>2. /\ j.pc = "find" /\ UNCHANGED unchangedByCalls /\ UNCHANGED trackers /\ UNCHANGED queue
      /\ UNCHANGED room
      /\ Faulted
      /\ Finish(j) \/ \E i \in DOMAIN room : Replace(j, [j EXCEPT !.pc = "redact", !.main = i])
  BY FaultIsFaulted, SameIsFaulted DEF FindReaction, matrix, Related
<1>3. ~SendsFor(j, j.post)
  BY <1>1, <1>2 DEF JobOK, SendsFor
<1>4. UNCHANGED <<room, remote>>
  BY <1>2 DEF unchangedByCalls, mattermost
<1>5. Kept /\ RoomKept /\ MatrixTyped' /\ RoomOK'
  BY <1>4, RoomSame
<1>6. CASE Finish(j)
  BY <1>2, <1>3, <1>5, <1>6, AlteringEnd
<1>7. ASSUME NEW i \in DOMAIN room, Replace(j, [j EXCEPT !.pc = "redact", !.main = i])
      PROVE  IInv'
  <2>1. PICK k : k = [j EXCEPT !.pc = "redact", !.main = i]
    OBVIOUS
  <2>2. i \in Nat /\ i <= Len(room)
    BY RoomCounts DEF IInv, Typed
  <2>3. /\ k \in JobRecord /\ k.post = j.post /\ k.what = j.what /\ k.copy = j.copy /\ k.files = j.files
        /\ k.pc = "redact" /\ k.main = i /\ k.thread = j.thread /\ k.src = j.src
    BY <1>1, <2>1, <2>2 DEF JobRecord
  <2>4. JobOK(k)
    BY <1>1, <1>2, <2>2, <2>3 DEF JobOK
  <2>. QED  BY <1>2, <1>3, <1>5, <1>7, <2>1, <2>3, <2>4, AlteringBecome
<1>. QED  BY <1>2, <1>6, <1>7

LEMMA RedactIInv ==
    ASSUME IInv, NEW j \in BagToSet(running), Redact(j)
    PROVE  IInv'
<1>1. j \in JobRecord /\ JobOK(j)
  BY RunningJob
<1>2. /\ j.pc = "redact" /\ UNCHANGED unchangedByCalls /\ UNCHANGED trackers /\ UNCHANGED queue
      /\ \E e \in IF j.evs = {} THEN {j.main} ELSE j.evs :
            /\ Replace(j, [j EXCEPT !.evs = @ \ {e}]) \/ Finish(j)
            /\ (room' = [room EXCEPT ![e].redacted = TRUE] /\ UNCHANGED faults) \/ Refused
  BY DEF Redact
<1>3. ~SendsFor(j, j.post)
  BY <1>1, <1>2 DEF JobOK, SendsFor, Sends
<1>4. UNCHANGED remote
  BY <1>2 DEF unchangedByCalls, mattermost
<1>5. PICK e \in IF j.evs = {} THEN {j.main} ELSE j.evs :
         /\ Replace(j, [j EXCEPT !.evs = @ \ {e}]) \/ Finish(j)
         /\ (room' = [room EXCEPT ![e].redacted = TRUE] /\ UNCHANGED faults) \/ Refused
  BY <1>2
<1>6. Kept /\ RoomKept /\ MatrixTyped' /\ RoomOK' /\ Faulted
  <2>1. CASE Refused
    <3>1. Faulted /\ UNCHANGED <<room, remote>>
      BY <1>4, <2>1, FaultIsFaulted DEF Refused, matrix
    <3>. QED  BY <3>1, RoomSame
  <2>2. CASE room' = [room EXCEPT ![e].redacted = TRUE] /\ UNCHANGED faults
    <3>1. room \in Seq(Event) /\ MatrixTyped
      BY DEF IInv, Typed, MatrixTyped
    <3>2. PICK x : x = [room[e] EXCEPT !.redacted = TRUE]
      OBVIOUS
    <3>3. room' = [room EXCEPT ![e] = x]
      BY <2>2, <3>2
    <3>4. e \in DOMAIN room =>
            /\ x \in Event /\ x.post = room[e].post /\ x.kind = room[e].kind
            /\ x.target = room[e].target /\ x.main = room[e].main /\ x.file = room[e].file
            /\ x.edited = room[e].edited
      <4>1. e \in DOMAIN room => room[e] \in Event
        BY <3>1
      <4>. QED  BY <3>2, <4>1 DEF Event
    <3>5. /\ room' \in Seq(Event) /\ DOMAIN room' = DOMAIN room /\ Len(room') = Len(room)
          /\ \A i \in DOMAIN room : room'[i] = IF i = e THEN x ELSE room[i]
      <4>1. CASE e \in DOMAIN room
        BY <3>1, <3>3, <3>4, <4>1
      <4>2. CASE e \notin DOMAIN room
        <5>1. room' = room
          BY <3>1, <3>3, <4>2
        <5>. QED  BY <3>1, <4>2, <5>1
      <4>. QED  BY <4>1, <4>2
    <3>6. Kept
      BY <3>1, <3>4, <3>5, RoomAltered
    <3>7. \A i \in DOMAIN room : room[i].post = NoPost => room'[i].edited = room[i].edited
      BY <3>4, <3>5
    <3>. QED  BY <1>4, <2>2, <3>6, <3>7, KeptRoom, SameIsFaulted
  <2>. QED  BY <1>5, <2>1, <2>2
<1>7. CASE Finish(j)
  BY <1>2, <1>3, <1>6, <1>7, AlteringEnd
<1>8. CASE Replace(j, [j EXCEPT !.evs = @ \ {e}])
  <2>1. PICK evs : evs = j.evs \ {e}
    OBVIOUS
  <2>2. PICK k : k = [j EXCEPT !.evs = evs]
    OBVIOUS
  <2>3. evs \in SUBSET Nat
    BY <1>1, <2>1 DEF JobRecord
  <2>4. /\ k \in JobRecord /\ k.post = j.post /\ k.what = j.what /\ k.copy = j.copy /\ k.files = j.files
        /\ k.pc = j.pc /\ k.main = j.main /\ k.thread = j.thread /\ k.src = j.src
    BY <1>1, <2>2, <2>3 DEF JobRecord
  <2>5. JobOK(k)
    BY <1>1, <2>4 DEF JobOK
  <2>6. Replace(j, k)
    BY <1>8, <2>1, <2>2
  <2>. QED  BY <1>2, <1>3, <1>6, <2>4, <2>5, <2>6, AlteringBecome
<1>. QED  BY <1>5, <1>7, <1>8

LEMMA AnnotateIInv ==
    ASSUME IInv, NEW j \in BagToSet(running), Annotate(j)
    PROVE  IInv'
<1>1. j \in JobRecord /\ JobOK(j)
  BY RunningJob
<1>2. PICK e : e = [post |-> j.post, kind |-> "reaction", text |-> 0, file |-> NoFile,
                    rel |-> "annotation", target |-> j.main, main |-> FALSE, edited |-> FALSE,
                    shown |-> 0, redacted |-> FALSE]
  OBVIOUS
<1>3. /\ j.pc = "annotate" /\ UNCHANGED unchangedByCalls /\ UNCHANGED trackers /\ UNCHANGED queue /\ Finish(j)
      /\ \/ UNCHANGED room /\ UNCHANGED faults
         \/ room' = Append(room, e) /\ UNCHANGED faults
         \/ Refused
  BY <1>2 DEF Annotate, Made, matrix
<1>4. ~SendsFor(j, j.post)
  BY <1>1, <1>3 DEF JobOK, SendsFor
<1>5. UNCHANGED remote
  BY <1>3 DEF unchangedByCalls, mattermost
<1>6. CASE UNCHANGED room /\ Faulted
  <2>1. Kept /\ RoomKept /\ MatrixTyped' /\ RoomOK'
    BY <1>5, <1>6, RoomSame
  <2>. QED  BY <1>3, <1>4, <1>6, <2>1, AlteringEnd
<1>7. CASE room' = Append(room, e) /\ UNCHANGED faults
  <2>1. /\ j.post \in Post /\ j.post # NoPost /\ j.main \in Nat /\ j.main <= Len(room)
    BY <1>1, PostSyncAssumption DEF JobRecord, JobOK
  <2>2. /\ e \in Event /\ e.target = j.main /\ e.post = j.post /\ e.kind = "reaction" /\ e.file = NoFile
        /\ ~e.main
    BY <1>2, <2>1 DEF Event
  <2>3. Grown(e) /\ RoomKept /\ MatrixTyped' /\ RoomOK'
    BY <1>5, <1>7, <2>1, <2>2, GrownRoom
  <2>4. ASSUME NEW p \in Post
        PROVE  /\ MainCount(p)' \in Nat
               /\ MainCount(p)' + (IF SendsFor(j, p) /\ j.main # 0 /\ posts[p].state # "deleted"
                                   THEN 1 ELSE 0)
                    <= MainCount(p) + faults' - faults
    <3>1. MainCount(p)' = MainCount(p) + In(e, MainEvents(p)) /\ In(e, MainEvents(p)) = 0
      BY <2>2, <2>3 DEF Grown, In, MainEvents
    <3>2. ~SendsFor(j, p)
      BY <1>4 DEF SendsFor
    <3>. QED  BY <1>7, <3>1, <3>2, CountsAreNats
  <2>5. ASSUME NEW f \in File
        PROVE  /\ FileCount(f)' \in Nat
               /\ FileCount(f)' + In(f, pending') <= FileCount(f) + In(f, pending) + In(j, Holders(f))
    <3>1. FileCount(f)' = FileCount(f) + In(e, Carriers(f)) /\ In(e, Carriers(f)) = 0
      BY <2>2, <2>3, PostSyncAssumption DEF Grown, In, Carriers
    <3>2. In(f, pending') = In(f, pending) /\ In(f, pending) \in Nat /\ In(j, Holders(f)) \in Nat
      BY <1>3, TrackersSame DEF In
    <3>. QED  BY <3>1, <3>2, CountsAreNats
  <2>. QED  BY <1>3, <1>7, <2>3, <2>4, <2>5, SameIsFaulted, TrackersSame, EndStep
<1>8. Refused => UNCHANGED room /\ Faulted
  BY FaultIsFaulted DEF Refused, matrix
<1>. QED  BY <1>3, <1>6, <1>7, <1>8, SameIsFaulted

-----------------------------------------------------------------------------
(* Storing the event id *)

\* A job has become another, and a third has come.
Stored(j, k, m) ==
    /\ GoroutinesOK'
    /\ \A S \in SUBSET JobRecord : Number(S)' = Number(S) - In(j, S) + In(k, S) + In(m, S)
    /\ Unfinished' \subseteq Unfinished \cup {k, m}
    /\ Unfinished \subseteq Unfinished' \cup {j}

LEMMA StoreJoins ==
    ASSUME GoroutinesOK, QueueSize \in Nat, NEW j \in BagToSet(running), NEW k \in JobRecord,
           NEW m \in JobRecord, NEW later, later = (running (-) SetToBag({j})) (+) SetToBag({k}),
           \/ Len(queue) < QueueSize /\ queue' = Append(queue, m) /\ running' = later
           \/ running' = later (+) SetToBag({m}) /\ UNCHANGED queue
    PROVE  Stored(j, k, m)
<1>1. PICK B, C, D, E, q, r : /\ B = running /\ C = B (-) SetToBag({j}) /\ D = C (+) SetToBag({k})
                              /\ E = running' /\ q = queue /\ r = queue'
  OBVIOUS
<1>2. IsABag(B) /\ BagToSet(B) \subseteq JobRecord /\ j \in DOMAIN B
  BY <1>1 DEF GoroutinesOK, BagToSet
<1>3. IsABag(C) /\ DOMAIN C \subseteq DOMAIN B /\ DOMAIN B \subseteq DOMAIN C \cup {j}
  BY <1>1, <1>2, BagRemove
<1>4. IsABag(D) /\ DOMAIN D = DOMAIN C \cup {k}
  BY <1>1, <1>3, BagAdd
<1>5. ASSUME NEW S \in SUBSET JobRecord
      PROVE  /\ IsFiniteSet(Copies(D, S))
             /\ Cardinality(Copies(D, S)) = Cardinality(Copies(B, S)) - In(j, S) + In(k, S)
             /\ Cardinality(Copies(B, S)) \in Nat
  <2>1. IsFiniteSet(Copies(B, S)) /\ Cardinality(Copies(B, S)) \in Nat
    BY <1>1, NumberType
  <2>2. /\ IsFiniteSet(Copies(C, S))
        /\ Cardinality(Copies(C, S)) = Cardinality(Copies(B, S)) - In(j, S)
    BY <1>1, <1>2, <2>1, CopiesRemove
  <2>3. /\ IsFiniteSet(Copies(D, S))
        /\ Cardinality(Copies(D, S)) = Cardinality(Copies(C, S)) + In(k, S)
    BY <1>1, <1>3, <2>2, CopiesAdd
  <2>. QED  BY <2>1, <2>2, <2>3
<1>6. \A S : In(j, S) \in Nat /\ In(k, S) \in Nat /\ In(m, S) \in Nat
  BY DEF In
<1>7. PICK J : J = JobRecord
  OBVIOUS
<1>8. CASE Len(queue) < QueueSize /\ queue' = Append(queue, m) /\ running' = later
  <2>1. E = D /\ r = Append(q, m) /\ q \in Seq(JobRecord)
    BY <1>1, <1>8 DEF GoroutinesOK
  <2>2. r \in Seq(JobRecord) /\ Len(r) = Len(q) + 1 /\ Range(r) = Range(q) \cup {m}
    BY <2>1, AppendRange
  <2>3. ASSUME NEW S \in SUBSET JobRecord
        PROVE  Number(S)' = Number(S) - In(j, S) + In(k, S) + In(m, S)
    <3>1. Number(S) = Cardinality(Copies(B, S)) + Cardinality(Places(q, S))
      BY <1>1 DEF Number
    <3>2. Number(S)' = Cardinality(Copies(D, S)) + Cardinality(Places(r, S))
      BY <1>1, <2>1 DEF Number
    <3>3. Cardinality(Places(r, S)) = Cardinality(Places(q, S)) + In(m, S)
      <4>1. Cardinality(Places(Append(q, m), S)) = Cardinality(Places(q, S)) + In(m, S)
        BY <2>1, PlacesAppend, Zenon
      <4>. QED  BY <2>1, <4>1
    <3>4. Cardinality(Places(q, S)) \in Nat
      BY <1>1, NumberType
    <3>5. /\ Cardinality(Copies(D, S)) = Cardinality(Copies(B, S)) - In(j, S) + In(k, S)
          /\ Cardinality(Copies(B, S)) \in Nat
          /\ In(j, S) \in Nat /\ In(k, S) \in Nat /\ In(m, S) \in Nat
      BY <1>5, <1>6
    <3>. QED  BY ONLY <3>1, <3>2, <3>3, <3>4, <3>5, SMT
  <2>4. GoroutinesOK'
    <3>1. IsFiniteSet(Copies(running', J))
      BY <1>1, <1>5, <1>7, <2>1
    <3>2. Len(r) <= QueueSize
      BY <1>1, <1>8, <2>1, <2>2
    <3>. QED  BY <1>1, <1>2, <1>3, <1>4, <1>7, <2>1, <2>2, <3>1, <3>2 DEF GoroutinesOK, BagToSet
  <2>5. Unfinished' \subseteq Unfinished \cup {k, m} /\ Unfinished \subseteq Unfinished' \cup {j}
    BY <1>1, <1>3, <1>4, <2>1, <2>2 DEF Unfinished, BagToSet
  <2>. QED  BY <2>3, <2>4, <2>5 DEF Stored
<1>9. CASE running' = later (+) SetToBag({m}) /\ UNCHANGED queue
  <2>1. E = D (+) SetToBag({m}) /\ r = q
    BY <1>1, <1>9
  <2>2. IsABag(E) /\ DOMAIN E = DOMAIN D \cup {m}
    BY <1>4, <2>1, BagAdd
  <2>3. ASSUME NEW S \in SUBSET JobRecord
        PROVE  /\ IsFiniteSet(Copies(E, S))
               /\ Cardinality(Copies(E, S)) = Cardinality(Copies(D, S)) + In(m, S)
    BY <1>4, <1>5, <2>1, CopiesAdd
  <2>4. ASSUME NEW S \in SUBSET JobRecord
        PROVE  Number(S)' = Number(S) - In(j, S) + In(k, S) + In(m, S)
    <3>1. Number(S) = Cardinality(Copies(B, S)) + Cardinality(Places(q, S))
      BY <1>1 DEF Number
    <3>2. Number(S)' = Cardinality(Copies(E, S)) + Cardinality(Places(q, S))
      BY <1>1, <2>1 DEF Number
    <3>3. Cardinality(Places(q, S)) \in Nat
      BY <1>1, NumberType
    <3>4. Cardinality(Copies(E, S)) = Cardinality(Copies(B, S)) - In(j, S) + In(k, S) + In(m, S)
      <4>1. /\ Cardinality(Copies(D, S)) = Cardinality(Copies(B, S)) - In(j, S) + In(k, S)
            /\ Cardinality(Copies(E, S)) = Cardinality(Copies(D, S)) + In(m, S)
        BY <1>5, <2>3
      <4>. QED  BY <4>1
    <3>5. /\ Cardinality(Copies(B, S)) \in Nat
          /\ In(j, S) \in Nat /\ In(k, S) \in Nat /\ In(m, S) \in Nat
      BY <1>5, <1>6
    <3>. QED  BY ONLY <3>1, <3>2, <3>3, <3>4, <3>5, SMT
  <2>5. GoroutinesOK'
    <3>1. IsFiniteSet(Copies(running', J))
      BY <1>1, <1>7, <2>3
    <3>. QED  BY <1>1, <1>2, <1>3, <1>4, <1>7, <1>9, <2>2, <3>1 DEF GoroutinesOK, BagToSet
  <2>6. Unfinished' \subseteq Unfinished \cup {k, m} /\ Unfinished \subseteq Unfinished' \cup {j}
    BY <1>1, <1>3, <1>4, <2>1, <2>2 DEF Unfinished, BagToSet
  <2>. QED  BY <2>4, <2>5, <2>6 DEF Stored
<1>. QED  BY <1>8, <1>9

LEMMA StoredCounts ==
    ASSUME NEW j, NEW k, NEW m, Stored(j, k, m), NEW x
    PROVE  /\ SenderCount(x)' = SenderCount(x) - In(j, Senders(x)) + In(k, Senders(x)) + In(m, Senders(x))
           /\ HolderCount(x)' = HolderCount(x) - In(j, Holders(x)) + In(k, Holders(x)) + In(m, Holders(x))
<1>1. PICK S, H : S = Senders(x) /\ H = Holders(x)
  OBVIOUS
<1>2. S \in SUBSET JobRecord /\ H \in SUBSET JobRecord
  BY <1>1 DEF Senders, Holders
<1>3. /\ Number(S)' = Number(S) - In(j, S) + In(k, S) + In(m, S)
      /\ Number(H)' = Number(H) - In(j, H) + In(k, H) + In(m, H)
  BY <1>2 DEF Stored
<1>. QED  BY <1>1, <1>3 DEF SenderCount, HolderCount

\* The post has its event id: no job of those that come will send it.
LEMMA StoreLiveIInv ==
    ASSUME IInv, NEW j \in BagToSet(running), j.pc = "store", posts[j.post].state = "live",
           NEW c, c = [j.copy EXCEPT !.eid = j.main, !.at = posts[j.post].at + 1],
           posts' = [posts EXCEPT ![j.post] = c], dirty' = dirty \cup {j.post},
           NEW k, k = [j EXCEPT !.pc = "track", !.copy = c],
           NEW m \in {Job(j.post, c, "post", "hook"), [Job(j.post, c, "post", "hook") EXCEPT !.src = "worker"]},
           m \in JobRecord /\ k \in JobRecord => Stored(j, k, m),
           UNCHANGED <<remote, reacted, dirtyFiles, dirtyReact, matrix, trackers, said, raced, again,
                       changes, faults>>
    PROVE  IInv'
<1>1. j \in JobRecord /\ JobOK(j) /\ j \in Unfinished
  BY RunningJob
<1>2. PICK p, e : p = j.post /\ e = j.main
  OBVIOUS
<1>3. /\ p \in Post /\ p \notin remote /\ e \in Nat /\ e # 0 /\ Names(p, e) /\ j.copy \in Copy
      /\ Sends(j.copy) /\ j.what = "post" /\ posts \in [Post -> Copy] /\ posts[p].state = "live"
      /\ MattermostTyped /\ MatrixTyped
  BY <1>1, <1>2 DEF JobRecord, JobOK, IInv, Typed, MattermostTyped
<1>4. c \in Copy /\ c.state = "live" /\ c.eid = e
  <2>1. posts[p].at \in Nat /\ j.copy.state = "live"
    BY <1>3 DEF Copy, Sends
  <2>2. PICK at : at = posts[p].at + 1
    OBVIOUS
  <2>3. at \in Nat /\ c = [j.copy EXCEPT !.eid = e, !.at = at]
    BY <1>2, <2>1, <2>2
  <2>. QED  BY <1>3, <2>1, <2>3 DEF Copy
<1>5. /\ k \in JobRecord /\ k.pc = "track" /\ k.post = p /\ k.what = "post" /\ k.copy = c /\ k.main = e
      /\ k.thread = j.thread /\ k.files = j.files /\ k.src = j.src
  BY <1>1, <1>2, <1>3, <1>4 DEF JobRecord
<1>6. /\ m \in JobRecord /\ m.pc = "begin" /\ m.post = p /\ m.what = "post" /\ m.copy = c /\ m.main = 0
      /\ m.thread = 0 /\ m.files = {} /\ m.src # "service"
  BY <1>2, <1>3, <1>4 DEF JobRecord, Job
<1>7. Stored(j, k, m)
  BY <1>5, <1>6
<1>8. GoroutinesOK' /\ Unfinished' \subseteq Unfinished \cup {k, m} /\ Unfinished \subseteq Unfinished' \cup {j}
  BY <1>7 DEF Stored
<1>9. UNCHANGED <<room, remote>> /\ UNCHANGED trackers
  BY DEF matrix
<1>10. Kept /\ RoomKept /\ MatrixTyped' /\ RoomOK'
  BY <1>9, RoomSame
<1>11. TrackersTyped' /\ pending' = pending
  BY <1>9, TrackersSame
<1>12. posts' \in [Post -> Copy] /\ posts'[p] = c /\ \A q \in Post : q # p => posts'[q] = posts[q]
  BY <1>2, <1>3, <1>4
<1>13. MattermostTyped'
  BY <1>2, <1>3, <1>12 DEF MattermostTyped
<1>14. HistoryTyped'
  BY DEF IInv, Typed, HistoryTyped
<1>15. Known'
  <2>1. Known
    BY DEF IInv, World
  <2>2. ASSUME NEW l \in Unfinished'  PROVE posts'[l.post].state # "none"
    <3>1. l.post = p \/ l \in Unfinished
      BY <1>5, <1>6, <1>8
    <3>2. CASE l.post = p
      BY <1>4, <1>12, <3>2
    <3>3. CASE l \in Unfinished /\ l.post # p
      <4>1. l.post \in Post /\ GoroutinesOK
        BY <3>3, UnfinishedJobs DEF IInv, JobRecord
      <4>. QED  BY <1>12, <2>1, <3>3, <4>1 DEF Known
    <3>. QED  BY <3>1, <3>2, <3>3
  <2>3. ASSUME NEW q \in dirty' \cup dirtyReact'  PROVE posts'[q].state # "none"
    <3>1. q = p \/ q \in dirty \cup dirtyReact
      BY <1>2
    <3>2. q \in Post
      BY <1>3, <3>1 DEF MattermostTyped
    <3>. QED  BY <1>4, <1>12, <2>1, <3>1, <3>2 DEF Known
  <2>. QED  BY <2>1, <2>2, <2>3 DEF Known
<1>16. PostsNamed'
  <2>1. PICK Q : Q = {p}
    OBVIOUS
  <2>2. \A q \in Post \ Q : posts'[q].eid = posts[q].eid
    BY <1>12, <2>1
  <2>3. Names(p, e)'
    BY <1>3, <1>9 DEF Names
  <2>4. \A q \in Q : Names(q, posts[q].eid)'
    BY <1>4, <1>12, <2>1, <2>3 DEF Names
  <2>. QED  BY <1>3, <1>9, <1>10, <2>1, <2>2, <2>4, PostsStay
<1>17. JobsOK'
  <2>1. JobOK(j)'
    BY <1>1, <1>3, <1>9, <1>10, JobStays
  <2>2. Names(p, e)'
    BY <1>3, <1>9 DEF Names
  <2>3. JobOK(k)'
    <3>1. j.thread <= Len(room') /\ j.main <= Len(room')
      BY <2>1 DEF JobOK
    <3>2. /\ k.pc = "track" /\ k.post = p /\ k.what = "post" /\ k.copy.eid = e /\ e # 0
          /\ k.main <= Len(room') /\ k.thread <= Len(room')
      BY <1>2, <1>3, <1>4, <1>5, <3>1
    <3>. QED  BY ONLY <2>2, <3>2 DEF JobOK
  <2>4. JobOK(m)'
    <3>1. Len(room') \in Nat
      BY <1>10 DEF MatrixTyped
    <3>. QED  BY <1>4, <1>6, <2>2, <3>1 DEF JobOK
  <2>5. \A l \in Unfinished' : l \in Unfinished \/ JobOK(l)'
    BY <1>8, <2>3, <2>4
  <2>. QED  BY <1>8, <1>9, <1>10, <2>5, JobsStay
<1>18. SentBound'
  <2>. SUFFICES ASSUME NEW q \in Post
                PROVE  MainCount(q)' + SenderCount(q)' + DueCount(q)' <= 1 + again'[q] + faults'
    BY DEF SentBound
  <2>1. MainCount(q) + SenderCount(q) + DueCount(q) <= 1 + again[q] + faults
    BY DEF IInv, SentBound
  <2>2. MainCount(q)' = MainCount(q) /\ again'[q] = again[q] /\ faults' = faults
    BY <1>10 DEF Kept
  <2>3. SenderCount(q)' = SenderCount(q)
    <3>1. In(j, Senders(q)) = 0 /\ In(k, Senders(q)) = 0 /\ In(m, Senders(q)) = 0
      <4>1. j.main # 0 /\ k.copy.eid # 0 /\ m.copy.eid # 0
        <5>1. j.main # 0
          BY ONLY <1>2, <1>3
        <5>2. k.copy.eid # 0
          BY ONLY <1>3, <1>4, <1>5
        <5>3. m.copy.eid # 0
          BY ONLY <1>3, <1>4, <1>6
        <5>. QED  BY <5>1, <5>2, <5>3
      <4>2. j \notin Senders(q) /\ k \notin Senders(q) /\ m \notin Senders(q)
        BY ONLY <4>1 DEF Senders, Sends
      <4>. QED  BY <4>2 DEF In
    <3>2. SenderCount(q)' = SenderCount(q) - In(j, Senders(q)) + In(k, Senders(q)) + In(m, Senders(q))
      BY <1>7, StoredCounts
    <3>. QED  BY <3>1, <3>2, CountsAreNats
  <2>4. DueCount(q)' <= DueCount(q)
    <3>1. CASE q = p
      <4>1. posts'[q].eid # 0 /\ posts'[q].state = "live"
        BY <1>3, <1>4, <1>12, <3>1
      <4>2. DueCount(q)' = 0
        BY <4>1 DEF DueCount, Due, Sends
      <4>. QED  BY <4>2, CountsAreNats
    <3>2. CASE q # p
      <4>1. Sending(q) => Sending(q)'
        BY <1>2, <1>8, <3>2 DEF Sending
      <4>2. posts'[q] = posts[q]
        BY <1>12, <3>2
      <4>3. Due(q)' => Due(q)
        BY <4>1, <4>2 DEF Due
      <4>. QED  BY <4>3, DueType DEF DueCount
    <3>. QED  BY <3>1, <3>2
  <2>5. DueCount(q)' \in Nat /\ again[q] \in Nat
    BY DEF DueCount, IInv, Typed, HistoryTyped
  <2>. QED  BY <2>1, <2>2, <2>3, <2>4, <2>5, CountsAreNats
<1>19. FileBound'
  <2>. SUFFICES ASSUME NEW f \in File
                PROVE  FileCount(f)' + HolderCount(f)' + In(f, pending') + FreshCount(f)' <= 1
    BY DEF FileBound
  <2>1. FileCount(f) + HolderCount(f) + In(f, pending) + FreshCount(f) <= 1
    BY DEF IInv, FileBound
  <2>2. FileCount(f)' = FileCount(f) /\ In(f, pending') = In(f, pending)
    BY <1>10, <1>11 DEF Kept
  <2>3. HolderCount(f)' = HolderCount(f)
    <3>1. In(k, Holders(f)) = In(j, Holders(f)) /\ In(m, Holders(f)) = 0 /\ In(j, Holders(f)) \in Nat
      BY <1>1, <1>5, <1>6 DEF In, Holders
    <3>2. HolderCount(f)' = HolderCount(f) - In(j, Holders(f)) + In(k, Holders(f)) + In(m, Holders(f))
      BY <1>7, StoredCounts
    <3>. QED  BY <3>1, <3>2, CountsAreNats
  <2>4. FreshCount(f)' = FreshCount(f)
    BY <1>3, <1>4, <1>12 DEF FreshCount, Fresh
  <2>. QED  BY <2>1, <2>2, <2>3, <2>4
<1>. QED  BY <1>8, <1>10, <1>11, <1>13, <1>14, <1>15, <1>16, <1>17, <1>18, <1>19 DEF IInv, Typed, World

LEMMA StoreIInv ==
    ASSUME IInv, NEW j \in BagToSet(running), Store(j)
    PROVE  IInv'
<1>1. j \in JobRecord /\ JobOK(j)
  BY RunningJob
<1>2. PICK c, k, m, w, later :
         /\ c = [j.copy EXCEPT !.eid = j.main, !.at = posts[j.post].at + 1]
         /\ k = [j EXCEPT !.pc = "track", !.copy = c]
         /\ m = Job(j.post, c, "post", "hook")
         /\ w = [m EXCEPT !.src = "worker"]
         /\ later = (running (-) SetToBag({j})) (+) SetToBag({k})
  OBVIOUS
<1>3. /\ j.pc = "store"
      /\ \/ /\ posts[j.post].state = "live"
            /\ posts' = [posts EXCEPT ![j.post] = c]
            /\ dirty' = dirty \cup {j.post}
            /\ \/ Len(queue) < QueueSize /\ queue' = Append(queue, w) /\ running' = later
               \/ running' = later (+) SetToBag({m}) /\ UNCHANGED queue
            /\ UNCHANGED faults
         \/ /\ Fault \/ (posts[j.post].state = "deleted" /\ UNCHANGED faults)
            /\ Finish(j)
            /\ UNCHANGED <<posts, dirty, queue>>
      /\ UNCHANGED <<remote, reacted, dirtyFiles, dirtyReact, matrix, trackers, said, raced, again, changes>>
  BY <1>2 DEF Store
<1>4. CASE /\ posts[j.post].state = "live"
           /\ posts' = [posts EXCEPT ![j.post] = c]
           /\ dirty' = dirty \cup {j.post}
           /\ \/ Len(queue) < QueueSize /\ queue' = Append(queue, w) /\ running' = later
              \/ running' = later (+) SetToBag({m}) /\ UNCHANGED queue
           /\ UNCHANGED faults
  <2>1. GoroutinesOK /\ QueueSize \in Nat
    BY PostSyncAssumption DEF IInv
  <2>4. CASE Len(queue) < QueueSize /\ queue' = Append(queue, w) /\ running' = later
    <3>1. w \in JobRecord /\ k \in JobRecord => Stored(j, k, w)
      BY <1>2, <2>1, <2>4, StoreJoins
    <3>2. w \in {Job(j.post, c, "post", "hook"), [Job(j.post, c, "post", "hook") EXCEPT !.src = "worker"]}
      BY <1>2
    <3>. QED  BY <1>2, <1>3, <1>4, <3>1, <3>2, StoreLiveIInv
  <2>5. CASE running' = later (+) SetToBag({m}) /\ UNCHANGED queue
    <3>1. m \in JobRecord /\ k \in JobRecord => Stored(j, k, m)
      BY <1>2, <2>1, <2>5, StoreJoins
    <3>2. m \in {Job(j.post, c, "post", "hook"), [Job(j.post, c, "post", "hook") EXCEPT !.src = "worker"]}
      BY <1>2
    <3>. QED  BY <1>2, <1>3, <1>4, <3>1, <3>2, StoreLiveIInv
  <2>. QED  BY <1>4, <2>4, <2>5
<1>5. CASE /\ Fault \/ (posts[j.post].state = "deleted" /\ UNCHANGED faults)
           /\ Finish(j)
           /\ UNCHANGED <<posts, dirty, queue>>
  <2>1. UNCHANGED unchangedByCalls /\ UNCHANGED room /\ UNCHANGED queue
    BY <1>3, <1>5 DEF unchangedByCalls, mattermost, service, matrix
  <2>2. Faulted /\ (posts[j.post].state # "deleted" => faults' = faults + 1)
    BY <1>5, FaultIsFaulted, SameIsFaulted
  <2>3. TrackersTyped' /\ pending' \subseteq pending
    BY <1>3, TrackersSame
  <2>. QED  BY <1>5, <2>1, <2>2, <2>3, QuietEnd
<1>. QED  BY <1>3, <1>4, <1>5

-----------------------------------------------------------------------------
(* Users and the service *)

LEMMA WorldStep ==
    ASSUME IInv, UNCHANGED remote, RoomKept, MatrixTyped', RoomOK', MattermostTyped', TrackersTyped',
           HistoryTyped', GoroutinesOK',
           \A k \in Unfinished' : k \in Unfinished \/ (JobOK(k)' /\ posts'[k.post].state # "none"),
           \A p \in Post : posts[p].state # "none" => posts'[p].state # "none",
           \A p \in dirty' \cup dirtyReact' : p \in dirty \cup dirtyReact \/ posts'[p].state # "none",
           dirtyFiles' \subseteq dirtyFiles \cup UNION {FilesOf[p] : p \in Post},
           \A p \in Post : posts'[p].eid \in {0, posts[p].eid} \/ Names(p, posts[p].eid)',
           SentBound', FileBound'
    PROVE  IInv'
<1>1. Known /\ GoroutinesOK /\ MattermostTyped
  BY DEF IInv, World, Typed
<1>2. Known'
  <2>1. ASSUME NEW k \in Unfinished'  PROVE posts'[k.post].state # "none"
    <3>1. CASE k \in Unfinished
      <4>1. k.post \in Post /\ posts[k.post].state # "none"
        BY <1>1, <3>1, UnfinishedJobs DEF JobRecord, Known
      <4>. QED  BY <4>1
    <3>. QED  BY <2>1, <3>1
  <2>2. ASSUME NEW p \in dirty' \cup dirtyReact'  PROVE posts'[p].state # "none"
    <3>1. CASE p \in dirty \cup dirtyReact
      <4>1. p \in Post /\ posts[p].state # "none"
        BY <1>1, <3>1 DEF MattermostTyped, Known
      <4>. QED  BY <4>1
    <3>. QED  BY <2>2, <3>1
  <2>3. dirtyFiles' \subseteq UNION {FilesOf[p] : p \in Post}
    BY <1>1 DEF Known
  <2>. QED  BY <2>1, <2>2, <2>3 DEF Known
<1>3. PostsNamed'
  <2>1. PICK Q : Q = {p \in Post : posts'[p].eid # posts[p].eid}
    OBVIOUS
  <2>2. ASSUME NEW p \in Q  PROVE Names(p, posts[p].eid)'
    <3>1. posts'[p].eid = 0 => Names(p, posts[p].eid)'
      BY DEF Names
    <3>. QED  BY <2>1, <2>2, <3>1
  <2>. QED  BY <2>1, <2>2, PostsStay
<1>4. JobsOK'
  BY JobsStay
<1>. QED  BY <1>2, <1>3, <1>4 DEF IInv, Typed, World

\* A call arrives; no event is made.
LEMMA Arrives ==
    ASSUME IInv, NEW j \in JobRecord, Joined(j), JobOK(j), j.files = {}, j.main = 0,
           UNCHANGED remote, UNCHANGED matrix, UNCHANGED trackers,
           MattermostTyped', HistoryTyped', faults' = faults,
           posts'[j.post].state # "none",
           \A p \in Post : posts[p].state # "none" => posts'[p].state # "none",
           dirty' \subseteq dirty \cup {j.post}, dirtyReact' \subseteq dirtyReact \cup {j.post},
           dirtyFiles' \subseteq dirtyFiles \cup UNION {FilesOf[p] : p \in Post},
           \A p \in Post : posts'[p].eid \in {0, posts[p].eid},
           \A p \in Post : SendsFor(j, p) \/ again'[p] = again[p],
           \A p \in Post : SendsFor(j, p) =>
              (DueCount(p) = 1 /\ DueCount(p)' = 0 /\ again'[p] = again[p])
                 \/ (DueCount(p)' <= DueCount(p) /\ again'[p] = again[p] + 1),
           \A p \in Post : ~SendsFor(j, p) => DueCount(p)' <= DueCount(p),
           \A f \in File : FreshCount(f)' <= FreshCount(f)
    PROVE  IInv'
<1>1. UNCHANGED <<room, remote>>
  BY DEF matrix
<1>2. Kept /\ RoomKept /\ MatrixTyped' /\ RoomOK'
  BY <1>1, RoomSame
<1>3. TrackersTyped' /\ pending' = pending
  BY TrackersSame
<1>4. GoroutinesOK' /\ Unfinished' = Unfinished \cup {j}
  BY DEF Joined
<1>5. MatrixTyped
  BY DEF IInv, Typed
<1>6. JobOK(j)'
  BY <1>1, <1>2, <1>5, JobStays
<1>7. \A k \in Unfinished' : k \in Unfinished \/ (JobOK(k)' /\ posts'[k.post].state # "none")
  BY <1>4, <1>6
<1>8. SentBound'
  <2>. SUFFICES ASSUME NEW p \in Post
                PROVE  MainCount(p)' + SenderCount(p)' + DueCount(p)' <= 1 + again'[p] + faults'
    BY DEF SentBound
  <2>1. MainCount(p) + SenderCount(p) + DueCount(p) <= 1 + again[p] + faults
    BY DEF IInv, SentBound
  <2>2. MainCount(p)' = MainCount(p)
    BY <1>2 DEF Kept
  <2>3. SenderCount(p)' = SenderCount(p) + In(j, Senders(p))
    BY JoinedCounts
  <2>4. In(j, Senders(p)) = IF SendsFor(j, p) THEN 1 ELSE 0
    BY DEF In, Senders, SendsFor
  <2>5. DueCount(p)' \in Nat /\ again[p] \in Nat /\ again'[p] \in Nat
    BY DEF DueCount, IInv, Typed, HistoryTyped
  <2>6. CASE SendsFor(j, p)
    BY <2>1, <2>2, <2>3, <2>4, <2>5, <2>6, CountsAreNats
  <2>7. CASE ~SendsFor(j, p)
    BY <2>1, <2>2, <2>3, <2>4, <2>5, <2>7, CountsAreNats
  <2>. QED  BY <2>6, <2>7
<1>9. FileBound'
  <2>. SUFFICES ASSUME NEW f \in File
                PROVE  FileCount(f)' + HolderCount(f)' + In(f, pending') + FreshCount(f)' <= 1
    BY DEF FileBound
  <2>1. FileCount(f) + HolderCount(f) + In(f, pending) + FreshCount(f) <= 1
    BY DEF IInv, FileBound
  <2>2. FileCount(f)' = FileCount(f) /\ In(f, pending') = In(f, pending)
    BY <1>2, <1>3 DEF Kept
  <2>3. HolderCount(f)' = HolderCount(f) + In(j, Holders(f)) /\ In(j, Holders(f)) = 0
    BY JoinedCounts DEF In, Holders
  <2>4. FreshCount(f)' \in Nat
    BY DEF FreshCount
  <2>. QED  BY <2>1, <2>2, <2>3, <2>4, CountsAreNats
<1>. QED  BY <1>1, <1>2, <1>3, <1>4, <1>7, <1>8, <1>9, WorldStep

\* No job comes or goes and no event is made.
LEMMA NoneArrives ==
    ASSUME IInv, Remained, UNCHANGED remote, UNCHANGED matrix, UNCHANGED again,
           MattermostTyped', HistoryTyped', TrackersTyped', Faulted,
           \A p \in Post : /\ posts[p].state # "none" => posts'[p].state # "none"
                           /\ posts'[p].eid = posts[p].eid
                           /\ posts'[p].state \in {posts[p].state, "deleted"},
           \A p \in dirty' \cup dirtyReact' : p \in dirty \cup dirtyReact \/ posts'[p].state # "none",
           dirtyFiles' \subseteq dirtyFiles \cup UNION {FilesOf[p] : p \in Post},
           \A f \in File : In(f, pending') + FreshCount(f)' <= In(f, pending) + FreshCount(f)
    PROVE  IInv'
<1>1. UNCHANGED <<room, remote>>
  BY DEF matrix
<1>2. Kept /\ RoomKept /\ MatrixTyped' /\ RoomOK'
  BY <1>1, RoomSame
<1>4. GoroutinesOK' /\ Unfinished' = Unfinished
  BY DEF Remained
<1>8. SentBound'
  <2>. SUFFICES ASSUME NEW p \in Post
                PROVE  MainCount(p)' + SenderCount(p)' + DueCount(p)' <= 1 + again'[p] + faults'
    BY DEF SentBound
  <2>1. MainCount(p) + SenderCount(p) + DueCount(p) <= 1 + again[p] + faults
    BY DEF IInv, SentBound
  <2>2. MainCount(p)' = MainCount(p) /\ SenderCount(p)' = SenderCount(p)
    BY <1>2, RemainedCounts DEF Kept
  <2>3. Due(p)' => Due(p)
    <3>1. Sending(p)' <=> Sending(p)
      BY <1>4 DEF Sending
    <3>. QED  BY <3>1 DEF Due, Sends
  <2>4. DueCount(p)' <= DueCount(p) /\ DueCount(p)' \in Nat
    BY <2>3 DEF DueCount
  <2>5. again[p] \in Nat
    BY DEF IInv, Typed, HistoryTyped
  <2>. QED  BY <2>1, <2>2, <2>4, <2>5, CountsAreNats DEF Faulted
<1>9. FileBound'
  <2>. SUFFICES ASSUME NEW f \in File
                PROVE  FileCount(f)' + HolderCount(f)' + In(f, pending') + FreshCount(f)' <= 1
    BY DEF FileBound
  <2>1. FileCount(f) + HolderCount(f) + In(f, pending) + FreshCount(f) <= 1
    BY DEF IInv, FileBound
  <2>2. FileCount(f)' = FileCount(f) /\ HolderCount(f)' = HolderCount(f)
    BY <1>2, RemainedCounts DEF Kept
  <2>3. FreshCount(f)' \in Nat /\ In(f, pending') \in Nat
    BY DEF FreshCount, In
  <2>. QED  BY <2>1, <2>2, <2>3, CountsAreNats
<1>. QED  BY <1>1, <1>2, <1>4, <1>8, <1>9, WorldStep

LEMMA CallJob ==
    ASSUME MatrixTyped, NEW p \in Post, NEW c \in Copy, Names(p, c.eid),
           NEW what \in {"post", "react", "unreact"}, NEW src \in {"hook", "service", "worker"},
           src = "service" => what = "post", NEW j, j = Job(p, c, what, src)
    PROVE  /\ j \in JobRecord /\ JobOK(j)
           /\ j.post = p /\ j.what = what /\ j.copy = c /\ j.files = {} /\ j.main = 0 /\ j.thread = 0
<1>1. /\ j \in JobRecord /\ j.post = p /\ j.what = what /\ j.copy = c /\ j.files = {} /\ j.main = 0
      /\ j.thread = 0 /\ j.pc = "begin" /\ j.src = src
  BY DEF Job, JobRecord
<1>2. Len(room) \in Nat
  BY DEF MatrixTyped
<1>. QED  BY <1>1, <1>2 DEF JobOK

LEMMA EnqueueCalls ==
    ASSUME IInv, NEW p \in Post, NEW c \in Copy, Names(p, c.eid), NEW what \in {"post", "react", "unreact"},
           Enqueue(Job(p, c, what, "hook"))
    PROVE  \E j \in JobRecord : /\ Joined(j) /\ JobOK(j)
                                /\ j.post = p /\ j.what = what /\ j.copy = c /\ j.files = {} /\ j.main = 0
<1>1. GoroutinesOK /\ QueueSize \in Nat /\ MatrixTyped
  BY PostSyncAssumption DEF IInv, Typed
<1>2. PICK j, w : j = Job(p, c, what, "hook") /\ w = Job(p, c, what, "worker")
  OBVIOUS
<1>3. [j EXCEPT !.src = "worker"] = w
  BY <1>2 DEF Job
<1>4. /\ j \in JobRecord /\ JobOK(j) /\ j.post = p /\ j.what = what /\ j.copy = c /\ j.files = {} /\ j.main = 0
      /\ w \in JobRecord /\ JobOK(w) /\ w.post = p /\ w.what = what /\ w.copy = c /\ w.files = {} /\ w.main = 0
  BY <1>1, <1>2, CallJob
<1>5. Joined(j) \/ Joined(w)
  <2>1. \E k \in {j, [j EXCEPT !.src = "worker"]} : Joined(k)
    BY <1>1, <1>2, <1>4, EnqueueJoins
  <2>. QED  BY <1>3, <2>1
<1>. QED  BY <1>4, <1>5

LEMMA JoinedDue ==
    ASSUME NEW j, Joined(j), NEW p, posts'[p].state = posts[p].state, posts'[p].eid = posts[p].eid
    PROVE  /\ DueCount(p)' <= DueCount(p)
           /\ SendsFor(j, p) /\ Sends(posts[p]) => DueCount(p)' = 0
           /\ Sends(posts[p]) /\ ~Sending(p) => DueCount(p) = 1
<1>1. Unfinished' = Unfinished \cup {j}
  BY DEF Joined
<1>2. Sending(p) => Sending(p)'
  BY <1>1 DEF Sending
<1>3. SendsFor(j, p) => Sending(p)'
  BY <1>1 DEF Sending, SendsFor
<1>4. Due(p)' => Due(p)
  BY <1>2 DEF Due, Sends
<1>5. SendsFor(j, p) /\ Sends(posts[p]) => ~ Due(p)'
  BY <1>3 DEF Due, Sends
<1>6. Sends(posts[p]) /\ ~Sending(p) => Due(p)
  BY DEF Due
<1>. QED  BY <1>4, <1>5, <1>6 DEF DueCount

LEMMA EditPostIInv ==
    ASSUME IInv, NEW p \in Post, NEW t \in Text, EditPost(p, t)
    PROVE  IInv'
<1>1. /\ MattermostTyped /\ HistoryTyped /\ t \in Nat /\ posts \in [Post -> Copy] /\ posts[p] \in Copy
      /\ PostsNamed
  BY PostSyncAssumption DEF IInv, Typed, World, MattermostTyped
<1>2. /\ posts[p].state = "live" /\ changes' = changes + 1 /\ dirty' = dirty \cup {p} /\ said' = [said EXCEPT ![p] = t]
      /\ raced' = raced \cup {q \in {p} : Busy(q)} /\ again' = Again(p, posts[p])
      /\ UNCHANGED <<remote, reacted, dirtyFiles, dirtyReact, matrix, trackers, faults>>
  BY DEF EditPost, Change, Disturbed
<1>3. PICK c : c = [posts[p] EXCEPT !.text = t, !.at = @ + 1]
  OBVIOUS
<1>4. c \in Copy /\ c.state = posts[p].state /\ c.eid = posts[p].eid
  <2>1. PICK at : at = posts[p].at + 1
    OBVIOUS
  <2>2. at \in Nat /\ c = [posts[p] EXCEPT !.text = t, !.at = at]
    BY <1>1, <1>3, <2>1 DEF Copy
  <2>. QED  BY <1>1, <2>2 DEF Copy
<1>5. posts' = [posts EXCEPT ![p] = c]
  BY <1>1, <1>3 DEF EditPost
<1>6. posts' \in [Post -> Copy] /\ posts'[p] = c /\ \A q \in Post : q # p => posts'[q] = posts[q]
  BY <1>1, <1>4, <1>5
<1>7. \A q \in Post : posts'[q].state = posts[q].state /\ posts'[q].eid = posts[q].eid
  BY <1>4, <1>6
<1>8. Names(p, c.eid)
  BY <1>1, <1>4 DEF PostsNamed
<1>9. Enqueue(Job(p, c, "post", "hook"))
  BY <1>6 DEF EditPost, MessageHasBeenUpdated
<1>10. PICK j \in JobRecord : /\ Joined(j) /\ JobOK(j)
                              /\ j.post = p /\ j.what = "post" /\ j.copy = c /\ j.files = {} /\ j.main = 0
  BY <1>4, <1>8, <1>9, EnqueueCalls
<1>11. MattermostTyped'
  BY <1>1, <1>2, <1>6 DEF MattermostTyped
<1>12. again' \in [Post -> Nat]
  BY <1>1, <1>2 DEF HistoryTyped, Again
<1>13. HistoryTyped'
  BY <1>1, <1>2, <1>12 DEF HistoryTyped
<1>14. ASSUME NEW q \in Post
       PROVE  /\ SendsFor(j, q) \/ again'[q] = again[q]
              /\ SendsFor(j, q) =>
                    (DueCount(q) = 1 /\ DueCount(q)' = 0 /\ again'[q] = again[q])
                       \/ (DueCount(q)' <= DueCount(q) /\ again'[q] = again[q] + 1)
              /\ DueCount(q)' <= DueCount(q)
  <2>1. /\ DueCount(q)' <= DueCount(q)
        /\ SendsFor(j, q) /\ Sends(posts[q]) => DueCount(q)' = 0
        /\ Sends(posts[q]) /\ ~Sending(q) => DueCount(q) = 1
    BY <1>7, <1>10, JoinedDue
  <2>2. SendsFor(j, q) <=> q = p /\ Sends(posts[p])
    BY <1>4, <1>10 DEF SendsFor, Sends
  <2>3. again'[q] = IF SendsFor(j, q) /\ Sending(q) THEN again[q] + 1 ELSE again[q]
    BY <1>1, <1>2, <2>2 DEF Again, HistoryTyped
  <2>. QED  BY <2>1, <2>2, <2>3
<1>15. \A f \in File : FreshCount(f)' <= FreshCount(f)
  BY <1>2, <1>7 DEF FreshCount, Fresh
<1>16. \A q \in Post : posts'[q].eid \in {0, posts[q].eid} /\ (posts[q].state # "none" => posts'[q].state # "none")
  BY <1>7
<1>17. /\ posts'[j.post].state # "none" /\ dirty' \subseteq dirty \cup {j.post}
       /\ dirtyReact' \subseteq dirtyReact \cup {j.post}
       /\ dirtyFiles' \subseteq dirtyFiles \cup UNION {FilesOf[q] : q \in Post}
       /\ UNCHANGED remote /\ UNCHANGED matrix /\ UNCHANGED trackers /\ faults' = faults
  BY <1>2, <1>7, <1>10
<1>. QED  BY <1>10, <1>11, <1>13, <1>14, <1>15, <1>16, <1>17, Arrives

\* A call about a reaction arrives.
LEMMA ReactionArrives ==
    ASSUME IInv, NEW p \in Post, NEW what \in {"react", "unreact"},
           Enqueue(Job(p, posts[p], what, "hook")), posts[p].state # "none",
           UNCHANGED <<posts, remote, dirty, dirtyFiles>>, UNCHANGED matrix, UNCHANGED trackers,
           UNCHANGED <<again, faults>>, MattermostTyped', HistoryTyped',
           dirtyReact' \subseteq dirtyReact \cup {p}
    PROVE  IInv'
<1>1. posts[p] \in Copy /\ Names(p, posts[p].eid)
  BY DEF IInv, Typed, MattermostTyped, World, PostsNamed
<1>2. PICK c : c = posts[p]
  OBVIOUS
<1>3. PICK j \in JobRecord : /\ Joined(j) /\ JobOK(j)
                             /\ j.post = p /\ j.what = what /\ j.copy = c /\ j.files = {} /\ j.main = 0
  <2>1. /\ c \in Copy /\ Names(p, c.eid) /\ what \in {"post", "react", "unreact"}
        /\ Enqueue(Job(p, c, what, "hook"))
    BY <1>1, <1>2
  <2>. QED  BY <2>1, EnqueueCalls
<1>4. \A q \in Post : posts'[q] = posts[q] /\ ~SendsFor(j, q)
  BY <1>3 DEF SendsFor
<1>5. \A q \in Post : DueCount(q)' <= DueCount(q)
  BY <1>3, <1>4, JoinedDue
<1>6. \A f \in File : FreshCount(f)' <= FreshCount(f)
  <2>1. ASSUME NEW f \in File  PROVE FreshCount(f)' = FreshCount(f) /\ FreshCount(f) \in Nat
    BY FreshSame DEF FreshCount
  <2>. QED  BY <2>1
<1>7. \A q \in Post : posts'[q].eid \in {0, posts[q].eid} /\ (posts[q].state # "none" => posts'[q].state # "none")
  BY <1>4
<1>8. /\ posts'[j.post].state # "none" /\ dirty' \subseteq dirty \cup {j.post}
      /\ dirtyReact' \subseteq dirtyReact \cup {j.post}
      /\ dirtyFiles' \subseteq dirtyFiles \cup UNION {FilesOf[q] : q \in Post}
      /\ UNCHANGED remote /\ faults' = faults
      /\ \A q \in Post : again'[q] = again[q]
  BY <1>3
<1>. QED  BY <1>3, <1>4, <1>5, <1>6, <1>7, <1>8, Arrives

LEMMA ToggleReactionIInv ==
    ASSUME IInv, NEW p \in Post, ToggleReaction(p)
    PROVE  IInv'
<1>1. /\ posts[p].state = "live" /\ changes' = changes + 1
      /\ reacted' \subseteq reacted \cup {p} /\ raced' \subseteq raced \cup {p} /\ dirtyReact' = dirtyReact \cup {p}
      /\ Enqueue(Job(p, posts[p], "react", "hook"))
      /\ UNCHANGED <<posts, remote, dirty, dirtyFiles, matrix, trackers, said, again, faults>>
  BY DEF ToggleReaction, Change
<1>2. MattermostTyped'
  BY <1>1 DEF IInv, Typed, MattermostTyped
<1>3. HistoryTyped'
  BY <1>1 DEF IInv, Typed, HistoryTyped
<1>. QED  BY <1>1, <1>2, <1>3, ReactionArrives

LEMMA SyncReactionsIInv ==
    ASSUME IInv, NEW p \in Post, SyncReactions(p)
    PROVE  IInv'
<1>1. PICK what \in {"react", "unreact"} : what = IF p \in reacted THEN "react" ELSE "unreact"
  OBVIOUS
<1>2. /\ p \in dirtyReact /\ dirtyReact' = dirtyReact \ {p} /\ raced' \subseteq raced \cup {p}
      /\ Enqueue(Job(p, posts[p], what, "hook"))
      /\ UNCHANGED <<posts, remote, reacted, dirty, dirtyFiles, matrix, trackers, said, again, changes, faults>>
  BY <1>1 DEF SyncReactions, mattermost
<1>3. MattermostTyped'
  BY <1>2 DEF IInv, Typed, MattermostTyped
<1>4. HistoryTyped'
  BY <1>2 DEF IInv, Typed, HistoryTyped
<1>5. posts[p].state # "none"
  BY <1>2 DEF IInv, World, Known
<1>. QED  BY <1>2, <1>3, <1>4, <1>5, ReactionArrives

LEMMA SyncPostsIInv ==
    ASSUME IInv, NEW p \in Post, SyncPosts(p)
    PROVE  IInv'
<1>1. /\ MattermostTyped /\ HistoryTyped /\ MatrixTyped /\ GoroutinesOK /\ posts[p] \in Copy /\ Names(p, posts[p].eid)
  BY DEF IInv, Typed, World, MattermostTyped, PostsNamed
<1>2. /\ p \in dirty /\ dirty' = dirty \ {p} /\ Start(Job(p, posts[p], "post", "service"))
      /\ again' = Again(p, posts[p]) /\ raced' \subseteq raced \cup {p}
      /\ UNCHANGED <<posts, remote, reacted, dirtyFiles, dirtyReact, matrix, trackers, queue, said, changes, faults>>
  BY DEF SyncPosts, mattermost
<1>3. PICK c, j : c = posts[p] /\ j = Job(p, c, "post", "service")
  OBVIOUS
<1>4. j \in JobRecord /\ JobOK(j) /\ j.post = p /\ j.what = "post" /\ j.copy = c /\ j.files = {} /\ j.main = 0
  BY <1>1, <1>3, CallJob
<1>5. Joined(j)
  BY <1>1, <1>2, <1>3, <1>4, StartJoins
<1>6. MattermostTyped'
  BY <1>1, <1>2 DEF MattermostTyped
<1>7. again' \in [Post -> Nat]
  BY <1>1, <1>2 DEF HistoryTyped, Again
<1>8. HistoryTyped'
  BY <1>1, <1>2, <1>7 DEF HistoryTyped
<1>9. ASSUME NEW q \in Post
      PROVE  /\ SendsFor(j, q) \/ again'[q] = again[q]
             /\ SendsFor(j, q) =>
                   (DueCount(q) = 1 /\ DueCount(q)' = 0 /\ again'[q] = again[q])
                      \/ (DueCount(q)' <= DueCount(q) /\ again'[q] = again[q] + 1)
             /\ DueCount(q)' <= DueCount(q)
  <2>1. /\ DueCount(q)' <= DueCount(q)
        /\ SendsFor(j, q) /\ Sends(posts[q]) => DueCount(q)' = 0
        /\ Sends(posts[q]) /\ ~Sending(q) => DueCount(q) = 1
    BY <1>2, <1>5, JoinedDue
  <2>2. SendsFor(j, q) <=> q = p /\ Sends(posts[p])
    BY <1>3, <1>4 DEF SendsFor, Sends
  <2>3. again'[q] = IF SendsFor(j, q) /\ Sending(q) THEN again[q] + 1 ELSE again[q]
    BY <1>1, <1>2, <2>2 DEF Again, HistoryTyped
  <2>. QED  BY <2>1, <2>2, <2>3
<1>10. \A f \in File : FreshCount(f)' <= FreshCount(f)
  BY <1>2 DEF FreshCount, Fresh
<1>11. \A q \in Post : posts'[q].eid \in {0, posts[q].eid} /\ (posts[q].state # "none" => posts'[q].state # "none")
  BY <1>2
<1>12. /\ posts'[j.post].state # "none" /\ dirty' \subseteq dirty \cup {j.post}
       /\ dirtyReact' \subseteq dirtyReact \cup {j.post}
       /\ dirtyFiles' \subseteq dirtyFiles \cup UNION {FilesOf[q] : q \in Post}
       /\ UNCHANGED remote /\ UNCHANGED matrix /\ UNCHANGED trackers /\ faults' = faults
  BY <1>2, <1>4 DEF IInv, World, Known
<1>. QED  BY <1>4, <1>5, <1>6, <1>8, <1>9, <1>10, <1>11, <1>12, Arrives

LEMMA DeletePostIInv ==
    ASSUME IInv, NEW p \in Post, DeletePost(p)
    PROVE  IInv'
<1>1. MattermostTyped /\ HistoryTyped /\ GoroutinesOK /\ posts \in [Post -> Copy]
  BY DEF IInv, Typed, MattermostTyped
<1>2. PICK gone : gone = {q \in Post : (q = p \/ Root[q] = p) /\ posts[q].state = "live"}
  OBVIOUS
<1>3. /\ changes' = changes + 1
      /\ posts' = [q \in Post |-> IF q \in gone THEN [posts[q] EXCEPT !.state = "deleted", !.at = @ + 1]
                                  ELSE posts[q]]
      /\ dirty' = dirty \cup gone
      /\ dirtyFiles' = dirtyFiles \cup UNION {FilesOf[q] : q \in gone}
      /\ raced' = raced \cup {q \in gone : Busy(q)}
      /\ UNCHANGED <<remote, reacted, dirtyReact, matrix, trackers, goroutines, said, again, faults>>
  BY <1>2 DEF DeletePost, Change, Disturbed
<1>4. ASSUME NEW q \in Post
      PROVE  /\ posts'[q] \in Copy /\ posts'[q].eid = posts[q].eid
             /\ posts'[q].state = IF q \in gone THEN "deleted" ELSE posts[q].state
  <2>1. CASE q \in gone
    <3>1. PICK at : at = posts[q].at + 1
      OBVIOUS
    <3>2. posts[q] \in Copy
      BY <1>1
    <3>3. at \in Nat
      BY <3>1, <3>2 DEF Copy
    <3>4. posts'[q] = [posts[q] EXCEPT !.state = "deleted", !.at = at]
      BY <1>3, <2>1, <3>1
    <3>. QED  BY <2>1, <3>2, <3>3, <3>4 DEF Copy
  <2>2. CASE q \notin gone
    BY <1>1, <1>3, <2>2
  <2>. QED  BY <2>1, <2>2
<1>5. dirtyFiles' \subseteq dirtyFiles \cup UNION {FilesOf[q] : q \in Post}
  BY <1>2, <1>3
<1>6. MattermostTyped'
  <2>1. posts' \in [Post -> Copy]
    BY <1>3, <1>4
  <2>2. dirtyFiles' \subseteq File
    BY <1>1, <1>5, PostSyncAssumption DEF MattermostTyped
  <2>. QED  BY <1>1, <1>2, <1>3, <2>1, <2>2 DEF MattermostTyped
<1>7. HistoryTyped'
  <2>1. raced' \subseteq Post
    BY <1>1, <1>2, <1>3 DEF HistoryTyped
  <2>2. changes' \in Nat
    <3>1. changes \in Nat
      BY <1>1 DEF HistoryTyped
    <3>2. changes' = changes + 1
      BY <1>3
    <3>. QED  BY <3>1, <3>2
  <2>. QED  BY <1>1, <1>3, <2>1, <2>2 DEF HistoryTyped
<1>8. Remained
  BY <1>1, <1>3, UnchangedRemains
<1>9. ASSUME NEW f \in File  PROVE In(f, pending') + FreshCount(f)' <= In(f, pending) + FreshCount(f)
  <2>1. Fresh(f)' => Fresh(f)
    <3>1. ASSUME NEW q \in Post, f \in FilesOf[q], posts'[q].state = "none" \/ (posts'[q].state = "live" /\ f \in dirtyFiles')
          PROVE  Fresh(f)
      <4>1. q \notin gone /\ posts'[q].state = posts[q].state
        BY <1>4, <3>1
      <4>2. f \in dirtyFiles' => f \in dirtyFiles
        <5>1. \A g \in gone : f \notin FilesOf[g]
          BY <1>2, <3>1, <4>1, PostSyncAssumption
        <5>. QED  BY <1>3, <5>1
      <4>. QED  BY <3>1, <4>1, <4>2 DEF Fresh
    <3>. QED  BY <3>1 DEF Fresh
  <2>2. pending' = pending
    BY <1>3, TrackersSame
  <2>3. FreshCount(f)' <= FreshCount(f) /\ FreshCount(f)' \in Nat /\ FreshCount(f) \in Nat
    BY <2>1 DEF FreshCount
  <2>. QED  BY <2>2, <2>3, InType
<1>10. \A q \in Post : /\ posts[q].state # "none" => posts'[q].state # "none"
                       /\ posts'[q].eid = posts[q].eid
                       /\ posts'[q].state \in {posts[q].state, "deleted"}
  BY <1>4
<1>11. \A q \in dirty' \cup dirtyReact' : q \in dirty \cup dirtyReact \/ posts'[q].state # "none"
  <2>1. dirty' = dirty \cup gone /\ dirtyReact' = dirtyReact
    BY <1>3
  <2>2. \A q \in gone : posts'[q].state # "none"
    BY <1>2, <1>4
  <2>. QED  BY ONLY <2>1, <2>2
<1>12. Faulted /\ TrackersTyped' /\ UNCHANGED remote /\ UNCHANGED matrix /\ UNCHANGED again
  BY <1>3, SameIsFaulted, TrackersSame
<1>. QED  BY <1>5, <1>6, <1>7, <1>8, <1>9, <1>10, <1>11, <1>12, NoneArrives

\* Each file is one post's.
LEMMA Owner ==
    ASSUME IInv, NEW f \in dirtyFiles
    PROVE  /\ f \in File /\ OwnerOf(f) \in Post /\ f \in FilesOf[OwnerOf(f)]
           /\ \A q \in Post : f \in FilesOf[q] => q = OwnerOf(f)
<1>1. f \in File /\ \E p \in Post : f \in FilesOf[p]
  BY DEF IInv, Typed, MattermostTyped, World, Known
<1>2. OwnerOf(f) \in Post /\ f \in FilesOf[OwnerOf(f)]
  BY <1>1 DEF OwnerOf
<1>. QED  BY <1>1, <1>2, PostSyncAssumption

LEMMA UploadFileIInv ==
    ASSUME IInv, NEW f \in File, UploadFile(f)
    PROVE  IInv'
<1>1. /\ f \in dirtyFiles /\ posts[OwnerOf(f)].state = "live" /\ dirtyFiles' = dirtyFiles \ {f}
      /\ (AddFile(f) /\ UNCHANGED faults) \/ (Fault /\ UNCHANGED <<pending, adds>>)
      /\ UNCHANGED <<mattermost, dirty, dirtyReact, matrix, tracker, puts, goroutines, said, raced,
                     again, changes>>
  BY DEF UploadFile
<1>2. /\ MattermostTyped /\ TrackersTyped /\ HistoryTyped /\ GoroutinesOK
      /\ CleanupEvery \in Nat \ {0} /\ faults \in Nat
  BY PostSyncAssumption DEF IInv, Typed, HistoryTyped
<1>3. UNCHANGED <<posts, remote, reacted>> /\ UNCHANGED <<room, servesEdited>> /\ UNCHANGED remote
  BY <1>1 DEF mattermost, matrix
<1>4. pending' \subseteq pending \cup {f} /\ adds' \in 0..(CleanupEvery - 1)
  <2>1. CASE AddFile(f)
    <3>1. PICK kept \in IF adds' = 0 THEN CleanupOldFiles ELSE {pending} : pending' = kept \cup {f}
      BY <2>1 DEF AddFile
    <3>2. kept \subseteq pending
      BY <3>1 DEF CleanupOldFiles
    <3>3. adds \in Nat /\ adds' = (adds + 1) % CleanupEvery
      BY <1>2, <2>1 DEF AddFile, TrackersTyped
    <3>4. adds' \in 0..(CleanupEvery - 1)
      BY <1>2, <3>3
    <3>. QED  BY <3>1, <3>2, <3>4
  <2>2. CASE UNCHANGED <<pending, adds>>
    BY <1>2, <2>2 DEF TrackersTyped
  <2>. QED  BY <1>1, <2>1, <2>2
<1>5. TrackersTyped'
  BY <1>1, <1>2, <1>4 DEF TrackersTyped, Tracked
<1>6. MattermostTyped'
  BY <1>1, <1>2, <1>3 DEF MattermostTyped
<1>7. Faulted
  BY <1>1, FaultIsFaulted, SameIsFaulted
<1>8. HistoryTyped'
  <2>1. faults' \in Nat
    BY <1>2, <1>7 DEF Faulted
  <2>. QED  BY <1>1, <1>2, <2>1 DEF HistoryTyped
<1>9. Remained
  BY <1>1, <1>2, UnchangedRemains
<1>10. ASSUME NEW g \in File  PROVE In(g, pending') + FreshCount(g)' <= In(g, pending) + FreshCount(g)
  <2>1. In(g, pending) \in {0, 1} /\ In(g, pending') \in {0, 1} /\ FreshCount(g) \in {0, 1} /\ FreshCount(g)' \in {0, 1}
    BY DEF In, FreshCount
  <2>2. Fresh(g)' => Fresh(g)
    BY <1>1, <1>3 DEF Fresh
  <2>3. CASE g = f
    <3>1. Fresh(f)
      BY <1>1, Owner DEF Fresh
    <3>2. ~ Fresh(f)'
      <4>1. f \notin dirtyFiles'
        BY <1>1
      <4>2. \A q \in Post : f \in FilesOf[q] => posts'[q].state = "live"
        BY <1>1, <1>3, Owner
      <4>. QED  BY <4>1, <4>2 DEF Fresh
    <3>3. FreshCount(f) = 1 /\ FreshCount(f)' = 0
      BY <3>1, <3>2 DEF FreshCount
    <3>. QED  BY <2>1, <2>3, <3>3
  <2>4. CASE g # f
    <3>1. g \in pending' => g \in pending
      BY <1>4, <2>4
    <3>2. In(g, pending') <= In(g, pending) /\ FreshCount(g)' <= FreshCount(g)
      BY <2>2, <3>1 DEF In, FreshCount
    <3>. QED  BY <2>1, <3>2
  <2>. QED  BY <2>3, <2>4
<1>11. \A q \in Post : /\ posts[q].state # "none" => posts'[q].state # "none"
                       /\ posts'[q].eid = posts[q].eid
                       /\ posts'[q].state \in {posts[q].state, "deleted"}
  BY <1>3
<1>12. /\ \A q \in dirty' \cup dirtyReact' : q \in dirty \cup dirtyReact \/ posts'[q].state # "none"
       /\ dirtyFiles' \subseteq dirtyFiles \cup UNION {FilesOf[q] : q \in Post}
       /\ UNCHANGED matrix /\ UNCHANGED again
  BY <1>1
<1>. QED  BY <1>3, <1>5, <1>6, <1>7, <1>8, <1>9, <1>10, <1>11, <1>12, NoneArrives

LEMMA DeleteFileIInv ==
    ASSUME IInv, NEW f \in File, DeleteFile(f)
    PROVE  IInv'
<1>1. /\ dirtyFiles' = dirtyFiles \ {f} /\ pending' = pending \ {f}
      /\ UNCHANGED <<mattermost, dirty, dirtyReact, matrix, tracker, puts, adds, goroutines, history>>
  BY DEF DeleteFile, RemoveFile
<1>2. MattermostTyped /\ TrackersTyped /\ HistoryTyped /\ GoroutinesOK
  BY DEF IInv, Typed
<1>3. UNCHANGED <<posts, remote, reacted>> /\ UNCHANGED remote
  BY <1>1 DEF mattermost
<1>4. TrackersTyped' /\ MattermostTyped'
  BY <1>1, <1>2, <1>3 DEF TrackersTyped, Tracked, MattermostTyped
<1>5. HistoryTyped' /\ UNCHANGED again /\ Faulted
  BY <1>1, <1>2, SameIsFaulted DEF HistoryTyped, history
<1>6. Remained
  BY <1>1, <1>2, UnchangedRemains
<1>7. ASSUME NEW g \in File  PROVE In(g, pending') + FreshCount(g)' <= In(g, pending) + FreshCount(g)
  <2>1. In(g, pending) \in {0, 1} /\ In(g, pending') \in {0, 1} /\ FreshCount(g) \in {0, 1} /\ FreshCount(g)' \in {0, 1}
    BY DEF In, FreshCount
  <2>2. Fresh(g)' => Fresh(g)
    BY <1>1, <1>3 DEF Fresh
  <2>3. In(g, pending') <= In(g, pending) /\ FreshCount(g)' <= FreshCount(g)
    BY <1>1, <2>2 DEF In, FreshCount
  <2>. QED  BY <2>1, <2>3
<1>8. \A q \in Post : /\ posts[q].state # "none" => posts'[q].state # "none"
                      /\ posts'[q].eid = posts[q].eid
                      /\ posts'[q].state \in {posts[q].state, "deleted"}
  BY <1>3
<1>9. /\ \A q \in dirty' \cup dirtyReact' : q \in dirty \cup dirtyReact \/ posts'[q].state # "none"
      /\ dirtyFiles' \subseteq dirtyFiles \cup UNION {FilesOf[q] : q \in Post}
      /\ UNCHANGED matrix
  BY <1>1
<1>. QED  BY <1>3, <1>4, <1>5, <1>6, <1>7, <1>8, <1>9, NoneArrives

\* Nothing happens, but that a worker may take a task.
LEMMA TakeTaskIInv ==
    ASSUME IInv, Remained, UNCHANGED <<mattermost, service, matrix, trackers, history>>
    PROVE  IInv'
<1>1. MattermostTyped /\ HistoryTyped
  BY DEF IInv, Typed
<1>2. /\ UNCHANGED <<posts, remote, reacted>> /\ UNCHANGED <<dirty, dirtyFiles, dirtyReact>>
      /\ UNCHANGED remote /\ UNCHANGED matrix /\ UNCHANGED trackers /\ UNCHANGED again /\ UNCHANGED faults
  BY DEF mattermost, service, history
<1>3. MattermostTyped' /\ HistoryTyped' /\ TrackersTyped' /\ pending' = pending
  BY <1>1, <1>2, TrackersSame DEF MattermostTyped, HistoryTyped, history
<1>4. ASSUME NEW g \in File  PROVE In(g, pending') + FreshCount(g)' <= In(g, pending) + FreshCount(g)
  <2>1. FreshCount(g)' = FreshCount(g) /\ In(g, pending') = In(g, pending)
    BY <1>2, <1>3, FreshSame
  <2>. QED  BY <2>1, CountsAreNats
<1>5. \A q \in Post : /\ posts[q].state # "none" => posts'[q].state # "none"
                      /\ posts'[q].eid = posts[q].eid
                      /\ posts'[q].state \in {posts[q].state, "deleted"}
  BY <1>2
<1>6. /\ \A q \in dirty' \cup dirtyReact' : q \in dirty \cup dirtyReact \/ posts'[q].state # "none"
      /\ dirtyFiles' \subseteq dirtyFiles \cup UNION {FilesOf[q] : q \in Post}
  BY <1>2
<1>. QED  BY <1>2, <1>3, <1>4, <1>5, <1>6, SameIsFaulted, NoneArrives

LEMMA CreatePostIInv ==
    ASSUME IInv, NEW p \in Post, NEW t \in Text, CreatePost(p, t)
    PROVE  IInv'
<1>1. /\ MattermostTyped /\ HistoryTyped /\ MatrixTyped /\ GoroutinesOK /\ posts \in [Post -> Copy] /\ t \in Nat
  BY PostSyncAssumption DEF IInv, Typed, MattermostTyped
<1>2. PICK c, j : c = [state |-> "live", text |-> t, eid |-> 0, at |-> 1] /\ j = Job(p, c, "post", "hook")
  OBVIOUS
<1>3. /\ posts[p].state = "none" /\ p \notin remote
      /\ posts' = [posts EXCEPT ![p] = c] /\ Start(j) /\ said' = [said EXCEPT ![p] = t]
      /\ dirty' = dirty \cup {p} /\ dirtyFiles' = dirtyFiles \cup FilesOf[p]
      /\ UNCHANGED <<remote, reacted, dirtyReact, matrix, trackers, queue, raced, again, changes, faults>>
  BY <1>2 DEF CreatePost
<1>4. c \in Copy /\ c.state = "live" /\ c.eid = 0 /\ Names(p, c.eid) /\ Sends(c)
  BY <1>1, <1>2 DEF Copy, Names, Sends
<1>5. j \in JobRecord /\ JobOK(j) /\ j.post = p /\ j.what = "post" /\ j.copy = c /\ j.files = {} /\ j.main = 0
  BY <1>1, <1>2, <1>4, CallJob
<1>6. Joined(j)
  BY <1>1, <1>3, <1>5, StartJoins
<1>7. posts' \in [Post -> Copy] /\ posts'[p] = c /\ \A q \in Post : q # p => posts'[q] = posts[q]
  BY <1>1, <1>3, <1>4
<1>8. MattermostTyped'
  BY <1>1, <1>3, <1>7, PostSyncAssumption DEF MattermostTyped
<1>9. HistoryTyped'
  BY <1>1, <1>3 DEF HistoryTyped
<1>10. ASSUME NEW q \in Post
       PROVE  /\ again'[q] = again[q]
              /\ SendsFor(j, q) => DueCount(q) = 1 /\ DueCount(q)' = 0
              /\ ~SendsFor(j, q) => DueCount(q)' <= DueCount(q)
  <2>1. SendsFor(j, q) <=> q = p
    BY <1>4, <1>5 DEF SendsFor
  <2>2. CASE q = p
    <3>1. Due(p)
      BY <1>3 DEF Due
    <3>2. Sending(p)'
      BY <1>4, <1>5, <1>6 DEF Sending, Joined, Sends
    <3>3. ~ Due(p)'
      BY <1>4, <1>7, <3>2 DEF Due
    <3>. QED  BY <1>3, <2>1, <2>2, <3>1, <3>3 DEF DueCount
  <2>3. CASE q # p
    BY <1>3, <1>6, <1>7, <2>1, <2>3, JoinedDue
  <2>. QED  BY <2>2, <2>3
<1>11. ASSUME NEW f \in File  PROVE FreshCount(f)' <= FreshCount(f)
  <2>1. ASSUME NEW q \in Post, f \in FilesOf[q],
               posts'[q].state = "none" \/ (posts'[q].state = "live" /\ f \in dirtyFiles')
        PROVE  Fresh(f)
    <3>1. CASE q = p
      BY <1>3, <2>1, <3>1 DEF Fresh
    <3>2. CASE q # p
      <4>1. f \notin FilesOf[p]
        BY <2>1, <3>2, PostSyncAssumption
      <4>. QED  BY <1>3, <1>7, <2>1, <3>2, <4>1 DEF Fresh
    <3>. QED  BY <3>1, <3>2
  <2>2. Fresh(f)' => Fresh(f)
    BY <2>1 DEF Fresh
  <2>. QED  BY <2>2 DEF FreshCount
<1>12. \A q \in Post : posts'[q].eid \in {0, posts[q].eid} /\ (posts[q].state # "none" => posts'[q].state # "none")
  BY <1>4, <1>7
<1>13. /\ posts'[j.post].state # "none" /\ dirty' \subseteq dirty \cup {j.post}
       /\ dirtyReact' \subseteq dirtyReact \cup {j.post}
       /\ dirtyFiles' \subseteq dirtyFiles \cup UNION {FilesOf[q] : q \in Post}
       /\ UNCHANGED remote /\ UNCHANGED matrix /\ UNCHANGED trackers /\ faults' = faults
  BY <1>3, <1>4, <1>5, <1>7
<1>. QED  BY <1>5, <1>6, <1>8, <1>9, <1>10, <1>11, <1>12, <1>13, Arrives

LEMMA CreateRemotePostIInv ==
    ASSUME IInv, NEW p \in Post, NEW t \in Text, CreateRemotePost(p, t)
    PROVE  IInv'
<1>1. /\ MattermostTyped /\ HistoryTyped /\ MatrixTyped /\ GoroutinesOK /\ posts \in [Post -> Copy] /\ t \in Nat
      /\ Len(room) \in Nat
  BY RoomCounts, PostSyncAssumption DEF IInv, Typed, MattermostTyped
<1>2. PICK n, m : n = Len(room) /\ m = n + 1
  OBVIOUS
<1>3. PICK c, j, e :
         /\ c = [state |-> "live", text |-> t, eid |-> m, at |-> 1] /\ j = Job(p, c, "post", "hook")
         /\ e = [post |-> NoPost, kind |-> "native", text |-> t, file |-> NoFile, rel |-> "none",
                 target |-> 0, main |-> FALSE, edited |-> FALSE, shown |-> 0, redacted |-> FALSE]
  OBVIOUS
<1>4. /\ posts[p].state = "none" /\ p \in remote /\ room' = Append(room, e)
      /\ posts' = [posts EXCEPT ![p] = c] /\ Start(j) /\ said' = [said EXCEPT ![p] = t]
      /\ UNCHANGED <<remote, reacted, service, servesEdited, trackers, queue, raced, again, changes, faults>>
  BY <1>2, <1>3 DEF CreateRemotePost
<1>5. n \in Nat /\ m \in Nat /\ m # 0
  BY <1>1, <1>2
<1>6. c \in Copy /\ c.state = "live" /\ c.eid = m
  BY <1>1, <1>3, <1>5 DEF Copy
<1>7. /\ e \in Event /\ e.post = NoPost /\ e.kind = "native" /\ e.target = 0 /\ ~e.edited /\ e.file = NoFile
  BY <1>1, <1>3 DEF Event
<1>8. /\ j \in JobRecord /\ j.post = p /\ j.what = "post" /\ j.copy = c /\ j.files = {} /\ j.main = 0
      /\ j.thread = 0 /\ j.pc = "begin" /\ j.src = "hook"
  BY <1>3, <1>6 DEF Job, JobRecord
<1>9. Joined(j)
  BY <1>1, <1>4, <1>8, StartJoins
<1>10. UNCHANGED remote /\ NoPost \notin remote
  BY <1>1, <1>4, PostSyncAssumption DEF MattermostTyped
<1>11. Grown(e) /\ RoomKept /\ MatrixTyped' /\ RoomOK'
  BY <1>1, <1>4, <1>7, <1>10, GrownRoom
<1>12. posts' \in [Post -> Copy] /\ posts'[p] = c /\ \A q \in Post : q # p => posts'[q] = posts[q]
  BY <1>1, <1>4, <1>6
<1>13. MattermostTyped' /\ UNCHANGED <<dirty, dirtyFiles, dirtyReact>>
  BY <1>1, <1>4, <1>12 DEF MattermostTyped, service
<1>14. HistoryTyped'
  BY <1>1, <1>4 DEF HistoryTyped
<1>15. TrackersTyped' /\ pending' = pending
  BY <1>4, TrackersSame
<1>16. GoroutinesOK' /\ Unfinished' = Unfinished \cup {j}
  BY <1>9 DEF Joined
<1>17. Names(p, m)'
  <2>1. m \in DOMAIN room' /\ room'[m] = e
    BY <1>2, <1>11 DEF Grown
  <2>. QED  BY <1>4, <1>7, <1>10, <2>1 DEF Names
<1>18. JobOK(j)'
  <2>1. Len(room') \in Nat
    BY <1>11 DEF MatrixTyped
  <2>. QED  BY <1>6, <1>8, <1>17, <2>1 DEF JobOK
<1>19. /\ \A k \in Unfinished' : k \in Unfinished \/ (JobOK(k)' /\ posts'[k.post].state # "none")
       /\ \A q \in Post : posts[q].state # "none" => posts'[q].state # "none"
  BY <1>6, <1>8, <1>12, <1>16, <1>18
<1>20. \A q \in Post : posts'[q].eid \in {0, posts[q].eid} \/ Names(q, posts[q].eid)'
  <2>1. Names(p, posts[p].eid)'
    BY <1>6, <1>12, <1>17 DEF Names
  <2>. QED  BY <1>12, <2>1
<1>21. SentBound'
  <2>. SUFFICES ASSUME NEW q \in Post
                PROVE  MainCount(q)' + SenderCount(q)' + DueCount(q)' <= 1 + again'[q] + faults'
    BY DEF SentBound
  <2>1. MainCount(q) + SenderCount(q) + DueCount(q) <= 1 + again[q] + faults
    BY DEF IInv, SentBound
  <2>2. MainCount(q)' = MainCount(q)
    <3>1. MainCount(q)' = MainCount(q) + In(e, MainEvents(q)) /\ In(e, MainEvents(q)) = 0
      BY <1>7, <1>11 DEF Grown, In, MainEvents
    <3>. QED  BY <3>1, CountsAreNats
  <2>3. ~SendsFor(j, q)
    BY <1>5, <1>6, <1>8 DEF SendsFor, Sends
  <2>4. SenderCount(q)' = SenderCount(q)
    <3>1. In(j, Senders(q)) = 0
      BY <2>3 DEF In, Senders, SendsFor
    <3>2. SenderCount(q)' = SenderCount(q) + In(j, Senders(q))
      BY <1>9, JoinedCounts
    <3>. QED  BY <3>1, <3>2, CountsAreNats
  <2>5. DueCount(q)' <= DueCount(q)
    <3>1. CASE q = p
      <4>1. ~ Due(q)'
        BY <1>5, <1>6, <1>12, <3>1 DEF Due, Sends
      <4>. QED  BY <4>1, DueType DEF DueCount
    <3>2. CASE q # p
      BY <1>9, <1>12, <3>2, JoinedDue
    <3>. QED  BY <3>1, <3>2
  <2>6. DueCount(q)' \in Nat /\ again'[q] = again[q] /\ faults' = faults /\ again[q] \in Nat
    BY <1>1, <1>4 DEF DueCount, HistoryTyped
  <2>. QED  BY <2>1, <2>2, <2>4, <2>5, <2>6, CountsAreNats
<1>22. FileBound'
  <2>. SUFFICES ASSUME NEW f \in File
                PROVE  FileCount(f)' + HolderCount(f)' + In(f, pending') + FreshCount(f)' <= 1
    BY DEF FileBound
  <2>1. FileCount(f) + HolderCount(f) + In(f, pending) + FreshCount(f) <= 1
    BY DEF IInv, FileBound
  <2>2. FileCount(f)' = FileCount(f)
    <3>1. FileCount(f)' = FileCount(f) + In(e, Carriers(f)) /\ In(e, Carriers(f)) = 0
      BY <1>7, <1>11, PostSyncAssumption DEF Grown, In, Carriers
    <3>. QED  BY <3>1, CountsAreNats
  <2>3. HolderCount(f)' = HolderCount(f) + In(j, Holders(f)) /\ In(j, Holders(f)) = 0
    BY <1>8, <1>9, JoinedCounts DEF In, Holders
  <2>4. Fresh(f)' => Fresh(f)
    BY <1>4, <1>12, <1>13 DEF Fresh
  <2>5. FreshCount(f)' <= FreshCount(f) /\ FreshCount(f)' \in Nat /\ In(f, pending') = In(f, pending)
    BY <1>15, <2>4 DEF FreshCount
  <2>. QED  BY <2>1, <2>2, <2>3, <2>5, CountsAreNats
<1>23. /\ \A q \in dirty' \cup dirtyReact' : q \in dirty \cup dirtyReact \/ posts'[q].state # "none"
       /\ dirtyFiles' \subseteq dirtyFiles \cup UNION {FilesOf[q] : q \in Post}
  BY <1>13
<1>. QED  BY <1>10, <1>11, <1>13, <1>14, <1>15, <1>16, <1>19, <1>20, <1>21, <1>22, <1>23, WorldStep

\* The process dies: what it had still to send, it may be given again.
LEMMA NothingStays ==
    ASSUME QueueSize \in Nat, running' = EmptyBag, queue' = <<>>
    PROVE  GoroutinesOK' /\ Unfinished' = {} /\ \A S \in SUBSET JobRecord : Number(S)' = 0
<1>1. PICK J : J = JobRecord
  OBVIOUS
<1>2. IsFiniteSet(Copies(running', J))
  BY NothingRuns, FS_EmptySet
<1>3. GoroutinesOK'
  BY <1>1, <1>2, NothingRuns DEF GoroutinesOK
<1>4. Unfinished' = {}
  BY NothingRuns DEF Unfinished
<1>5. ASSUME NEW S \in SUBSET JobRecord  PROVE Number(S)' = 0
  <2>1. Cardinality(Copies(running', S)) = 0 /\ Cardinality(Places(queue', S)) = 0
    BY NothingRuns, FS_EmptySet
  <2>. QED  BY <2>1 DEF Number
<1>. QED  BY <1>3, <1>4, <1>5

LEMMA NothingTracked ==
    ASSUME NEW T, T = [p \in Post |-> 0]
    PROVE  T \in [Post -> Nat] /\ Cardinality(Tracked(T)) <= MaxTracked
<1>1. Tracked(T) = {} /\ MaxTracked \in Nat
  BY PostSyncAssumption DEF Tracked
<1>. QED  BY <1>1, FS_EmptySet

LEMMA CrashIInv ==
    ASSUME IInv, Crash
    PROVE  IInv'
<1>1. /\ faults' = faults + 1 /\ running' = EmptyBag /\ queue' = <<>>
      /\ tracker' = [p \in Post |-> 0] /\ pending' = {} /\ puts' = 0 /\ adds' = 0
      /\ dirty' = dirty \cup {j.post : j \in {j \in Unfinished : j.src = "service"}}
      /\ UNCHANGED <<posts, remote, reacted, dirtyFiles, dirtyReact, matrix, said, raced, again, changes>>
  BY DEF Crash, Fault, mattermost
<1>2. MattermostTyped /\ HistoryTyped /\ GoroutinesOK /\ Known /\ MatrixTyped
  BY DEF IInv, Typed, World
<1>3. UNCHANGED <<room, remote>> /\ UNCHANGED remote
  BY <1>1 DEF matrix
<1>4. Kept /\ RoomKept /\ MatrixTyped' /\ RoomOK'
  BY <1>3, RoomSame
<1>5. /\ GoroutinesOK' /\ Unfinished' = {} /\ \A S \in SUBSET JobRecord : Number(S)' = 0
  BY <1>1, NothingStays, PostSyncAssumption
<1>6. dirty' \subseteq Post /\ \A p \in dirty' : posts[p].state # "none"
  <2>1. \A j \in Unfinished : j.post \in Post
    BY <1>2, UnfinishedJobs DEF JobRecord
  <2>. QED  BY <1>1, <1>2, <2>1 DEF Known, MattermostTyped
<1>7. MattermostTyped'
  BY <1>1, <1>2, <1>6 DEF MattermostTyped
<1>8. HistoryTyped'
  <2>1. faults \in Nat
    BY <1>2 DEF HistoryTyped
  <2>2. faults' \in Nat
    BY <1>1, <2>1
  <2>. QED  BY <1>1, <1>2, <2>2 DEF HistoryTyped
<1>9. TrackersTyped'
  <2>1. PICK T : T = tracker'
    OBVIOUS
  <2>2. T \in [Post -> Nat] /\ Cardinality(Tracked(T)) <= MaxTracked
    BY <1>1, <2>1, NothingTracked
  <2>3. 0 \in 0..(CleanupEvery - 1)
    BY PostSyncAssumption
  <2>. QED  BY <1>1, <2>1, <2>2, <2>3 DEF TrackersTyped, Tracked
<1>10. SentBound'
  <2>. SUFFICES ASSUME NEW p \in Post
                PROVE  MainCount(p)' + SenderCount(p)' + DueCount(p)' <= 1 + again'[p] + faults'
    BY DEF SentBound
  <2>1. MainCount(p) + SenderCount(p) + DueCount(p) <= 1 + again[p] + faults
    BY DEF IInv, SentBound
  <2>2. MainCount(p)' = MainCount(p)
    BY <1>4 DEF Kept
  <2>3. SenderCount(p)' = 0
    <3>1. PICK S : S = Senders(p)
      OBVIOUS
    <3>2. S \in SUBSET JobRecord
      BY <3>1 DEF Senders
    <3>3. Number(S)' = 0
      BY <1>5, <3>2
    <3>. QED  BY <3>1, <3>3 DEF SenderCount
  <2>4. DueCount(p)' \in {0, 1} /\ again'[p] = again[p] /\ again[p] \in Nat
    BY <1>1, <1>2 DEF DueCount, HistoryTyped
  <2>5. MainCount(p) <= 1 + again[p] + faults /\ MainCount(p) \in Nat /\ faults \in Nat
    BY <2>1, <2>4, CountsAreNats
  <2>6. faults' = faults + 1
    BY <1>1
  <2>. QED  BY ONLY <2>2, <2>3, <2>4, <2>5, <2>6, SMT
<1>11. FileBound'
  <2>. SUFFICES ASSUME NEW f \in File
                PROVE  FileCount(f)' + HolderCount(f)' + In(f, pending') + FreshCount(f)' <= 1
    BY DEF FileBound
  <2>1. FileCount(f) + HolderCount(f) + In(f, pending) + FreshCount(f) <= 1
    BY DEF IInv, FileBound
  <2>2. FileCount(f)' = FileCount(f) /\ FreshCount(f)' = FreshCount(f)
    BY <1>1, <1>4, FreshSame DEF Kept
  <2>3. HolderCount(f)' = 0
    <3>1. PICK S : S = Holders(f)
      OBVIOUS
    <3>2. S \in SUBSET JobRecord
      BY <3>1 DEF Holders
    <3>3. Number(S)' = 0
      BY <1>5, <3>2
    <3>. QED  BY <3>1, <3>3 DEF HolderCount
  <2>4. In(f, pending') = 0
    BY <1>1 DEF In
  <2>. QED  BY <2>1, <2>2, <2>3, <2>4, CountsAreNats
<1>12. /\ \A k \in Unfinished' : k \in Unfinished \/ (JobOK(k)' /\ posts'[k.post].state # "none")
       /\ \A p \in Post : posts[p].state # "none" => posts'[p].state # "none"
       /\ dirtyFiles' \subseteq dirtyFiles \cup UNION {FilesOf[p] : p \in Post}
       /\ \A p \in Post : posts'[p].eid \in {0, posts[p].eid} \/ Names(p, posts[p].eid)'
  BY <1>1, <1>5
<1>13. \A p \in dirty' \cup dirtyReact' : p \in dirty \cup dirtyReact \/ posts'[p].state # "none"
  BY <1>1, <1>6
<1>. QED  BY <1>3, <1>4, <1>5, <1>7, <1>8, <1>9, <1>10, <1>11, <1>12, <1>13, WorldStep

-----------------------------------------------------------------------------
(* The theorems *)

LEMMA InitIInv == Init => IInv
<1>. SUFFICES ASSUME Init  PROVE IInv
  OBVIOUS
<1>1. /\ posts = [p \in Post |-> NoCopy] /\ remote \in RemoteChoice /\ reacted = {}
      /\ dirty = {} /\ dirtyFiles = {} /\ dirtyReact = {} /\ room = <<>>
      /\ tracker = [p \in Post |-> 0] /\ pending = {} /\ puts = 0 /\ adds = 0
      /\ running = EmptyBag /\ queue = <<>>
      /\ said = [p \in Post |-> 0] /\ again = [p \in Post |-> 0]
      /\ raced = {} /\ changes = 0 /\ faults = 0
  BY DEF Init
<1>2. GoroutinesOK /\ Unfinished = {} /\ \A S \in SUBSET JobRecord : Number(S) = 0
  BY <1>1, NothingLeft, PostSyncAssumption
<1>3. MattermostTyped
  BY <1>1, PostSyncAssumption DEF MattermostTyped, NoCopy, Copy
<1>4. MatrixTyped /\ RoomOK
  BY <1>1 DEF MatrixTyped, RoomOK
<1>5. TrackersTyped
  <2>1. 0 \in 0..(CleanupEvery - 1)
    BY PostSyncAssumption
  <2>. QED  BY <1>1, <2>1, NothingTracked DEF TrackersTyped
<1>6. HistoryTyped
  BY <1>1 DEF HistoryTyped
<1>7. Known /\ JobsOK
  BY <1>1, <1>2 DEF Known, JobsOK
<1>8. PostsNamed
  BY <1>1 DEF PostsNamed, Names, NoCopy
<1>9. \A S : Cardinality(Places(room, S)) = 0
  BY <1>1, NothingRuns, FS_EmptySet
<1>10. SentBound
  <2>. SUFFICES ASSUME NEW p \in Post
                PROVE  MainCount(p) + SenderCount(p) + DueCount(p) <= 1 + again[p] + faults
    BY DEF SentBound
  <2>1. Senders(p) \in SUBSET JobRecord
    BY DEF Senders
  <2>2. MainCount(p) = 0 /\ SenderCount(p) = 0
    BY <1>2, <1>9, <2>1 DEF MainCount, SenderCount
  <2>3. DueCount(p) \in {0, 1} /\ again[p] = 0 /\ faults = 0
    BY <1>1 DEF DueCount
  <2>. QED  BY <2>2, <2>3
<1>11. FileBound
  <2>. SUFFICES ASSUME NEW f \in File
                PROVE  FileCount(f) + HolderCount(f) + In(f, pending) + FreshCount(f) <= 1
    BY DEF FileBound
  <2>1. Holders(f) \in SUBSET JobRecord
    BY DEF Holders
  <2>2. FileCount(f) = 0 /\ HolderCount(f) = 0
    BY <1>2, <1>9, <2>1 DEF FileCount, HolderCount
  <2>3. FreshCount(f) \in {0, 1} /\ In(f, pending) = 0
    BY <1>1 DEF FreshCount, In
  <2>. QED  BY <2>2, <2>3
<1>. QED  BY <1>2, <1>3, <1>4, <1>5, <1>6, <1>7, <1>8, <1>10, <1>11 DEF IInv, Typed, World

LEMMA NextIInv == IInv /\ [Next]_vars => IInv'
<1>. SUFFICES ASSUME IInv, [Next]_vars  PROVE IInv'
  OBVIOUS
<1>1. ASSUME NEW j \in BagToSet(running), Goroutine(j)  PROVE IInv'
  BY <1>1, FailEarlyIInv, BeginDeleteIInv, BeginUpdateIInv, BeginReactionIInv, BeginCreateIInv,
     SendTextIInv, SendFileIInv, StoreIInv, TrackIInv, CompareIInv, EditIInv, FindReactionIInv,
     RedactIInv, AnnotateIInv
  DEF Goroutine
<1>2. ASSUME Users  PROVE IInv'
  BY <1>2, CreatePostIInv, CreateRemotePostIInv, EditPostIInv, DeletePostIInv, ToggleReactionIInv DEF Users
<1>3. ASSUME Service  PROVE IInv'
  BY <1>3, UploadFileIInv, DeleteFileIInv, SyncPostsIInv, SyncReactionsIInv DEF Service
<1>4. GoroutinesOK /\ QueueSize \in Nat
  BY PostSyncAssumption DEF IInv
<1>5. ASSUME TakeTask  PROVE IInv'
  <2>1. queue # <<>> /\ Start(Head(queue)) /\ queue' = Tail(queue)
        /\ UNCHANGED <<mattermost, service, matrix, trackers, history>>
    BY <1>5 DEF TakeTask
  <2>2. Remained
    BY <1>4, <2>1, TakeRemains
  <2>. QED  BY <2>1, <2>2, TakeTaskIInv
<1>6. ASSUME UNCHANGED vars  PROVE IInv'
  <2>1. UNCHANGED goroutines /\ UNCHANGED <<mattermost, service, matrix, trackers, history>>
    BY <1>6 DEF vars
  <2>2. Remained
    BY <1>4, <2>1, UnchangedRemains
  <2>. QED  BY <2>1, <2>2, TakeTaskIInv
<1>. QED  BY <1>1, <1>2, <1>3, <1>5, <1>6, CrashIInv DEF Next

LEMMA SpecIInv == Spec => []IInv
BY InitIInv, NextIInv, PTL DEF Spec

\* Every copy of a post, every event and every job is what the code can hold,
\* and the tracker and the queue keep their limits.
THEOREM PostSyncTypeOK == Spec => []TypeOK
<1>1. IInv => TypeOK
  <2>. SUFFICES ASSUME IInv  PROVE TypeOK
    OBVIOUS
  <2>1. \A j \in BagToSet(running) : j.main <= Len(room)
    BY DEF IInv, World, JobsOK, JobOK, Unfinished
  <2>. QED  BY <2>1 DEF IInv, Typed, MattermostTyped, MatrixTyped, TrackersTyped, HistoryTyped, GoroutinesOK,
                        Tracked, TypeOK
<1>. QED  BY <1>1, SpecIInv, PTL

\* A post has one first event in the room, and one more for each job issued
\* to send it before the event id was stored and for each failure; a file is
\* sent at most once; the posts of Matrix users are not sent or edited.
THEOREM PostSyncSentOnce == Spec => []SentOnce
<1>1. IInv => SentOnce
  <2>. SUFFICES ASSUME IInv  PROVE SentOnce
    OBVIOUS
  <2>1. room \in Seq(Event)
    BY DEF IInv, Typed, MatrixTyped
  <2>2. ASSUME NEW p \in Post  PROVE Cardinality(Mains(p)) <= 1 + again[p] + faults
    <3>1. Mains(p) = Places(room, MainEvents(p))
      BY <2>1 DEF Mains, Sent, Places, MainEvents
    <3>2. MainCount(p) + SenderCount(p) + DueCount(p) <= 1 + again[p] + faults
      BY DEF IInv, SentBound
    <3>3. again[p] \in Nat
      BY DEF IInv, Typed, HistoryTyped
    <3>. QED  BY <3>1, <3>2, <3>3, CountsAreNats DEF MainCount
  <2>3. ASSUME NEW p \in remote, NEW i \in DOMAIN room
        PROVE  /\ room[i].post = p => room[i].kind = "reaction"
               /\ i = posts[p].eid => ~room[i].edited
    <3>1. RoomOK /\ Names(p, posts[p].eid) /\ MatrixTyped
      BY DEF IInv, Typed, World, MattermostTyped, PostsNamed
    <3>2. i # 0
      BY <3>1, RoomCounts
    <3>. QED  BY <3>1, <3>2 DEF RoomOK, Names
  <2>4. ASSUME NEW f \in File  PROVE Cardinality({i \in DOMAIN room : room[i].file = f}) <= 1
    <3>1. {i \in DOMAIN room : room[i].file = f} = Places(room, Carriers(f))
      BY <2>1 DEF Places, Carriers
    <3>2. FileCount(f) + HolderCount(f) + In(f, pending) + FreshCount(f) <= 1
      BY DEF IInv, FileBound
    <3>. QED  BY <3>1, <3>2, CountsAreNats DEF FileCount
  <2>. QED  BY <2>2, <2>3, <2>4 DEF SentOnce, DuplicateBound, FileOnce
<1>. QED  BY <1>1, SpecIInv, PTL

=============================================================================
