---------------------- MODULE MatrixToMattermostProofs ----------------------
(***************************************************************************)
(* Where what appears in Mattermost comes from, for any senders, names and *)
(* workers and any number of events, repetitions, failures, crashes and    *)
(* deleted users: the types, and Provenance.                               *)
(*                                                                         *)
(* What a worker does at its end rests on what it found at its beginning,  *)
(* while others were at work (JobOK).  This knowledge lasts because what   *)
(* it is about never changes: whom a user was made for, which event a post *)
(* comes from and in which thread it is, what an event is about (Grows).   *)
(***************************************************************************)
EXTENDS MatrixToMattermost, FiniteSetTheorems, WellFoundedInduction, TLAPS

-----------------------------------------------------------------------------
(* The inductive invariant *)

\* Only the events of post 1 are a ghost's, and what is about something is
\* about an event.
RoomOK ==
    /\ room # <<>> /\ room[1].sender = Ghost
    /\ \A e \in Events :
          /\ room[e].sender = Ghost => \/ e = 1 /\ room[e].kind = "message" /\ room[e].target = 0
                                       \/ e = 2 /\ room[e].kind = "file" /\ room[e].target = 1
          /\ room[e].kind \in {"edit", "reaction", "redaction"} => room[e].target # 0

\* User u is the one made for the sender of event e.
Speaks(u, e) == u \in DOMAIN users /\ users[u].of = room[e].sender

\* What Provenance says of a post, but for how many there are.
Threaded(r, e) == posts[r].root = 0 /\ posts[r].event \in Chain(e) \ {e}
PostOK(p) ==
    LET e == posts[p].event
        r == posts[p].root
    IN  /\ IsPost(e) /\ Speaks(posts[p].author, e)
        /\ r # 0 => Threaded(r, e)
        /\ posts[p].text = e \/ room[posts[p].text].target = e
PostsOK == /\ posts # <<>> /\ posts[1].event = 1 /\ posts[1].root = 0
           /\ \A p \in DOMAIN posts \ {1} : PostOK(p)

\* A stored post is that of its event, which no ghost has sent.
StoredOK == \A e \in Events : postOf[e] # 0 => /\ posts[postOf[e]].event = e
                                               /\ room[e].sender # Ghost

\* Event e is a reaction to the event of post p.
ReactsTo(e, p) == /\ room[e].kind = "reaction" /\ p \in DOMAIN posts
                  /\ posts[p].event = Main(room[e].target)
ReactionsOK == \A r \in reactions : \E e \in Events : ReactsTo(e, r[1]) /\ Speaks(r[2], e)
MappingsOK == /\ \A m \in Sender : userOf[m] # 0 => users[userOf[m]].of = m
              /\ \A u \in DOMAIN users : matrixOf[u] \in {users[u].of, NoSender}

\* What a worker knows at its place: of whom its event is, which user is the
\* sender's, which post it is about to make known or to change.
Early == {"begin", "user", "name", "create", "map", "rename", "post"}
WithUser == {"map", "rename", "profile", "post", "mapPost", "react", "mapReact", "member"}
JobOK(j) ==
    /\ j.pc # "idle" => j.ev \in Events
    /\ j.pc \notin {"idle", "begin"} => room[j.ev].sender # Ghost
    /\ j.pc \in WithUser => Speaks(j.who, j.ev)
    /\ j.pc \in {"post", "mapPost"} => IsPost(j.ev)
    /\ j.pc = "mapPost" => j.post \in DOMAIN posts /\ posts[j.post].event = j.ev
    /\ j.pc \in {"react", "mapReact"} => room[j.ev].kind = "reaction"
    /\ j.pc \notin {"idle", "begin"} /\ room[j.ev].kind = "reaction" => ReactsTo(j.ev, j.post)
    /\ j.pc = "update" => /\ j.post \in DOMAIN posts
                          /\ posts[j.post].event = room[j.ev].target
    /\ j.pc = "delete" => j.post \in DOMAIN posts
    /\ j.pc \in {"unreact", "unmapReact"} =>
          /\ room[j.ev].target \in Events
          /\ j.reaction \in (DOMAIN posts) \X (DOMAIN users)
    /\ j.nick \in {0} \cup Events
JobsOK == \A w \in Worker : JobOK(job[w])

\* The executions of e that may still make a post, and those that have.
Queued(e) == {i \in DOMAIN inbox : inbox[i] = e}
Doing(e) == {w \in Worker : job[w].ev = e /\ job[w].pc \in Early}
Counted == \A e \in Events \ {1} :
    Cardinality(PostsOf(e)) + Cardinality(Queued(e)) + Cardinality(Doing(e)) <= runs[e]

World == RoomOK /\ PostsOK /\ StoredOK /\ ReactionsOK /\ MappingsOK
IInv == TypeOK /\ World /\ JobsOK /\ Counted

-----------------------------------------------------------------------------
(* Facts about the operators *)

\* A set of numbers has a least one.
LEMMA LeastOfNats ==
    ASSUME NEW S, S \subseteq Nat, S # {}
    PROVE  \E x \in S : \A y \in S : x <= y
<1>. DEFINE R == {ss \in Nat \X Nat : ss[1] < ss[2]}
<1>1. IsWellFoundedOn(R, Nat)
  BY NatLessThanWellFounded DEF OpToRel
<1>2. \A x, y \in Nat : y < x => <<y, x>> \in R
  OBVIOUS
<1>. HIDE DEF R
<1>3. PICK x \in S : \A y \in S : ~ (<<y, x>> \in R)
  BY <1>1, WFMin
<1>4. ASSUME NEW y \in S  PROVE x <= y
  <2>1. x \in Nat /\ y \in Nat /\ <<y, x>> \notin R
    BY <1>3
  <2>2. ~ (y < x)
    BY <1>2, <2>1
  <2>. QED  BY <2>1, <2>2
<1>. QED  BY <1>4

\* A bounded set of numbers has a greatest one.
LEMMA MaxOfNats ==
    ASSUME NEW n \in Nat, NEW S, S \subseteq 1..n, S # {}
    PROVE  Max(S) \in S
<1>. DEFINE D == {n - x : x \in S}
<1>1. D \subseteq Nat /\ D # {}
  OBVIOUS
<1>2. PICK d \in D : \A y \in D : d <= y
  BY <1>1, LeastOfNats
<1>3. PICK x \in S : d = n - x
  BY <1>2
<1>4. ASSUME NEW y \in S  PROVE x >= y
  <2>1. n - x <= n - y
    BY <1>2, <1>3
  <2>. QED  BY <2>1
<1>5. \E z \in S : \A y \in S : z >= y
  BY <1>4
<1>. QED  BY <1>5 DEF Max

\* A function of the first numbers is given a value for the next.
LEMMA Appended ==
    ASSUME NEW S, NEW L \in Nat, NEW f \in [1..L -> S], NEW x \in S
    PROVE  /\ Append(f, x) \in [1..(L + 1) -> S] /\ Append(f, x)[L + 1] = x
           /\ \A i \in 1..L : Append(f, x)[i] = f[i]
<1>1. f \in Seq(S) /\ Len(f) = L
  OBVIOUS
<1>2. Append(f, x) \in Seq(S) /\ Len(Append(f, x)) = L + 1
  BY <1>1
<1>3. Append(f, x)[L + 1] = x /\ \A i \in 1..L : Append(f, x)[i] = f[i]
  BY <1>1
<1>4. Append(f, x) \in [1..(L + 1) -> S]
  <2>1. PICK s, n : s = Append(f, x) /\ n = L + 1
    OBVIOUS
  <2>2. s \in Seq(S) /\ Len(s) = n
    BY <1>2, <2>1
  <2>3. s \in [1..n -> S]
    BY <2>2
  <2>. QED  BY <2>1, <2>3
<1>. QED  BY <1>3, <1>4

\* What the types say of the elements.
LEMMA Elements ==
    ASSUME TypeOK
    PROVE  /\ Len(room) \in Nat /\ Events = 1..Len(room)
           /\ \A e \in Events : /\ room[e].kind \in Kinds /\ room[e].sender \in Sender \cup {Ghost}
                                /\ room[e].target \in Nat /\ room[e].target < e
                                /\ room[e].target # 0 => room[e].target \in Events
           /\ Len(users) \in Nat /\ DOMAIN users = 1..Len(users)
           /\ \A u \in DOMAIN users : users[u] \in UserRecord
           /\ Len(posts) \in Nat /\ DOMAIN posts = 1..Len(posts)
           /\ \A p \in DOMAIN posts : posts[p] \in PostRecord /\ posts[p].event \in Events
           /\ Len(inbox) \in Nat /\ DOMAIN inbox = 1..Len(inbox)
<1>1. room \in Seq(Event) /\ \A e \in Events : room[e].target < e
  BY DEF TypeOK
<1>2. Len(room) \in Nat /\ Events = 1..Len(room) /\ \A e \in Events : room[e] \in Event
  BY <1>1 DEF Events
<1>3. \A e \in Events : /\ room[e].kind \in Kinds /\ room[e].sender \in Sender \cup {Ghost}
                        /\ room[e].target \in Nat /\ room[e].target < e
  BY <1>1, <1>2 DEF Event
<1>4. \A e \in Events : room[e].target # 0 => room[e].target \in Events
  BY <1>2, <1>3
<1>5. /\ Len(users) \in Nat /\ DOMAIN users = 1..Len(users)
      /\ \A u \in DOMAIN users : users[u] \in UserRecord
  BY DEF TypeOK
<1>6. /\ Len(posts) \in Nat /\ DOMAIN posts = 1..Len(posts)
      /\ \A p \in DOMAIN posts : posts[p] \in PostRecord
  BY DEF TypeOK
<1>7. \A p \in DOMAIN posts : posts[p].event \in Events
  BY <1>6 DEF PostRecord
<1>8. Len(inbox) \in Nat /\ DOMAIN inbox = 1..Len(inbox)
  BY DEF TypeOK
<1>. QED  BY <1>2, <1>3, <1>4, <1>5, <1>6, <1>7, <1>8

LEMMA ChainFacts ==
    ASSUME TypeOK, NEW e \in Events
    PROVE  /\ e \in Chain(e)
           /\ room[e].target # 0 => room[e].target \in Chain(e)
           /\ \A x \in Chain(e) : x \in 1..e
           /\ \A d \in Events : \A x : x \in Chain(d) /\ d \in Chain(e) => x \in Chain(e)
<1>1. e \in Nat \ {0} /\ e \in 1..e
  BY Elements
<1>2. e \in Chain(e)
  BY <1>1 DEF Chain
<1>3. ASSUME room[e].target # 0  PROVE room[e].target \in Chain(e)
  <2>1. room[e].target \in 1..e
    BY <1>1, <1>3, Elements
  <2>. QED  BY <2>1, <1>3 DEF Chain, Closed
<1>4. ASSUME NEW d \in Events, NEW x, x \in Chain(d), d \in Chain(e)
      PROVE  x \in Chain(e)
  <2>1. d \in 1..e /\ d \in Nat /\ x \in 1..d
    BY <1>4, <1>1 DEF Chain
  <2>2. x \in 1..e
    BY <2>1, <1>1
  <2>3. ASSUME NEW C \in SUBSET (1..e), e \in C, Closed(C)  PROVE x \in C
    <3>. DEFINE B == C \cap (1..d)
    <3>1. d \in B
      BY <1>4, <2>1, <2>3 DEF Chain
    <3>2. ASSUME NEW i \in B, room[i].target # 0  PROVE room[i].target \in B
      <4>1. room[i].target \in C
        BY <3>2, <2>3 DEF Closed
      <4>2. i \in Events /\ i \in 1..d
        BY <2>1, Elements
      <4>3. room[i].target \in 1..d
        BY <4>2, <2>1, <3>2, Elements
      <4>. QED  BY <4>1, <4>3
    <3>3. B \in SUBSET (1..d) /\ Closed(B)
      BY <3>2 DEF Closed
    <3>4. x \in B
      BY <1>4, <3>1, <3>3 DEF Chain
    <3>. QED  BY <3>4
  <2>. QED  BY <2>2, <2>3 DEF Chain
<1>5. \A x \in Chain(e) : x \in 1..e
  BY DEF Chain
<1>. QED  BY <1>2, <1>3, <1>4, <1>5

\* Which post is found for an event, by each of the ways to look for it.
LEMMA FindFacts ==
    ASSUME TypeOK, RoomOK, PostsOK, StoredOK, NEW e \in Events
    PROVE  /\ FindPost(e) # 0 => FindPost(e) \in DOMAIN posts /\ posts[FindPost(e)].event = e
           /\ FindRelated(e) # 0 => FindRelated(e) \in DOMAIN posts /\ posts[FindRelated(e)].event = Main(e)
           /\ FindStored(e) # 0 => FindStored(e) \in DOMAIN posts /\ posts[FindStored(e)].event = Main(e)
           /\ FindStored(e) # 0 => Main(e) = e
           /\ Main(e) \in Chain(e)
           /\ FindPost(e) \in Nat
<1>1. postOf[e] \in 0..Len(posts) /\ Len(posts) \in Nat /\ DOMAIN posts = 1..Len(posts)
  BY Elements DEF TypeOK
<1>2. postOf[e] # 0 => /\ postOf[e] \in DOMAIN posts /\ posts[postOf[e]].event = e
                       /\ room[e].sender # Ghost /\ Main(e) = e
  BY <1>1 DEF StoredOK, Main
<1>3. 1 \in DOMAIN posts /\ posts[1].event = 1
  BY <1>1 DEF PostsOK, TypeOK
<1>4. Sent(e, "message") => e = 1
  BY DEF Sent, RoomOK
<1>5. FindPost(e) # 0 => /\ FindPost(e) \in DOMAIN posts /\ posts[FindPost(e)].event = e /\ Main(e) = e
  BY <1>2, <1>3, <1>4 DEF FindPost, Sent, Main
<1>6. Sent(e, "file") => e = 2 /\ room[e].target = 1 /\ Main(e) = 1
  BY DEF Sent, RoomOK, Main
<1>7. FindPost(1) # 0 => FindPost(1) = 1
  <2>1. 1 \in Events
    BY Elements DEF RoomOK
  <2>2. postOf[1] = 0
    BY <2>1 DEF StoredOK, RoomOK
  <2>. QED  BY <2>2 DEF FindPost
<1>8. FindRelated(e) # 0 => FindRelated(e) \in DOMAIN posts /\ posts[FindRelated(e)].event = Main(e)
  BY <1>3, <1>5, <1>6, <1>7 DEF FindRelated
<1>9. Main(e) \in Chain(e)
  <2>1. CASE room[e].sender = Ghost
    <3>1. Main(e) = 1 /\ (e = 1 \/ room[e].target = 1)
      BY <2>1 DEF Main, RoomOK
    <3>. QED  BY <3>1, ChainFacts
  <2>2. CASE room[e].sender # Ghost
    BY <2>2, ChainFacts DEF Main
  <2>. QED  BY <2>1, <2>2
<1>10. FindPost(e) \in Nat
  BY <1>1 DEF FindPost
<1>. QED  BY <1>2, <1>5, <1>8, <1>9, <1>10 DEF FindStored

LEMMA ProfileFacts ==
    ASSUME TypeOK, NEW m
    PROVE  Profile(m) \in {0} \cup Events
<1>. DEFINE joins == {e \in Events : room[e].sender = m /\ room[e].kind = "join"}
<1>1. joins \subseteq 1..Len(room) /\ Len(room) \in Nat
  BY Elements
<1>2. joins # {} => Max(joins) \in joins
  BY <1>1, MaxOfNats
<1>. QED  BY <1>2 DEF Profile

\* The least name that nobody has is among as many as there are users, and
\* one more.
LEMMA FreeName ==
    ASSUME TypeOK, NEW m
    PROVE  \E n \in 0..Len(users) : ~Taken(m, n) /\ \A i \in 0..(n - 1) : Taken(m, i)
<1>. DEFINE L == Len(users)
            Free == {n \in 0..L : ~Taken(m, n)}
<1>1. L \in Nat /\ DOMAIN users = 1..L
  BY Elements
<1>2. Free # {}
  <2>. SUFFICES ASSUME \A n \in 0..L : Taken(m, n)  PROVE FALSE
    OBVIOUS
  <2>. DEFINE f == [n \in 0..L |-> CHOOSE u \in DOMAIN users : users[u].name = n]
  <2>1. \A n \in 0..L : f[n] \in 1..L /\ users[f[n]].name = n
    BY <1>1 DEF Taken
  <2>2. f \in [0..L -> 1..L]
    BY <2>1
  <2>3. \A x, y \in 0..L : x # y => f[x] # f[y]
    BY <2>1
  <2>. HIDE DEF f
  <2>4. IsFiniteSet(0..L) /\ Cardinality(0..L) = L + 1
    BY <1>1, FS_Interval
  <2>5. IsFiniteSet(1..L) /\ Cardinality(1..L) = L
    <3>1. 1 \in Int /\ L \in Int
      BY <1>1
    <3>2. IsFiniteSet(1..L) /\ Cardinality(1..L) = IF 1 > L THEN 0 ELSE L - 1 + 1
      BY <3>1, FS_Interval
    <3>. QED  BY <1>1, <3>2
  <2>6. Cardinality(1..L) < Cardinality(0..L)
    BY <1>1, <2>4, <2>5
  <2>7. \E x, y \in 0..L : x # y /\ f[x] = f[y]
    BY <2>2, <2>4, <2>5, <2>6, FS_PigeonHole
  <2>. QED  BY <2>3, <2>7
<1>3. Free \subseteq Nat
  BY <1>1
<1>4. PICK n \in Free : \A y \in Free : n <= y
  BY <1>2, <1>3, LeastOfNats
<1>5. \A i \in 0..(n - 1) : i \in 0..L /\ i < n
  BY <1>1, <1>4
<1>6. \A i \in 0..(n - 1) : Taken(m, i)
  BY <1>4, <1>5, <1>1
<1>. QED  BY <1>4, <1>6

-----------------------------------------------------------------------------
(* What lasts *)

\* Nothing that a worker may know of ever changes.
Grows ==
    /\ Events \subseteq Events' /\ \A e \in Events : room'[e] = room[e]
    /\ DOMAIN users \subseteq DOMAIN users' /\ \A u \in DOMAIN users : users'[u].of = users[u].of
    /\ DOMAIN posts \subseteq DOMAIN posts'
    /\ \A p \in DOMAIN posts : /\ posts'[p].event = posts[p].event
                               /\ posts'[p].author = posts[p].author
                               /\ posts'[p].root = posts[p].root

LEMMA SpeaksKept ==
    ASSUME Grows, NEW u, NEW e \in Events, Speaks(u, e)
    PROVE  Speaks(u, e)'
BY DEF Grows, Speaks

LEMMA ReactsKept ==
    ASSUME TypeOK, RoomOK, Grows, NEW e \in Events, NEW p, ReactsTo(e, p)
    PROVE  ReactsTo(e, p)'
<1>1. room[e].target \in Events
  BY Elements DEF ReactsTo, RoomOK
<1>. QED  BY <1>1 DEF Grows, ReactsTo, Main

LEMMA JobKept ==
    ASSUME TypeOK, RoomOK, Grows, NEW j, JobOK(j)
    PROVE  JobOK(j)'
<1>1. CASE j.pc = "idle"
  BY <1>1 DEF JobOK, Grows, WithUser
<1>2. CASE j.pc # "idle"
  <2>1. j.ev \in Events /\ j.ev \in Events' /\ room'[j.ev] = room[j.ev]
    BY <1>2 DEF JobOK, Grows
  <2>2. j.pc \in WithUser => Speaks(j.who, j.ev)'
    BY <2>1, SpeaksKept DEF JobOK
  <2>3. j.pc \notin {"idle", "begin"} /\ room[j.ev].kind = "reaction" => ReactsTo(j.ev, j.post)'
    BY <2>1, ReactsKept DEF JobOK
  <2>4. j.pc \in {"post", "mapPost"} => IsPost(j.ev)'
    BY <2>1 DEF JobOK, IsPost
  <2>5. j.pc = "mapPost" => j.post \in DOMAIN posts' /\ posts'[j.post].event = j.ev
    BY DEF JobOK, Grows
  <2>6. j.pc = "update" => j.post \in DOMAIN posts' /\ posts'[j.post].event = room'[j.ev].target
    BY <2>1 DEF JobOK, Grows
  <2>7. j.pc = "delete" => j.post \in DOMAIN posts'
    BY DEF JobOK, Grows
  <2>8. j.pc \in {"unreact", "unmapReact"} =>
          /\ room'[j.ev].target \in Events'
          /\ j.reaction \in (DOMAIN posts') \X (DOMAIN users')
    BY <2>1 DEF JobOK, Grows
  <2>9. j.nick \in {0} \cup Events'
    BY DEF JobOK, Grows
  <2>. QED  BY <2>1, <2>2, <2>3, <2>4, <2>5, <2>6, <2>7, <2>8, <2>9 DEF JobOK
<1>. QED  BY <1>1, <1>2

LEMMA ChainKept ==
    ASSUME TypeOK, Grows, NEW e \in Events
    PROVE  Chain(e)' = Chain(e)
<1>1. \A i \in 1..e : i \in Events /\ room'[i] = room[i]
  BY Elements DEF Grows
<1>2. \A C \in SUBSET (1..e) : Closed(C)' <=> Closed(C)
  BY <1>1 DEF Closed
<1>. QED  BY <1>2 DEF Chain

LEMMA PostKept ==
    ASSUME TypeOK, PostsOK, Grows, NEW p \in DOMAIN posts \ {1},
           posts'[p].text = posts[p].text \/ room'[posts'[p].text].target = posts[p].event
    PROVE  PostOK(p)'
<1>0. PICK e, r, a : e = posts[p].event /\ r = posts[p].root /\ a = posts[p].author
  OBVIOUS
<1>1. /\ e \in Events /\ e \in Events' /\ room'[e] = room[e]
      /\ posts[p] \in PostRecord /\ posts[p].text \in Events
  BY <1>0, Elements DEF Grows, PostRecord
<1>2. /\ posts'[p].event = e /\ posts'[p].author = a
      /\ posts'[p].root = r
  BY <1>0 DEF Grows
<1>3. IsPost(e)' /\ Speaks(a, e)'
  <2>1. IsPost(e) /\ Speaks(a, e)
    BY <1>0 DEF PostsOK, PostOK
  <2>. QED  BY <1>1, <2>1, SpeaksKept DEF IsPost
<1>4. ASSUME r # 0  PROVE Threaded(r, e)'
  <2>1. Threaded(r, e)
    BY <1>0, <1>4 DEF PostsOK, PostOK
  <2>2. r \in DOMAIN posts
    <3>1. r \in Nat /\ r < p /\ p \in 1..Len(posts) /\ Len(posts) \in Nat
      BY <1>0, <1>1, Elements DEF TypeOK, PostRecord
    <3>. QED  BY <3>1, <1>4, Elements
  <2>3. posts'[r].root = 0 /\ posts'[r].event = posts[r].event
    BY <2>1, <2>2 DEF Grows, Threaded
  <2>. QED  BY <1>1, <2>1, <2>3, ChainKept DEF Threaded
<1>5. posts'[p].text = e \/ room'[posts'[p].text].target = e
  <2>1. CASE posts'[p].text = posts[p].text
    <3>1. posts[p].text = e \/ room[posts[p].text].target = e
      BY <1>0 DEF PostsOK, PostOK
    <3>2. room'[posts[p].text] = room[posts[p].text]
      BY <1>1 DEF Grows
    <3>. QED  BY <2>1, <3>1, <3>2
  <2>. QED  BY <1>0, <2>1
<1>. QED  BY <1>2, <1>3, <1>4, <1>5 DEF PostOK

\* What is unchanged stays right.
LEMMA ReactionsKept ==
    ASSUME TypeOK, RoomOK, ReactionsOK, Grows, reactions' \subseteq reactions
    PROVE  ReactionsOK'
<1>1. ASSUME NEW r \in reactions'
      PROVE  \E e \in Events' : ReactsTo(e, r[1])' /\ Speaks(r[2], e)'
  <2>1. PICK e \in Events : ReactsTo(e, r[1]) /\ Speaks(r[2], e)
    BY <1>1 DEF ReactionsOK
  <2>2. e \in Events'
    BY DEF Grows
  <2>. QED  BY <2>1, <2>2, ReactsKept, SpeaksKept
<1>. QED  BY <1>1 DEF ReactionsOK

LEMMA StoredKept ==
    ASSUME TypeOK, StoredOK, Grows, UNCHANGED <<room, postOf>>
    PROVE  StoredOK'
<1>1. \A e \in Events : postOf[e] # 0 => postOf[e] \in DOMAIN posts
  BY Elements DEF TypeOK
<1>. QED  BY <1>1 DEF StoredOK, Grows, Events

LEMMA MappingsKept ==
    ASSUME TypeOK, MappingsOK, Grows, DOMAIN users' = DOMAIN users, UNCHANGED <<userOf, matrixOf>>
    PROVE  MappingsOK'
<1>1. \A m \in Sender : userOf[m] # 0 => userOf[m] \in DOMAIN users
  BY Elements DEF TypeOK
<1>. QED  BY <1>1 DEF MappingsOK, Grows

-----------------------------------------------------------------------------
(* Steps of one worker *)

LEMMA StepJobs ==
    ASSUME TypeOK, RoomOK, JobsOK, Grows, NEW w \in Worker, NEW j, Replace(w, j), JobOK(j)'
    PROVE  JobsOK'
<1>1. ASSUME NEW v \in Worker  PROVE JobOK(job[v])'
  <2>1. CASE v = w
    <3>1. job'[v] = j
      BY <2>1 DEF Replace, TypeOK
    <3>. QED  BY <3>1 DEF JobOK, Speaks, ReactsTo, IsPost, Main, Events
  <2>2. CASE v # w
    <3>1. PICK k : k = job[v]
      OBVIOUS
    <3>2. job'[v] = k
      BY <2>2, <3>1 DEF Replace, TypeOK
    <3>3. JobOK(k)
      BY <3>1 DEF JobsOK
    <3>4. JobOK(k)'
      BY <3>3, JobKept
    <3>. QED  BY <3>2, <3>4 DEF JobOK, Speaks, ReactsTo, IsPost, Main, Events
  <2>. QED  BY <2>1, <2>2
<1>. QED  BY <1>1 DEF JobsOK

\* The three sets that are counted are finite.
LEMMA CountFacts ==
    ASSUME TypeOK, NEW e
    PROVE  /\ IsFiniteSet(PostsOf(e)) /\ Cardinality(PostsOf(e)) \in Nat
           /\ IsFiniteSet(Queued(e)) /\ Cardinality(Queued(e)) \in Nat
           /\ IsFiniteSet(Doing(e)) /\ Cardinality(Doing(e)) \in Nat
<1>1. IsFiniteSet(PostsOf(e))
  <2>1. DOMAIN posts = 1..Len(posts) /\ Len(posts) \in Int /\ 1 \in Int
    BY Elements
  <2>2. PostsOf(e) \in SUBSET (1..Len(posts))
    BY <2>1 DEF PostsOf
  <2>. QED  BY <2>1, <2>2, FS_Interval, FS_Subset
<1>2. IsFiniteSet(Queued(e))
  <2>1. DOMAIN inbox = 1..Len(inbox) /\ Len(inbox) \in Int /\ 1 \in Int
    BY Elements
  <2>2. Queued(e) \in SUBSET (1..Len(inbox))
    BY <2>1 DEF Queued
  <2>. QED  BY <2>1, <2>2, FS_Interval, FS_Subset
<1>3. IsFiniteSet(Doing(e))
  <2>1. Doing(e) \in SUBSET Worker
    BY DEF Doing
  <2>. QED  BY <2>1, MatrixToMattermostAssumption, FS_Subset
<1>. QED  BY <1>1, <1>2, <1>3, FS_CardinalityType

\* A job that goes on makes no more posts than it would have made.
GoesOn(w, j) == j.pc \in Early => job[w].pc \in Early /\ j.ev = job[w].ev

LEMMA DoingKept ==
    ASSUME TypeOK, NEW w \in Worker, NEW j, Replace(w, j), GoesOn(w, j), NEW e
    PROVE  Doing(e)' \in SUBSET Doing(e)
BY DEF Replace, GoesOn, Doing, TypeOK

LEMMA CountsKept ==
    ASSUME TypeOK, Counted, NEW w \in Worker, NEW j, Replace(w, j), GoesOn(w, j),
           UNCHANGED <<room, inbox, runs>>, DOMAIN posts' = DOMAIN posts,
           \A p \in DOMAIN posts : posts'[p].event = posts[p].event
    PROVE  Counted'
<1>1. ASSUME NEW e \in Events \ {1}
      PROVE  Cardinality(PostsOf(e)') + Cardinality(Queued(e)') + Cardinality(Doing(e)') <= runs[e]
  <2>1. PostsOf(e)' = PostsOf(e) /\ Queued(e)' = Queued(e)
    BY DEF PostsOf, Queued
  <2>2. Cardinality(Doing(e)') <= Cardinality(Doing(e)) /\ Cardinality(Doing(e)') \in Nat
    BY DoingKept, CountFacts, FS_Subset, FS_CardinalityType
  <2>3. Cardinality(PostsOf(e)) + Cardinality(Queued(e)) + Cardinality(Doing(e)) <= runs[e]
    BY DEF Counted
  <2>4. runs[e] \in Nat
    BY DEF TypeOK
  <2>. QED  BY <2>1, <2>2, <2>3, <2>4, CountFacts
<1>2. Events' = Events /\ runs' = runs
  BY DEF Events
<1>. QED  BY <1>1, <1>2 DEF Counted

\* What a job may become, apart from where the state has grown.
Able(w, j) == /\ j \in JobRecord /\ j.ev \in {0} \cup Events
              /\ JobOK(j) /\ GoesOn(w, j)

LEMMA IdleIsAble ==
    ASSUME NEW w \in Worker
    PROVE  Able(w, Idle) /\ JobOK(Idle) /\ Idle \in JobRecord
BY DEF Able, Idle, JobOK, GoesOn, JobRecord, NoReaction, Early, WithUser

\* A step that leaves the room, the users and the posts as they are.
LEMMA QuietStep ==
    ASSUME IInv, NEW w \in Worker, NEW j, Replace(w, j), Able(w, j),
           UNCHANGED <<room, inbox, users, posts, runs, raced>>, faults' \in Nat,
           members' \subseteq DOMAIN users,
           reactions' \subseteq (DOMAIN posts) \X (DOMAIN users),
           userOf' \in [Sender -> 0..Len(users)],
           matrixOf' \in [DOMAIN users -> Sender \cup {NoSender}],
           postOf' \in [Events -> 0..Len(posts)],
           reactionOf' \in [Events -> ((DOMAIN posts) \X (DOMAIN users)) \cup {NoReaction}],
           StoredOK', ReactionsOK', MappingsOK'
    PROVE  IInv'
<1>1. TypeOK /\ RoomOK /\ PostsOK /\ JobsOK /\ Counted
  BY DEF IInv, World
<1>2. Events' = Events /\ UserRecord' = UserRecord /\ PostRecord' = PostRecord
  BY DEF Events, UserRecord, PostRecord
<1>3. Grows
  BY <1>2 DEF Grows
<1>4. job' \in [Worker -> JobRecord] /\ \A v \in Worker : job'[v].ev \in {0} \cup Events
  BY <1>1 DEF TypeOK, Replace, Able
<1>5. TypeOK'
  BY <1>1, <1>2, <1>4 DEF TypeOK
<1>6. JobsOK'
  BY <1>1, <1>3, JobKept, StepJobs DEF Able
<1>7. Counted'
  BY <1>1, CountsKept DEF Able
<1>8. RoomOK'
  BY <1>1, <1>2 DEF RoomOK
<1>9. PostsOK'
  <2>1. \A p \in DOMAIN posts \ {1} : PostOK(p)'
    BY <1>1, <1>3, PostKept DEF PostsOK
  <2>. QED  BY <1>1, <2>1 DEF PostsOK
<1>. QED  BY <1>5, <1>6, <1>7, <1>8, <1>9 DEF IInv, World

\* The mappings and reactions stay right while nothing they speak of changes.
LEMMA QuietFacts ==
    ASSUME IInv, UNCHANGED <<room, users, posts>>
    PROVE  /\ Grows /\ TypeOK
           /\ UNCHANGED postOf => StoredOK' /\ postOf' \in [Events -> 0..Len(posts)]
           /\ UNCHANGED reactions => ReactionsOK' /\ reactions' \subseteq (DOMAIN posts) \X (DOMAIN users)
           /\ UNCHANGED <<userOf, matrixOf>> => /\ MappingsOK'
                                                /\ userOf' \in [Sender -> 0..Len(users)]
                                                /\ matrixOf' \in [DOMAIN users -> Sender \cup {NoSender}]
           /\ UNCHANGED members => members' \subseteq DOMAIN users
           /\ UNCHANGED reactionOf =>
                reactionOf' \in [Events -> ((DOMAIN posts) \X (DOMAIN users)) \cup {NoReaction}]
<1>1. TypeOK /\ RoomOK /\ StoredOK /\ ReactionsOK /\ MappingsOK
  BY DEF IInv, World
<1>2. Grows
  BY DEF Grows, Events
<1>3. UNCHANGED postOf => StoredOK'
  BY <1>1, <1>2, StoredKept
<1>4. UNCHANGED reactions => ReactionsOK'
  BY <1>1, <1>2, ReactionsKept
<1>5. UNCHANGED <<userOf, matrixOf>> => MappingsOK'
  BY <1>1, <1>2, MappingsKept
<1>. QED  BY <1>1, <1>2, <1>3, <1>4, <1>5 DEF TypeOK

\* A step that only moves the worker.
LEMMA Moving ==
    ASSUME IInv, NEW w \in Worker, NEW j, Replace(w, j), Able(w, j),
           UNCHANGED unchangedByReads, faults' \in Nat
    PROVE  IInv'
<1>1. UNCHANGED <<room, inbox, users, posts, runs, raced, members, reactions, userOf, matrixOf,
                  postOf, reactionOf>>
  BY DEF unchangedByReads, mattermost, kvstore
<1>2. /\ StoredOK' /\ ReactionsOK' /\ MappingsOK'
      /\ members' \subseteq DOMAIN users
      /\ reactions' \subseteq (DOMAIN posts) \X (DOMAIN users)
      /\ userOf' \in [Sender -> 0..Len(users)]
      /\ matrixOf' \in [DOMAIN users -> Sender \cup {NoSender}]
      /\ postOf' \in [Events -> 0..Len(posts)]
      /\ reactionOf' \in [Events -> ((DOMAIN posts) \X (DOMAIN users)) \cup {NoReaction}]
  BY <1>1, QuietFacts
<1>. QED  BY <1>1, <1>2, QuietStep

-----------------------------------------------------------------------------
(* How a job begins *)

LEMMA WorkerFacts ==
    ASSUME IInv, NEW w \in Worker
    PROVE  /\ TypeOK /\ RoomOK /\ PostsOK /\ StoredOK /\ ReactionsOK /\ MappingsOK /\ JobsOK /\ Counted
           /\ job[w] \in JobRecord /\ job[w].ev \in {0} \cup Events /\ JobOK(job[w])
           /\ faults \in Nat
BY DEF IInv, World, TypeOK, JobsOK

LEMMA FinishMoves ==
    ASSUME IInv, NEW w \in Worker, Finish(w), UNCHANGED unchangedByReads, faults' \in Nat
    PROVE  IInv'
<1>1. PICK j : j = Idle
  OBVIOUS
<1>2. Replace(w, j) /\ Able(w, j)
  BY <1>1, IdleIsAble DEF Finish
<1>. QED  BY <1>2, Moving

LEMMA FaultNat == TypeOK /\ (Fault \/ UNCHANGED faults) => faults' \in Nat
BY DEF Fault, TypeOK

LEMMA FailStep ==
    ASSUME IInv, NEW w \in Worker, Fail(w) \/ SkipGhost(w)
    PROVE  IInv'
<1>1. Finish(w) /\ UNCHANGED unchangedByReads /\ faults' \in Nat
  BY WorkerFacts, FaultNat DEF Fail, SkipGhost
<1>. QED  BY <1>1, FinishMoves

LEMMA BeginMessageStep ==
    ASSUME IInv, NEW w \in Worker, BeginMessage(w)
    PROVE  IInv'
<1>1. PICK j : j = [job[w] EXCEPT !.pc = "user"]
  OBVIOUS
<1>2. /\ job[w].pc = "begin" /\ room[job[w].ev].sender # Ghost /\ IsPost(job[w].ev) /\ Replace(w, j)
      /\ UNCHANGED unchangedByReads /\ faults' \in Nat
  BY <1>1, WorkerFacts DEF BeginMessage, Goto, About
<1>3. /\ j \in JobRecord /\ j.pc = "user" /\ j.ev = job[w].ev /\ j.nick = job[w].nick
  BY <1>1, WorkerFacts DEF JobRecord
<1>4. Able(w, j)
  BY <1>2, <1>3, WorkerFacts DEF Able, JobOK, GoesOn, Early, WithUser, IsPost
<1>. QED  BY <1>2, <1>4, Moving

LEMMA BeginAboutStep ==
    ASSUME IInv, NEW w \in Worker, BeginAbout(w)
    PROVE  IInv'
<1>. DEFINE e == room[job[w].ev]
<1>1. /\ job[w].pc = "begin" /\ e.kind \in {"edit", "reaction"} /\ job[w].ev \in Events
      /\ UNCHANGED unchangedByReads /\ faults' \in Nat
  BY WorkerFacts, FaultNat DEF BeginAbout, JobOK, About
<1>2. e.target \in Events /\ e.sender # Ghost
  BY <1>1, WorkerFacts, Elements DEF RoomOK
<1>3. PICK p : /\ p = (IF e.kind = "edit" THEN FindPost(e.target) ELSE FindRelated(e.target))
                  \/ p = FindStored(e.target)
               /\ IF p = 0 THEN Finish(w)
                  ELSE Replace(w, [job[w] EXCEPT !.post = p, !.pc = IF e.kind = "edit" THEN "update" ELSE "user"])
  BY DEF BeginAbout, About
<1>4. CASE p = 0
  BY <1>1, <1>3, <1>4, FinishMoves
<1>5. CASE p # 0
  <2>1. /\ p \in DOMAIN posts
        /\ e.kind = "edit" => posts[p].event = e.target
        /\ e.kind = "reaction" => posts[p].event = Main(e.target)
    BY <1>1, <1>2, <1>3, <1>5, WorkerFacts, FindFacts
  <2>2. PICK j : j = [job[w] EXCEPT !.post = p, !.pc = IF e.kind = "edit" THEN "update" ELSE "user"]
    OBVIOUS
  <2>3. p \in Nat
    BY <2>1, WorkerFacts, Elements
  <2>4. /\ j \in JobRecord /\ j.pc = (IF e.kind = "edit" THEN "update" ELSE "user")
        /\ j.ev = job[w].ev /\ j.nick = job[w].nick /\ j.post = p
    BY <2>2, <2>3, WorkerFacts DEF JobRecord
  <2>5. Able(w, j)
    BY <1>1, <1>2, <2>1, <2>4, WorkerFacts DEF Able, JobOK, GoesOn, Early, WithUser, ReactsTo
  <2>6. Replace(w, j)
    BY <1>3, <1>5, <2>2
  <2>. QED  BY <1>1, <2>5, <2>6, Moving
<1>. QED  BY <1>4, <1>5

LEMMA BeginRedactionStep ==
    ASSUME IInv, NEW w \in Worker, BeginRedaction(w)
    PROVE  IInv'
<1>. DEFINE target == room[job[w].ev].target
<1>1. /\ job[w].pc = "begin" /\ room[job[w].ev].kind = "redaction" /\ job[w].ev \in Events
      /\ UNCHANGED unchangedByReads /\ faults' \in Nat
  BY WorkerFacts, FaultNat DEF BeginRedaction, JobOK, About
<1>2. target \in Events /\ room[job[w].ev].sender # Ghost
  BY <1>1, WorkerFacts, Elements DEF RoomOK
<1>3. \/ Finish(w)
      \/ FindPost(target) # 0 /\ Replace(w, [job[w] EXCEPT !.post = FindPost(target), !.pc = "delete"])
      \/ /\ reactionOf[target] # NoReaction
         /\ Replace(w, [job[w] EXCEPT !.reaction = reactionOf[target], !.pc = "unreact"])
  BY DEF BeginRedaction, About
<1>4. CASE Finish(w)
  BY <1>1, <1>4, FinishMoves
<1>5. CASE FindPost(target) # 0 /\ Replace(w, [job[w] EXCEPT !.post = FindPost(target), !.pc = "delete"])
  <2>1. FindPost(target) \in DOMAIN posts /\ FindPost(target) \in Nat
    BY <1>2, <1>5, WorkerFacts, FindFacts
  <2>2. PICK j : j = [job[w] EXCEPT !.post = FindPost(target), !.pc = "delete"]
    OBVIOUS
  <2>3. /\ j \in JobRecord /\ j.pc = "delete"
        /\ j.ev = job[w].ev /\ j.nick = job[w].nick /\ j.post = FindPost(target)
    BY <2>1, <2>2, WorkerFacts DEF JobRecord
  <2>4. Able(w, j)
    BY <1>1, <1>2, <2>1, <2>3, WorkerFacts DEF Able, JobOK, GoesOn, Early, WithUser
  <2>. QED  BY <1>1, <1>5, <2>2, <2>4, Moving
<1>6. CASE /\ reactionOf[target] # NoReaction
           /\ Replace(w, [job[w] EXCEPT !.reaction = reactionOf[target], !.pc = "unreact"])
  <2>1. reactionOf[target] \in (DOMAIN posts) \X (DOMAIN users)
    BY <1>2, <1>6, WorkerFacts DEF TypeOK
  <2>2. PICK j : j = [job[w] EXCEPT !.reaction = reactionOf[target], !.pc = "unreact"]
    OBVIOUS
  <2>3. reactionOf[target] \in Nat \X Nat
    <3>1. DOMAIN posts \subseteq Nat /\ DOMAIN users \subseteq Nat
      BY WorkerFacts, Elements
    <3>. QED  BY ONLY <2>1, <3>1
  <2>4. /\ j \in JobRecord /\ j.pc = "unreact"
        /\ j.ev = job[w].ev /\ j.nick = job[w].nick /\ j.reaction = reactionOf[target]
    BY <2>2, <2>3, WorkerFacts DEF JobRecord
  <2>5. Able(w, j)
    BY <1>1, <1>2, <2>1, <2>4, WorkerFacts DEF Able, JobOK, GoesOn, Early, WithUser
  <2>. QED  BY <1>1, <1>6, <2>2, <2>5, Moving
<1>. QED  BY <1>3, <1>4, <1>5, <1>6

LEMMA BeginMemberStep ==
    ASSUME IInv, NEW w \in Worker, BeginMember(w)
    PROVE  IInv'
<1>. DEFINE m == room[job[w].ev].sender
<1>1. /\ job[w].pc = "begin" /\ room[job[w].ev].kind \in {"join", "leave"} /\ job[w].ev \in Events
      /\ UNCHANGED unchangedByReads /\ faults' \in Nat
  BY WorkerFacts, FaultNat DEF BeginMember, JobOK, About
<1>2. m \in Sender /\ m # Ghost /\ job[w].ev \in Nat
  BY <1>1, WorkerFacts, Elements DEF RoomOK
<1>3. \/ Finish(w)
      \/ Goto(w, "user")
      \/ /\ userOf[m] # 0
         /\ Replace(w, [job[w] EXCEPT !.who = userOf[m], !.pc = "member", !.nick = job[w].ev])
  BY DEF BeginMember, About
<1>4. CASE Finish(w)
  BY <1>1, <1>4, FinishMoves
<1>5. CASE Goto(w, "user")
  <2>1. PICK j : j = [job[w] EXCEPT !.pc = "user"]
    OBVIOUS
  <2>2. /\ j \in JobRecord /\ j.pc = "user" /\ j.ev = job[w].ev /\ j.nick = job[w].nick
    BY <2>1, WorkerFacts DEF JobRecord
  <2>3. Able(w, j)
    BY <1>1, <1>2, <2>2, WorkerFacts DEF Able, JobOK, GoesOn, Early, WithUser
  <2>. QED  BY <1>1, <1>5, <2>1, <2>3, Moving DEF Goto
<1>6. CASE /\ userOf[m] # 0
           /\ Replace(w, [job[w] EXCEPT !.who = userOf[m], !.pc = "member", !.nick = job[w].ev])
  <2>1. userOf[m] \in 0..Len(users) /\ userOf[m] \in DOMAIN users /\ userOf[m] \in Nat
    BY <1>2, <1>6, WorkerFacts, Elements DEF TypeOK
  <2>2. PICK j : j = [job[w] EXCEPT !.who = userOf[m], !.pc = "member", !.nick = job[w].ev]
    OBVIOUS
  <2>3. /\ j \in JobRecord /\ j.pc = "member"
        /\ j.ev = job[w].ev /\ j.nick = job[w].ev /\ j.who = userOf[m]
    BY <1>2, <2>1, <2>2, WorkerFacts DEF JobRecord
  <2>4. Speaks(j.who, j.ev)
    BY <1>2, <1>6, <2>1, <2>3, WorkerFacts DEF Speaks, MappingsOK
  <2>5. Able(w, j)
    BY <1>1, <1>2, <2>3, <2>4, WorkerFacts DEF Able, JobOK, GoesOn, Early
  <2>. QED  BY <1>1, <1>6, <2>2, <2>5, Moving
<1>. QED  BY <1>3, <1>4, <1>5, <1>6

LEMMA NameStep ==
    ASSUME IInv, NEW w \in Worker, Name(w)
    PROVE  IInv'
<1>. DEFINE m == room[job[w].ev].sender
            n == CHOOSE n \in 0..Len(users) : ~Taken(m, n) /\ \A i \in 0..(n - 1) : Taken(m, i)
<1>1. /\ job[w].pc = "name" /\ job[w].ev \in Events
      /\ \/ Replace(w, [job[w] EXCEPT !.name = n, !.nick = Profile(m), !.pc = "create"])
         \/ Replace(w, [job[w] EXCEPT !.name = n, !.pc = "create"])
      /\ UNCHANGED unchangedByReads /\ faults' \in Nat
  BY WorkerFacts, FaultNat DEF Name, JobOK, About
<1>2. n \in 0..Len(users) /\ n \in Nat
  BY WorkerFacts, FreeName
<1>3. Profile(m) \in {0} \cup Events /\ Profile(m) \in Nat
  BY WorkerFacts, ProfileFacts, Elements
<1>. HIDE DEF n, m
<1>4. PICK j : /\ Replace(w, j)
               /\ \/ j = [job[w] EXCEPT !.name = n, !.nick = Profile(m), !.pc = "create"]
                  \/ j = [job[w] EXCEPT !.name = n, !.pc = "create"]
  BY <1>1
<1>5. /\ j \in JobRecord /\ j.pc = "create"
      /\ j.ev = job[w].ev /\ j.nick \in {Profile(m), job[w].nick} /\ j.post = job[w].post
  BY <1>2, <1>3, <1>4, WorkerFacts DEF JobRecord
<1>6. Able(w, j)
  BY <1>1, <1>3, <1>5, WorkerFacts DEF Able, JobOK, GoesOn, Early, WithUser
<1>. QED  BY <1>1, <1>4, <1>6, Moving

-----------------------------------------------------------------------------
(* The user of a job *)

\* Where a job goes that has its user.
LEMMA ProceedIsAble ==
    ASSUME IInv, NEW w \in Worker, job[w].pc \in {"map", "rename"}, NEW j,
           j = [job[w] EXCEPT !.nick = 0, !.pc = Use(room[job[w].ev].kind)]
    PROVE  Able(w, j)
<1>1. job[w].ev \in Events /\ room[job[w].ev].sender # Ghost /\ Speaks(job[w].who, job[w].ev)
  BY WorkerFacts DEF JobOK, WithUser
<1>2. Use(room[job[w].ev].kind) \in {"post", "react", "member"}
  BY DEF Use
<1>3. /\ j \in JobRecord /\ j.pc = Use(room[job[w].ev].kind) /\ j.nick = 0
      /\ j.ev = job[w].ev /\ j.who = job[w].who /\ j.post = job[w].post
  BY <1>2, WorkerFacts DEF JobRecord
<1>4. /\ j.pc = "post" => IsPost(j.ev)
      /\ j.pc = "react" => room[j.ev].kind = "reaction"
  BY <1>3 DEF Use, IsPost
<1>5. room[j.ev].kind = "reaction" => ReactsTo(j.ev, j.post)
  BY <1>3, WorkerFacts DEF JobOK
<1>. QED  BY <1>1, <1>2, <1>3, <1>4, <1>5, WorkerFacts DEF Able, JobOK, GoesOn, Early, WithUser

LEMMA LookUpStep ==
    ASSUME IInv, NEW w \in Worker, LookUp(w)
    PROVE  IInv'
<1>. DEFINE m == room[job[w].ev].sender
<1>1. /\ job[w].pc = "user" /\ job[w].ev \in Events /\ m \in Sender /\ m # Ghost
      /\ UNCHANGED <<room, inbox, users, posts, runs, raced, members, reactions, matrixOf, postOf, reactionOf>>
      /\ faults' \in Nat
  <2>1. job[w].pc = "user" /\ job[w].ev \in Events /\ m # Ghost
    BY WorkerFacts DEF LookUp, JobOK
  <2>. QED  BY <2>1, WorkerFacts, FaultNat, Elements DEF LookUp, mattermost
<1>2. /\ UNCHANGED <<room, users, posts>> /\ faults' \in Nat
      /\ members' \subseteq DOMAIN users
      /\ reactions' \subseteq (DOMAIN posts) \X (DOMAIN users)
      /\ matrixOf' \in [DOMAIN users -> Sender \cup {NoSender}]
      /\ postOf' \in [Events -> 0..Len(posts)]
      /\ reactionOf' \in [Events -> ((DOMAIN posts) \X (DOMAIN users)) \cup {NoReaction}]
      /\ StoredOK' /\ ReactionsOK'
  <2>1. matrixOf' \in [DOMAIN users -> Sender \cup {NoSender}]
    BY <1>1, WorkerFacts DEF TypeOK
  <2>. QED  BY <1>1, <2>1, QuietFacts, WorkerFacts
<1>3. CASE /\ Known(m) /\ UNCHANGED userOf
           /\ Replace(w, [job[w] EXCEPT !.who = userOf[m], !.nick = Profile(m), !.pc = "rename"])
  <2>1. PICK j : j = [job[w] EXCEPT !.who = userOf[m], !.nick = Profile(m), !.pc = "rename"]
    OBVIOUS
  <2>2. Replace(w, j) /\ UNCHANGED userOf
    BY <1>3, <2>1
  <2>3. userOf[m] \in DOMAIN users /\ userOf[m] \in Nat /\ Speaks(userOf[m], job[w].ev)
    <3>1. userOf[m] # 0 /\ userOf[m] \in 0..Len(users)
      BY <1>1, <1>3, WorkerFacts DEF Known, TypeOK
    <3>. QED  BY <1>1, <3>1, WorkerFacts, Elements DEF Speaks, MappingsOK
  <2>4. Profile(m) \in {0} \cup Events /\ Profile(m) \in Nat
    BY WorkerFacts, ProfileFacts, Elements
  <2>5. /\ j \in JobRecord /\ j.pc = "rename" /\ j.nick \in {0} \cup Events
        /\ j.ev = job[w].ev /\ j.who = userOf[m] /\ j.post = job[w].post
    BY <2>1, <2>3, <2>4, WorkerFacts DEF JobRecord
  <2>6. Able(w, j)
    BY <1>1, <2>3, <2>5, WorkerFacts DEF Able, JobOK, GoesOn, Early, WithUser
  <2>7. userOf' \in [Sender -> 0..Len(users)] /\ MappingsOK'
    BY <1>1, <2>2, QuietFacts
  <2>. QED  BY <1>1, <1>2, <2>2, <2>6, <2>7, QuietStep
<1>4. CASE Goto(w, "name") /\ userOf' \in {userOf, [userOf EXCEPT ![m] = 0]}
  <2>1. PICK j : j = [job[w] EXCEPT !.pc = "name"]
    OBVIOUS
  <2>2. Replace(w, j) /\ userOf' \in {userOf, [userOf EXCEPT ![m] = 0]}
    BY <1>4, <2>1 DEF Goto
  <2>3. /\ j \in JobRecord /\ j.pc = "name" /\ j.nick = job[w].nick
        /\ j.ev = job[w].ev /\ j.post = job[w].post
    BY <2>1, WorkerFacts DEF JobRecord
  <2>4. Able(w, j)
    BY <1>1, <2>3, WorkerFacts DEF Able, JobOK, GoesOn, Early, WithUser
  <2>5. userOf \in [Sender -> 0..Len(users)] /\ 0 \in 0..Len(users)
    BY WorkerFacts, Elements DEF TypeOK
  <2>6. userOf' \in [Sender -> 0..Len(users)] /\ \A n \in Sender : userOf'[n] # 0 => userOf'[n] = userOf[n]
    BY <1>1, <2>2, <2>5
  <2>7. MappingsOK'
    BY <1>1, <2>6, WorkerFacts DEF MappingsOK
  <2>. QED  BY <1>1, <1>2, <2>2, <2>4, <2>6, <2>7, QuietStep
<1>. QED  BY <1>3, <1>4 DEF LookUp, About

\* A step that changes the users.
LEMMA UsersStep ==
    ASSUME IInv, NEW w \in Worker, NEW j, Replace(w, j), GoesOn(w, j),
           j \in JobRecord, j.ev \in {0} \cup Events, JobOK(j)', Grows,
           UNCHANGED <<room, inbox, posts, runs, raced, members, reactions, userOf, postOf, reactionOf>>,
           faults' \in Nat, users' \in Seq(UserRecord),
           matrixOf' \in [DOMAIN users' -> Sender \cup {NoSender}], MappingsOK'
    PROVE  IInv'
<1>1. TypeOK /\ RoomOK /\ PostsOK /\ StoredOK /\ ReactionsOK /\ JobsOK /\ Counted
  BY WorkerFacts
<1>2. Events' = Events /\ UserRecord' = UserRecord
  BY DEF Events, UserRecord
<1>3. /\ Len(users) \in Nat /\ Len(users') \in Nat /\ DOMAIN users' = 1..Len(users')
      /\ DOMAIN users = 1..Len(users) /\ Len(users) <= Len(users')
  <2>1. /\ Len(users) \in Nat /\ Len(users') \in Nat /\ DOMAIN users' = 1..Len(users')
        /\ DOMAIN users = 1..Len(users)
    BY <1>1, Elements
  <2>2. 1..Len(users) \subseteq 1..Len(users')
    BY <2>1 DEF Grows
  <2>. QED  BY <2>1, <2>2
<1>4. 0..Len(users) \subseteq 0..Len(users')
  BY <1>3
<1>5. job' \in [Worker -> JobRecord] /\ \A v \in Worker : job'[v].ev \in {0} \cup Events
  BY <1>1 DEF TypeOK, Replace
<1>6. posts' \in Seq(PostRecord')
  <2>1. PostRecord \subseteq PostRecord'
    BY <1>2, <1>4 DEF PostRecord
  <2>2. Len(posts) \in Nat /\ DOMAIN posts = 1..Len(posts) /\ posts \in Seq(PostRecord)
        /\ \A p \in 1..Len(posts) : posts[p] \in PostRecord'
    BY <1>1, <2>1, Elements DEF TypeOK
  <2>. QED  BY <2>2
<1>7. userOf' \in [Sender -> 0..Len(users')]
  BY <1>1, <1>4 DEF TypeOK
<1>8. /\ reactions' \subseteq (DOMAIN posts') \X (DOMAIN users')
      /\ members' \subseteq DOMAIN users'
      /\ reactionOf' \in [Events -> ((DOMAIN posts') \X (DOMAIN users')) \cup {NoReaction}]
      /\ postOf' \in [Events -> 0..Len(posts')]
  BY <1>1 DEF TypeOK, Grows
<1>9. TypeOK'
  BY <1>1, <1>2, <1>5, <1>6, <1>7, <1>8 DEF TypeOK
<1>10. JobsOK'
  BY <1>1, StepJobs
<1>11. Counted'
  BY <1>1, CountsKept
<1>12. RoomOK'
  BY <1>1, <1>2 DEF RoomOK
<1>13. PostsOK'
  <2>1. \A p \in DOMAIN posts \ {1} : PostOK(p)'
    BY <1>1, PostKept DEF PostsOK
  <2>. QED  BY <1>1, <2>1 DEF PostsOK
<1>14. StoredOK' /\ ReactionsOK'
  BY <1>1, StoredKept, ReactionsKept
<1>. QED  BY <1>9, <1>10, <1>11, <1>12, <1>13, <1>14 DEF IInv, World

LEMMA RenameStep ==
    ASSUME IInv, NEW w \in Worker, Rename(w)
    PROVE  IInv'
<1>. DEFINE u == job[w].who
<1>1. /\ job[w].pc \in {"rename", "profile"} /\ job[w].ev \in Events /\ u \in DOMAIN users
      /\ UNCHANGED <<room, inbox, posts, runs, raced, members, reactions, userOf, matrixOf, postOf, reactionOf>>
      /\ faults' \in Nat
  BY WorkerFacts, FaultNat DEF Rename, JobOK, WithUser, Speaks, kvstore
<1>2. PICK n : /\ n \in {0} \cup Events
               /\ users' = [users EXCEPT ![u].nick = n]
  <2>1. users[u] \in UserRecord /\ job[w].nick \in {0} \cup Events
    BY <1>1, WorkerFacts, Elements DEF JobOK
  <2>2. users[u].nick \in {0} \cup Events
    BY <2>1 DEF UserRecord
  <2>3. users = [users EXCEPT ![u].nick = users[u].nick]
    <3>1. users \in Seq(UserRecord)
      BY WorkerFacts DEF TypeOK
    <3>2. [users[u] EXCEPT !.nick = users[u].nick] = users[u]
      BY <2>1 DEF UserRecord
    <3>. HIDE DEF u
    <3>. QED  BY <3>1, <3>2
  <2>. QED  BY <2>1, <2>2, <2>3 DEF Rename
<1>3. /\ DOMAIN users' = DOMAIN users /\ users' \in Seq(UserRecord)
      /\ \A v \in DOMAIN users : users'[v].of = users[v].of
  <2>1. users \in Seq(UserRecord) /\ DOMAIN users = 1..Len(users) /\ Len(users) \in Nat
        /\ \A v \in DOMAIN users : users[v] \in UserRecord
    BY WorkerFacts, Elements DEF TypeOK
  <2>2. [users[u] EXCEPT !.nick = n] \in UserRecord /\ [users[u] EXCEPT !.nick = n].of = users[u].of
    BY <1>1, <1>2, <2>1 DEF UserRecord
  <2>. HIDE DEF u
  <2>. QED  BY <1>1, <1>2, <2>1, <2>2
<1>4. Grows
  BY <1>1, <1>3 DEF Grows, Events
<1>5. MappingsOK' /\ matrixOf' \in [DOMAIN users' -> Sender \cup {NoSender}]
  BY <1>1, <1>3, <1>4, WorkerFacts, MappingsKept DEF TypeOK
<1>6. CASE job[w].pc = "profile"
  <2>1. PICK j : j = Idle
    OBVIOUS
  <2>2. Replace(w, j)
    BY <1>6, <2>1 DEF Rename, Finish
  <2>3. Able(w, j) /\ JobOK(j)'
    BY <1>4, <2>1, IdleIsAble, WorkerFacts, JobKept
  <2>. QED  BY <1>1, <1>3, <1>4, <1>5, <2>2, <2>3, UsersStep DEF Able
<1>7. CASE job[w].pc = "rename"
  <2>1. PICK j : j = [job[w] EXCEPT !.nick = 0, !.pc = Use(room[job[w].ev].kind)]
    OBVIOUS
  <2>2. Replace(w, j)
    BY <1>7, <2>1 DEF Rename, Proceed, About
  <2>3. Able(w, j)
    BY <1>7, <2>1, ProceedIsAble
  <2>4. JobOK(j)'
    BY <1>4, <2>3, WorkerFacts, JobKept DEF Able
  <2>. QED  BY <1>1, <1>3, <1>4, <1>5, <2>2, <2>3, <2>4, UsersStep DEF Able
<1>. QED  BY <1>1, <1>6, <1>7

LEMMA CreateStep ==
    ASSUME IInv, NEW w \in Worker, Create(w)
    PROVE  IInv'
<1>1. PICK m, j1 : m = room[job[w].ev].sender /\ j1 = job[w]
  OBVIOUS
<1>2. /\ j1.pc = "create" /\ j1.ev \in Events /\ j1 \in JobRecord /\ JobOK(j1)
      /\ m \in Sender /\ m # Ghost
      /\ UNCHANGED <<room, inbox, posts, runs, raced, members, reactions, userOf, postOf, reactionOf, faults>>
  BY <1>1, WorkerFacts, Elements DEF Create, JobOK
<1>3. CASE Taken(m, j1.name)
  <2>1. Finish(w) /\ UNCHANGED unchangedByReads /\ faults' \in Nat
    BY <1>1, <1>2, <1>3, WorkerFacts DEF Create, About, unchangedByReads, mattermost, kvstore
  <2>. QED  BY <2>1, FinishMoves
<1>4. CASE ~Taken(m, j1.name)
  <2>1. PICK u : u = [of |-> m, name |-> j1.name, nick |-> j1.nick, live |-> TRUE]
    OBVIOUS
  <2>2. PICK n : n = Len(users) + 1
    OBVIOUS
  <2>3. PICK j : j = [j1 EXCEPT !.who = n, !.pc = "map"]
    OBVIOUS
  <2>4. users' = Append(users, u) /\ matrixOf' = Append(matrixOf, NoSender) /\ Replace(w, j)
    BY <1>1, <1>4, <2>1, <2>2, <2>3 DEF Create, About
  <2>5. u \in UserRecord /\ u.of = m
    BY <1>2, <2>1 DEF UserRecord, JobRecord, JobOK
  <2>6. /\ users \in Seq(UserRecord) /\ Len(users) \in Nat /\ DOMAIN users = 1..Len(users)
        /\ matrixOf \in [1..Len(users) -> Sender \cup {NoSender}]
    BY WorkerFacts, Elements DEF TypeOK
  <2>7. /\ users' \in Seq(UserRecord) /\ DOMAIN users' = 1..n /\ n \in Nat /\ users'[n] = u
        /\ DOMAIN users' = DOMAIN users \cup {n} /\ n \notin DOMAIN users /\ n # 0
        /\ \A v \in DOMAIN users : users'[v] = users[v]
    BY <2>2, <2>4, <2>5, <2>6
  <2>8. /\ matrixOf' \in [1..n -> Sender \cup {NoSender}] /\ matrixOf'[n] = NoSender
        /\ \A v \in DOMAIN users : matrixOf'[v] = matrixOf[v]
    <3>1. NoSender \in Sender \cup {NoSender}
      OBVIOUS
    <3>2. Append(matrixOf, NoSender) \in [1..(Len(users) + 1) -> Sender \cup {NoSender}]
      BY <2>6, <3>1, Appended, Zenon
    <3>3. Append(matrixOf, NoSender)[Len(users) + 1] = NoSender
      BY <2>6, <3>1, Appended
    <3>4. \A v \in 1..Len(users) : Append(matrixOf, NoSender)[v] = matrixOf[v]
      BY <2>6, <3>1, Appended
    <3>. QED  BY <2>2, <2>4, <2>6, <3>2, <3>3, <3>4, Zenon
  <2>9. Grows
    BY <1>2, <2>7 DEF Grows, Events
  <2>10. MappingsOK'
    <3>1. \A v \in DOMAIN users' : matrixOf'[v] \in {users'[v].of, NoSender}
      BY <2>7, <2>8, WorkerFacts DEF MappingsOK
    <3>2. \A k \in Sender : userOf[k] # 0 => userOf[k] \in DOMAIN users
      BY WorkerFacts, Elements DEF TypeOK
    <3>3. \A k \in Sender : userOf'[k] # 0 => users'[userOf'[k]].of = k
      BY <1>2, <2>7, <3>2, WorkerFacts DEF MappingsOK
    <3>. QED  BY <3>1, <3>3 DEF MappingsOK
  <2>11. /\ j \in JobRecord /\ j.pc = "map" /\ j.ev = j1.ev /\ j.who = n /\ j.nick = j1.nick
         /\ j.post = j1.post
    BY <1>2, <2>3, <2>7 DEF JobRecord
  <2>12. Speaks(n, j1.ev)'
    BY <1>1, <1>2, <2>5, <2>7 DEF Speaks
  <2>13. room[j1.ev].kind = "reaction" => ReactsTo(j1.ev, j1.post)'
    BY <1>2, <2>9, WorkerFacts, ReactsKept DEF JobOK
  <2>14. JobOK(j)'
    BY <1>1, <1>2, <2>11, <2>12, <2>13 DEF JobOK, WithUser, Events
  <2>15. GoesOn(w, j) /\ j.ev \in {0} \cup Events
    BY <1>1, <1>2, <2>11 DEF GoesOn, Early
  <2>16. matrixOf' \in [DOMAIN users' -> Sender \cup {NoSender}] /\ faults' \in Nat
    BY <1>2, <2>7, <2>8, WorkerFacts
  <2>. QED  BY <1>2, <2>4, <2>7, <2>9, <2>10, <2>11, <2>14, <2>15, <2>16, UsersStep
<1>. QED  BY <1>3, <1>4

LEMMA MapUserStep ==
    ASSUME IInv, NEW w \in Worker, MapUser(w)
    PROVE  IInv'
<1>. DEFINE m == room[job[w].ev].sender
            u == job[w].who
<1>1. /\ job[w].pc = "map" /\ job[w].ev \in Events /\ m \in Sender /\ m # Ghost
      /\ u \in DOMAIN users /\ users[u].of = m
      /\ UNCHANGED <<room, inbox, users, posts, runs, raced, members, reactions, postOf, reactionOf>>
      /\ faults' \in Nat
  <2>1. job[w].pc = "map" /\ job[w].ev \in Events /\ m # Ghost /\ Speaks(u, job[w].ev)
    BY WorkerFacts DEF MapUser, JobOK, WithUser
  <2>. QED  BY <2>1, WorkerFacts, FaultNat, Elements DEF MapUser, Speaks, mattermost
<1>2. /\ userOf' \in {userOf, [userOf EXCEPT ![m] = u]}
      /\ matrixOf' \in {matrixOf, [matrixOf EXCEPT ![u] = m]}
  BY DEF MapUser, About
<1>3. PICK j : j = [job[w] EXCEPT !.nick = 0, !.pc = Use(room[job[w].ev].kind)]
  OBVIOUS
<1>4. Replace(w, j) /\ Able(w, j)
  BY <1>1, <1>3, ProceedIsAble DEF MapUser, Proceed, About
<1>. HIDE DEF m, u
<1>5. /\ userOf \in [Sender -> 0..Len(users)] /\ u \in 0..Len(users)
      /\ matrixOf \in [DOMAIN users -> Sender \cup {NoSender}]
  BY <1>1, WorkerFacts, Elements DEF TypeOK
<1>6. userOf' \in [Sender -> 0..Len(users)] /\ matrixOf' \in [DOMAIN users -> Sender \cup {NoSender}]
  BY <1>1, <1>2, <1>5
<1>7. \A k \in Sender : userOf'[k] # 0 => users[userOf'[k]].of = k
  <2>1. \A k \in Sender : userOf'[k] = userOf[k] \/ (k = m /\ userOf'[k] = u)
    BY <1>2, <1>5
  <2>. QED  BY <1>1, <2>1, WorkerFacts DEF MappingsOK
<1>8. \A v \in DOMAIN users : matrixOf'[v] \in {users[v].of, NoSender}
  <2>1. \A v \in DOMAIN users : matrixOf'[v] = matrixOf[v] \/ (v = u /\ matrixOf'[v] = m)
    BY <1>2, <1>5
  <2>. QED  BY <1>1, <2>1, WorkerFacts DEF MappingsOK
<1>9. MappingsOK'
  BY <1>1, <1>7, <1>8 DEF MappingsOK
<1>10. /\ members' \subseteq DOMAIN users
       /\ reactions' \subseteq (DOMAIN posts) \X (DOMAIN users)
       /\ postOf' \in [Events -> 0..Len(posts)]
       /\ reactionOf' \in [Events -> ((DOMAIN posts) \X (DOMAIN users)) \cup {NoReaction}]
       /\ StoredOK' /\ ReactionsOK'
  BY <1>1, QuietFacts
<1>. QED  BY <1>1, <1>4, <1>6, <1>9, <1>10, QuietStep

-----------------------------------------------------------------------------
(* Posts *)

\* A step that changes the posts.
LEMMA PostsStep ==
    ASSUME IInv, NEW w \in Worker, NEW j, Replace(w, j),
           j \in JobRecord, j.ev \in {0} \cup Events, JobOK(j)', Grows,
           UNCHANGED <<room, inbox, users, runs, raced, members, reactions, kvstore>>, faults' \in Nat,
           posts' \in Seq(PostRecord),
           \A p \in DOMAIN posts' : posts'[p].root < p /\ (posts'[p].author = 0 <=> p = 1),
           PostsOK', Counted'
    PROVE  IInv'
<1>1. TypeOK /\ RoomOK /\ StoredOK /\ ReactionsOK /\ MappingsOK /\ JobsOK
  BY WorkerFacts
<1>2. /\ Events' = Events /\ UserRecord' = UserRecord /\ PostRecord' = PostRecord
      /\ UNCHANGED <<userOf, matrixOf, postOf, reactionOf>>
  BY DEF Events, UserRecord, PostRecord, kvstore
<1>3. /\ Len(posts) \in Nat /\ Len(posts') \in Nat /\ DOMAIN posts' = 1..Len(posts')
      /\ DOMAIN posts = 1..Len(posts) /\ Len(posts) <= Len(posts')
  <2>1. /\ Len(posts) \in Nat /\ Len(posts') \in Nat /\ DOMAIN posts' = 1..Len(posts')
        /\ DOMAIN posts = 1..Len(posts)
    BY <1>1, Elements
  <2>2. 1..Len(posts) \subseteq 1..Len(posts')
    BY <2>1 DEF Grows
  <2>. QED  BY <2>1, <2>2
<1>4. 0..Len(posts) \subseteq 0..Len(posts')
  BY <1>3
<1>5. job' \in [Worker -> JobRecord] /\ \A v \in Worker : job'[v].ev \in {0} \cup Events
  BY <1>1 DEF TypeOK, Replace
<1>6. postOf' \in [Events -> 0..Len(posts')]
  BY <1>1, <1>2, <1>4 DEF TypeOK
<1>7. (DOMAIN posts) \X (DOMAIN users) \subseteq (DOMAIN posts') \X (DOMAIN users')
  BY DEF Grows
<1>8. /\ reactions' \subseteq (DOMAIN posts') \X (DOMAIN users')
      /\ reactionOf' \in [Events -> ((DOMAIN posts') \X (DOMAIN users')) \cup {NoReaction}]
  BY <1>1, <1>2, <1>7 DEF TypeOK
<1>9. TypeOK'
  BY <1>1, <1>2, <1>5, <1>6, <1>8 DEF TypeOK
<1>10. JobsOK'
  BY <1>1, StepJobs
<1>11. RoomOK'
  BY <1>1, <1>2 DEF RoomOK
<1>12. StoredOK' /\ ReactionsOK' /\ MappingsOK'
  BY <1>1, <1>2, StoredKept, ReactionsKept, MappingsKept
<1>. QED  BY <1>9, <1>10, <1>11, <1>12 DEF IInv, World

\* A job that finds the thread for its post makes a post that comes from its
\* event and is its sender's; from then on it makes no other.
LEMMA PostUnderStep ==
    ASSUME IInv, NEW w \in Worker, NEW root, job[w].pc = "post", PostUnder(w, root),
           root # 0 => root \in DOMAIN posts /\ posts[root].event \in Chain(job[w].ev) \ {job[w].ev},
           UNCHANGED <<room, inbox, users, reactions, members, kvstore, runs, raced>>, faults' \in Nat
    PROVE  IInv'
<1>1. PICK e, u, j1 : e = job[w].ev /\ u = job[w].who /\ j1 = job[w]
  OBVIOUS
<1>2. /\ e \in Events /\ IsPost(e) /\ Speaks(u, e) /\ room[e].sender # Ghost
      /\ j1 \in JobRecord /\ j1.ev = e /\ j1.who = u /\ JobOK(j1) /\ u \in DOMAIN users
  BY <1>1, WorkerFacts DEF JobOK, WithUser, Speaks
<1>3. CASE ~AcceptsRoot(root) \/ ~users[job[w].who].live
  <2>1. Finish(w) /\ UNCHANGED unchangedByReads /\ faults' \in Nat
    BY <1>3, WorkerFacts DEF PostUnder, unchangedByReads, mattermost
  <2>. QED  BY <2>1, FinishMoves
<1>4. CASE AcceptsRoot(root) /\ users[job[w].who].live
  <2>1. PICK post : post = [event |-> e, author |-> u, root |-> root, text |-> e, live |-> TRUE]
    OBVIOUS
  <2>2. PICK n : n = Len(posts) + 1
    OBVIOUS
  <2>3. PICK j : j = [j1 EXCEPT !.post = n, !.pc = "mapPost"]
    OBVIOUS
  <2>4. posts' = Append(posts, post) /\ Replace(w, j)
    BY <1>1, <1>4, <2>1, <2>2, <2>3 DEF PostUnder
  <2>5. /\ posts \in Seq(PostRecord) /\ Len(posts) \in Nat /\ DOMAIN posts = 1..Len(posts)
        /\ posts # <<>> /\ Len(posts) # 0
        /\ Len(users) \in Nat /\ DOMAIN users = 1..Len(users)
        /\ \A p \in DOMAIN posts : posts[p].root < p /\ (posts[p].author = 0 <=> p = 1)
    BY WorkerFacts, Elements DEF TypeOK, PostsOK
  <2>6. /\ post \in PostRecord /\ post.event = e /\ post.author = u /\ post.root = root /\ post.text = e
        /\ root \in Nat /\ root < n /\ u # 0
    BY <1>2, <2>1, <2>2, <2>5 DEF PostRecord
  <2>7. /\ posts' \in Seq(PostRecord) /\ n \in Nat /\ n # 1 /\ n # 0 /\ posts'[n] = post
        /\ DOMAIN posts' = DOMAIN posts \cup {n} /\ n \notin DOMAIN posts /\ 1 \in DOMAIN posts
        /\ \A p \in DOMAIN posts : posts'[p] = posts[p]
    BY <2>2, <2>4, <2>5, <2>6
  <2>8. Grows
    BY <2>7 DEF Grows, Events
  <2>9. \A p \in DOMAIN posts' : posts'[p].root < p /\ (posts'[p].author = 0 <=> p = 1)
    BY <2>5, <2>6, <2>7
  <2>10. PostOK(n)'
    <3>1. ASSUME root # 0  PROVE Threaded(root, e)'
      <4>1. root \in DOMAIN posts /\ posts[root].root = 0 /\ posts[root].event \in Chain(e) \ {e}
        BY <1>1, <1>4, <3>1 DEF AcceptsRoot
      <4>. QED  BY <1>2, <2>7, <2>8, <4>1, WorkerFacts, ChainKept DEF Threaded
    <3>2. IsPost(e)' /\ Speaks(u, e)'
      BY <1>2, <2>8, SpeaksKept DEF IsPost
    <3>3. /\ posts'[n].event = e /\ posts'[n].author = u /\ posts'[n].root = root
          /\ posts'[n].text = e
      BY <2>6, <2>7
    <3>. QED  BY <3>1, <3>2, <3>3 DEF PostOK
  <2>11. PostsOK'
    <3>1. \A p \in DOMAIN posts \ {1} : PostOK(p)'
      BY <2>7, <2>8, WorkerFacts, PostKept
    <3>2. \A p \in DOMAIN posts' \ {1} : PostOK(p)'
      BY <2>7, <2>10, <3>1
    <3>3. posts' # <<>> /\ posts'[1].event = 1 /\ posts'[1].root = 0
      <4>1. posts' # <<>>
        BY <2>4, <2>5, <2>6
      <4>2. posts[1].event = 1 /\ posts[1].root = 0
        BY WorkerFacts DEF PostsOK
      <4>. QED  BY <2>7, <4>1, <4>2
    <3>. QED  BY <3>2, <3>3 DEF PostsOK
  <2>12. /\ j \in JobRecord /\ j.pc = "mapPost" /\ j.ev = e /\ j.who = u /\ j.nick = j1.nick
         /\ j.post = n
    BY <1>2, <2>3, <2>7 DEF JobRecord
  <2>13. JobOK(j)'
    <3>1. /\ Speaks(u, e)' /\ IsPost(e)' /\ room'[e] = room[e] /\ room[e].kind # "reaction"
      BY <1>2, <2>8, SpeaksKept DEF IsPost
    <3>2. n \in DOMAIN posts' /\ posts'[n].event = e
      BY <2>6, <2>7
    <3>3. j.nick \in {0} \cup Events
      BY <1>2, <2>12 DEF JobOK
    <3>. QED  BY <1>2, <2>12, <3>1, <3>2, <3>3 DEF JobOK, Events
  <2>14. Counted'
    <3>1. ASSUME NEW f \in Events \ {1}
          PROVE  Cardinality(PostsOf(f)') + Cardinality(Queued(f)') + Cardinality(Doing(f)') <= runs[f]
      <4>1. Queued(f)' = Queued(f) /\ runs[f] \in Nat
        BY WorkerFacts DEF Queued, TypeOK
      <4>2. Cardinality(PostsOf(f)) + Cardinality(Queued(f)) + Cardinality(Doing(f)) <= runs[f]
        BY WorkerFacts DEF Counted
      <4>3. CASE f = e
        <5>1. PostsOf(f)' = PostsOf(f) \cup {n} /\ n \notin PostsOf(f)
          BY <2>6, <2>7, <4>3 DEF PostsOf
        <5>2. Cardinality(PostsOf(f)') = Cardinality(PostsOf(f)) + 1
          BY <5>1, WorkerFacts, CountFacts, FS_AddElement
        <5>3. w \in Doing(f) /\ Doing(f)' \in SUBSET (Doing(f) \ {w})
          BY <1>1, <2>4, <2>12, <4>3, WorkerFacts DEF Doing, Early, Replace, TypeOK
        <5>4. /\ IsFiniteSet(Doing(f) \ {w})
              /\ Cardinality(Doing(f) \ {w}) = Cardinality(Doing(f)) - 1
          BY <5>3, WorkerFacts, CountFacts, FS_RemoveElement
        <5>5. /\ Cardinality(Doing(f)') \in Nat
              /\ Cardinality(Doing(f)') <= Cardinality(Doing(f)) - 1
          BY <5>3, <5>4, FS_Subset, FS_CardinalityType
        <5>. QED  BY <4>1, <4>2, <5>2, <5>5, WorkerFacts, CountFacts
      <4>4. CASE f # e
        <5>1. PostsOf(f)' = PostsOf(f)
          BY <2>6, <2>7, <4>4 DEF PostsOf
        <5>2. GoesOn(w, j)
          BY <2>12 DEF GoesOn, Early
        <5>3. Cardinality(Doing(f)') <= Cardinality(Doing(f)) /\ Cardinality(Doing(f)') \in Nat
          BY <2>4, <5>2, WorkerFacts, DoingKept, CountFacts, FS_Subset, FS_CardinalityType
        <5>. QED  BY <4>1, <4>2, <5>1, <5>3, WorkerFacts, CountFacts
      <4>. QED  BY <4>3, <4>4
    <3>. QED  BY <3>1 DEF Counted, Events
  <2>15. j.ev \in {0} \cup Events
    BY <1>2, <2>12
  <2>. QED  BY <2>4, <2>7, <2>8, <2>9, <2>11, <2>12, <2>13, <2>14, <2>15, PostsStep
<1>. QED  BY <1>3, <1>4

LEMMA CreatePostStep ==
    ASSUME IInv, NEW w \in Worker, CreatePost(w)
    PROVE  IInv'
<1>1. PICK e, t, p : e = job[w].ev /\ t = room[e].target /\ p = (IF t = 0 THEN 0 ELSE FindRelated(t))
  OBVIOUS
<1>2. /\ job[w].pc = "post" /\ e \in Events /\ (PostUnder(w, ThreadRoot(p)) \/ PostUnder(w, 0))
      /\ UNCHANGED <<room, inbox, users, reactions, members, kvstore, runs, raced>> /\ faults' \in Nat
  BY <1>1, WorkerFacts, FaultNat DEF CreatePost, About, JobOK
<1>3. ASSUME ThreadRoot(p) # 0
      PROVE  /\ ThreadRoot(p) \in DOMAIN posts
             /\ posts[ThreadRoot(p)].event \in Chain(e) \ {e}
  <2>1. p # 0 /\ t # 0
    BY <1>1, <1>3 DEF ThreadRoot
  <2>2. t \in Events /\ t < e /\ e \in Nat /\ t \in Nat
    BY <1>1, <1>2, <2>1, WorkerFacts, Elements
  <2>3. p \in DOMAIN posts /\ posts[p].event = Main(t) /\ Main(t) \in Chain(t)
    BY <1>1, <2>1, <2>2, WorkerFacts, FindFacts
  <2>4. t \in Chain(e)
    BY <1>1, <1>2, <2>1, WorkerFacts, ChainFacts
  <2>5. \A x \in Chain(t) : x \in Chain(e) /\ x # e
    BY <1>2, <2>2, <2>4, WorkerFacts, ChainFacts
  <2>6. CASE ThreadRoot(p) = p
    BY <2>3, <2>5, <2>6
  <2>7. CASE ThreadRoot(p) # p
    <3>1. ThreadRoot(p) = posts[p].root /\ posts[p].root # 0
      BY <2>7 DEF ThreadRoot
    <3>2. p # 1
      BY <3>1, WorkerFacts DEF PostsOK
    <3>3. Threaded(posts[p].root, posts[p].event)
      BY <2>3, <3>1, <3>2, WorkerFacts DEF PostsOK, PostOK
    <3>4. posts[p].root \in DOMAIN posts
      <4>1. posts[p].root \in Nat /\ posts[p].root < p /\ p \in 1..Len(posts) /\ Len(posts) \in Nat
        BY <2>3, WorkerFacts, Elements DEF TypeOK, PostRecord
      <4>. QED  BY <3>1, <4>1, WorkerFacts, Elements
    <3>5. Main(t) \in Events
      BY <2>3, WorkerFacts, Elements
    <3>6. posts[posts[p].root].event \in Chain(t)
      BY <2>2, <2>3, <3>3, <3>5, WorkerFacts, ChainFacts DEF Threaded
    <3>. QED  BY <2>5, <3>1, <3>4, <3>6
  <2>. QED  BY <2>6, <2>7
<1>. QED  BY <1>1, <1>2, <1>3, PostUnderStep

LEMMA CreateFilePostStep ==
    ASSUME IInv, NEW w \in Worker, CreateFilePost(w)
    PROVE  IInv'
<1>1. PICK e, t, p : e = job[w].ev /\ t = room[e].target /\ p = (IF t = 0 THEN 0 ELSE FindPost(t))
  OBVIOUS
<1>2. /\ job[w].pc = "post" /\ e \in Events /\ (PostUnder(w, p) \/ PostUnder(w, 0))
      /\ UNCHANGED <<room, inbox, users, reactions, members, kvstore, runs, raced>> /\ faults' \in Nat
  BY <1>1, WorkerFacts, FaultNat DEF CreateFilePost, About, JobOK
<1>3. ASSUME p # 0
      PROVE  p \in DOMAIN posts /\ posts[p].event \in Chain(e) \ {e}
  <2>1. t # 0
    BY <1>1, <1>3
  <2>2. t \in Events /\ t < e /\ e \in Nat /\ t \in Nat
    BY <1>1, <1>2, <2>1, WorkerFacts, Elements
  <2>3. p \in DOMAIN posts /\ posts[p].event = t
    BY <1>1, <1>3, <2>1, <2>2, WorkerFacts, FindFacts
  <2>4. t \in Chain(e)
    BY <1>1, <1>2, <2>1, WorkerFacts, ChainFacts
  <2>. QED  BY <2>2, <2>3, <2>4
<1>. QED  BY <1>1, <1>2, <1>3, PostUnderStep

LEMMA MapPostStep ==
    ASSUME IInv, NEW w \in Worker, MapPost(w)
    PROVE  IInv'
<1>1. PICK e, p : e = job[w].ev /\ p = job[w].post
  OBVIOUS
<1>2. /\ e \in Events /\ room[e].sender # Ghost /\ p \in DOMAIN posts /\ posts[p].event = e
      /\ UNCHANGED <<room, inbox, users, posts, runs, raced, members, reactions, userOf, matrixOf, reactionOf>>
      /\ Finish(w) /\ faults' \in Nat
  BY <1>1, WorkerFacts, FaultNat DEF MapPost, JobOK, mattermost
<1>3. postOf' \in {postOf, [postOf EXCEPT ![e] = p]}
  BY <1>1 DEF MapPost
<1>4. postOf \in [Events -> 0..Len(posts)] /\ p \in 0..Len(posts)
  <2>1. p \in 0..Len(posts)
    BY <1>2, WorkerFacts, Elements
  <2>. QED  BY <2>1, WorkerFacts DEF TypeOK
<1>5. postOf' \in [Events -> 0..Len(posts)]
  BY <1>2, <1>3, <1>4
<1>6. \A f \in Events : postOf'[f] = postOf[f] \/ (f = e /\ postOf'[f] = p)
  BY <1>3, <1>4
<1>7. StoredOK'
  BY <1>2, <1>6, WorkerFacts DEF StoredOK, Events
<1>8. PICK j : j = Idle
  OBVIOUS
<1>9. Replace(w, j) /\ Able(w, j)
  BY <1>2, <1>8, IdleIsAble DEF Finish
<1>10. /\ members' \subseteq DOMAIN users
       /\ reactions' \subseteq (DOMAIN posts) \X (DOMAIN users)
       /\ userOf' \in [Sender -> 0..Len(users)]
       /\ matrixOf' \in [DOMAIN users -> Sender \cup {NoSender}]
       /\ reactionOf' \in [Events -> ((DOMAIN posts) \X (DOMAIN users)) \cup {NoReaction}]
       /\ MappingsOK' /\ ReactionsOK'
  BY <1>2, QuietFacts
<1>. QED  BY <1>2, <1>5, <1>7, <1>9, <1>10, QuietStep

\* Nothing but the text of a post and whether it is there ever changes.
LEMMA ChangePosts ==
    ASSUME IInv, NEW w \in Worker, Finish(w), NEW q,
           UNCHANGED <<room, inbox, users, runs, raced, faults, members, reactions, kvstore>>,
           q \in [DOMAIN posts -> PostRecord], posts' = q,
           \A p \in DOMAIN posts : /\ q[p].event = posts[p].event /\ q[p].author = posts[p].author
                                   /\ q[p].root = posts[p].root
                                   /\ q[p].text = posts[p].text \/ room[q[p].text].target = posts[p].event
    PROVE  IInv'
<1>1. TypeOK /\ RoomOK /\ PostsOK /\ Counted
  BY WorkerFacts
<1>2. /\ DOMAIN posts = 1..Len(posts) /\ Len(posts) \in Nat /\ posts # <<>> /\ Len(posts) # 0
      /\ 1 \in DOMAIN posts
  BY <1>1, Elements DEF TypeOK, PostsOK
<1>3. posts' \in Seq(PostRecord) /\ DOMAIN posts' = DOMAIN posts /\ posts' # <<>>
  <2>1. q \in Seq(PostRecord) /\ DOMAIN q = DOMAIN posts
    BY <1>2
  <2>2. Len(q) # 0
    BY <2>1, <1>2
  <2>. QED  BY <2>1, <2>2
<1>4. Grows
  BY <1>3 DEF Grows, Events
<1>5. \A p \in DOMAIN posts' : posts'[p].root < p /\ (posts'[p].author = 0 <=> p = 1)
  BY <1>1, <1>3 DEF TypeOK
<1>6. \A p \in DOMAIN posts \ {1} : PostOK(p)'
  BY <1>1, <1>4, PostKept
<1>7. PostsOK'
  BY <1>1, <1>2, <1>3, <1>6 DEF PostsOK
<1>8. PICK j : j = Idle
  OBVIOUS
<1>9. Replace(w, j) /\ Able(w, j) /\ JobOK(j)'
  BY <1>1, <1>4, <1>8, IdleIsAble, JobKept DEF Finish
<1>10. Counted'
  BY <1>1, <1>3, <1>9, CountsKept DEF Able
<1>11. faults' \in Nat
  BY <1>1 DEF TypeOK
<1>. QED  BY <1>3, <1>4, <1>5, <1>7, <1>9, <1>10, <1>11, PostsStep DEF Able

LEMMA UpdateStep ==
    ASSUME IInv, NEW w \in Worker, Update(w)
    PROVE  IInv'
<1>1. PICK e, x : e = job[w].ev /\ x = job[w].post
  OBVIOUS
<1>2. /\ e \in Events /\ x \in DOMAIN posts /\ posts[x].event = room[e].target /\ Finish(w)
      /\ UNCHANGED <<room, inbox, users, runs, raced, faults, members, reactions, kvstore>>
  BY <1>1, WorkerFacts DEF Update, JobOK
<1>3. PICK q : q = IF posts[x].live THEN [posts EXCEPT ![x].text = e] ELSE posts
  OBVIOUS
<1>4. posts' = q
  BY <1>1, <1>3 DEF Update
<1>5. posts \in [DOMAIN posts -> PostRecord] /\ \A p \in DOMAIN posts : posts[p] \in PostRecord
  BY WorkerFacts, Elements DEF TypeOK
<1>6. PICK b : b = [posts[x] EXCEPT !.text = e]
  OBVIOUS
<1>7. /\ b \in PostRecord /\ b.event = posts[x].event /\ b.author = posts[x].author
      /\ b.root = posts[x].root /\ b.text = e
  BY <1>2, <1>5, <1>6 DEF PostRecord
<1>8. q \in [DOMAIN posts -> PostRecord] /\ \A p \in DOMAIN posts : q[p] = posts[p] \/ (p = x /\ q[p] = b)
  BY <1>2, <1>3, <1>5, <1>6, <1>7
<1>9. \A p \in DOMAIN posts : /\ q[p].event = posts[p].event /\ q[p].author = posts[p].author
                              /\ q[p].root = posts[p].root
                              /\ q[p].text = posts[p].text \/ room[q[p].text].target = posts[p].event
  BY <1>2, <1>7, <1>8
<1>. QED  BY <1>2, <1>4, <1>8, <1>9, ChangePosts

LEMMA DeleteStep ==
    ASSUME IInv, NEW w \in Worker, Delete(w)
    PROVE  IInv'
<1>1. PICK x : x = job[w].post
  OBVIOUS
<1>2. /\ Finish(w)
      /\ UNCHANGED <<room, inbox, users, runs, raced, faults, members, reactions, kvstore>>
  BY DEF Delete
<1>3. PICK q : q = [p \in DOMAIN posts |->
                     IF p = x \/ posts[p].root = x THEN [posts[p] EXCEPT !.live = FALSE] ELSE posts[p]]
  OBVIOUS
<1>4. posts' = q
  BY <1>1, <1>3 DEF Delete
<1>5. \A p \in DOMAIN posts : posts[p] \in PostRecord
  BY WorkerFacts, Elements
<1>6. \A p \in DOMAIN posts : /\ q[p] \in PostRecord /\ q[p].event = posts[p].event
                              /\ q[p].author = posts[p].author /\ q[p].root = posts[p].root
                              /\ q[p].text = posts[p].text
  BY <1>3, <1>5 DEF PostRecord
<1>7. q \in [DOMAIN posts -> PostRecord]
  <2>1. q = [p \in DOMAIN posts |-> q[p]]
    BY <1>3
  <2>. QED  BY <1>6, <2>1
<1>. QED  BY <1>2, <1>4, <1>6, <1>7, ChangePosts

-----------------------------------------------------------------------------
(* Reactions and members *)

\* What stays as it is when reactions or members change.
LEMMA BesidesPosts ==
    ASSUME IInv, UNCHANGED <<room, users, posts, userOf, matrixOf, postOf>>
    PROVE  /\ userOf' \in [Sender -> 0..Len(users)]
           /\ matrixOf' \in [DOMAIN users -> Sender \cup {NoSender}]
           /\ postOf' \in [Events -> 0..Len(posts)]
           /\ StoredOK' /\ MappingsOK'
BY QuietFacts

\* What a job's next place demands of it, where its event is that of before.
LEMMA GotoIsAble ==
    ASSUME IInv, NEW w \in Worker, NEW pc, NEW j, j = [job[w] EXCEPT !.pc = pc],
           \/ job[w].pc = "react" /\ pc = "mapReact"
           \/ job[w].pc = "unreact" /\ pc = "unmapReact"
           \/ job[w].pc = "member" /\ pc = "profile"
    PROVE  Able(w, j)
<1>1. /\ j \in JobRecord /\ j.pc = pc /\ j.ev = job[w].ev /\ j.who = job[w].who /\ j.post = job[w].post
      /\ j.nick = job[w].nick /\ j.reaction = job[w].reaction
  BY WorkerFacts DEF JobRecord
<1>. QED  BY <1>1, WorkerFacts DEF Able, JobOK, GoesOn, Early, WithUser

LEMMA AddReactionStep ==
    ASSUME IInv, NEW w \in Worker, AddReaction(w)
    PROVE  IInv'
<1>1. PICK e, u, p : e = job[w].ev /\ u = job[w].who /\ p = job[w].post
  OBVIOUS
<1>2. /\ job[w].pc = "react" /\ e \in Events /\ ReactsTo(e, p) /\ Speaks(u, e)
      /\ UNCHANGED <<room, inbox, users, posts, runs, raced, members, userOf, matrixOf, postOf, reactionOf>>
      /\ faults' \in Nat
  BY <1>1, WorkerFacts DEF AddReaction, JobOK, WithUser, kvstore
<1>3. PICK j : Replace(w, j) /\ (j = Idle \/ j = [job[w] EXCEPT !.pc = "mapReact"])
  BY DEF AddReaction, Goto, Finish
<1>4. Able(w, j)
  BY <1>2, <1>3, IdleIsAble, GotoIsAble
<1>5. reactions' \subseteq reactions \cup {<<p, u>>}
  BY <1>1 DEF AddReaction
<1>6. <<p, u>> \in (DOMAIN posts) \X (DOMAIN users)
  BY <1>2 DEF ReactsTo, Speaks
<1>7. reactions' \subseteq (DOMAIN posts) \X (DOMAIN users)
  BY <1>5, <1>6, WorkerFacts DEF TypeOK
<1>8. ReactionsOK'
  <2>1. ASSUME NEW r \in reactions'  PROVE \E f \in Events : ReactsTo(f, r[1]) /\ Speaks(r[2], f)
    <3>1. CASE r \in reactions
      BY <3>1, WorkerFacts DEF ReactionsOK
    <3>2. CASE r = <<p, u>>
      <4>1. r[1] = p /\ r[2] = u
        BY <3>2
      <4>. QED  BY <1>2, <4>1
    <3>. QED  BY <1>5, <2>1, <3>1, <3>2
  <2>. QED  BY <1>2, <2>1 DEF ReactionsOK, ReactsTo, Speaks, Main, Events
<1>9. /\ members' \subseteq DOMAIN users
      /\ reactionOf' \in [Events -> ((DOMAIN posts) \X (DOMAIN users)) \cup {NoReaction}]
  BY <1>2, WorkerFacts DEF TypeOK
<1>. QED  BY <1>2, <1>3, <1>4, <1>7, <1>8, <1>9, BesidesPosts, QuietStep

LEMMA RemoveReactionStep ==
    ASSUME IInv, NEW w \in Worker, RemoveReaction(w)
    PROVE  IInv'
<1>1. /\ job[w].pc = "unreact" /\ reactions' \subseteq reactions
      /\ UNCHANGED <<room, inbox, users, posts, runs, raced, members, userOf, matrixOf, postOf, reactionOf>>
      /\ faults' \in Nat
  BY WorkerFacts DEF RemoveReaction, kvstore
<1>2. PICK j : Replace(w, j) /\ (j = Idle \/ j = [job[w] EXCEPT !.pc = "unmapReact"])
  BY DEF RemoveReaction, Goto, Finish
<1>3. Able(w, j)
  BY <1>1, <1>2, IdleIsAble, GotoIsAble
<1>4. /\ members' \subseteq DOMAIN users
      /\ reactions' \subseteq (DOMAIN posts) \X (DOMAIN users)
      /\ reactionOf' \in [Events -> ((DOMAIN posts) \X (DOMAIN users)) \cup {NoReaction}]
  BY <1>1, WorkerFacts DEF TypeOK
<1>5. ReactionsOK'
  BY <1>1, WorkerFacts, QuietFacts, ReactionsKept
<1>. QED  BY <1>1, <1>2, <1>3, <1>4, <1>5, BesidesPosts, QuietStep

\* The KV store takes or loses the two ids of a reaction.
LEMMA MapReactionStep ==
    ASSUME IInv, NEW w \in Worker, MapReaction(w) \/ UnmapReaction(w)
    PROVE  IInv'
<1>1. /\ UNCHANGED <<room, inbox, users, posts, runs, raced, members, reactions, userOf, matrixOf, postOf>>
      /\ faults' \in Nat /\ Finish(w)
  BY WorkerFacts, FaultNat DEF MapReaction, UnmapReaction, mattermost
<1>2. PICK j : j = Idle
  OBVIOUS
<1>3. Replace(w, j) /\ Able(w, j)
  BY <1>1, <1>2, IdleIsAble DEF Finish
<1>4. PICK e, x : /\ x \in ((DOMAIN posts) \X (DOMAIN users)) \cup {NoReaction}
                  /\ reactionOf' \in {reactionOf, [reactionOf EXCEPT ![e] = x]}
  <2>1. CASE MapReaction(w)
    <3>1. job[w].post \in DOMAIN posts /\ job[w].who \in DOMAIN users
      BY <2>1, WorkerFacts DEF MapReaction, JobOK, WithUser, ReactsTo, Speaks
    <3>2. <<job[w].post, job[w].who>> \in (DOMAIN posts) \X (DOMAIN users)
      BY <3>1
    <3>3. reactionOf' \in {reactionOf, [reactionOf EXCEPT ![job[w].ev] = <<job[w].post, job[w].who>>]}
      BY <2>1 DEF MapReaction
    <3>. QED  BY <3>2, <3>3
  <2>2. CASE UnmapReaction(w)
    BY <2>2 DEF UnmapReaction
  <2>. QED  BY <2>1, <2>2
<1>5. reactionOf' \in [Events -> ((DOMAIN posts) \X (DOMAIN users)) \cup {NoReaction}]
  BY <1>4, WorkerFacts DEF TypeOK
<1>6. /\ members' \subseteq DOMAIN users
      /\ reactions' \subseteq (DOMAIN posts) \X (DOMAIN users)
      /\ ReactionsOK'
  BY <1>1, QuietFacts
<1>. QED  BY <1>1, <1>3, <1>5, <1>6, BesidesPosts, QuietStep

LEMMA MemberStep ==
    ASSUME IInv, NEW w \in Worker, Member(w)
    PROVE  IInv'
<1>1. /\ job[w].pc = "member" /\ job[w].who \in DOMAIN users
      /\ UNCHANGED <<room, inbox, users, posts, runs, raced, reactions, userOf, matrixOf, postOf, reactionOf>>
      /\ faults' \in Nat
  BY WorkerFacts, FaultNat DEF Member, JobOK, WithUser, Speaks, kvstore
<1>2. PICK j : Replace(w, j) /\ (j = Idle \/ j = [job[w] EXCEPT !.pc = "profile"])
  BY DEF Member, Goto, Finish
<1>3. Able(w, j)
  BY <1>1, <1>2, IdleIsAble, GotoIsAble
<1>4. members' \subseteq DOMAIN users
  <2>1. members' \subseteq members \cup {job[w].who}
    BY DEF Member
  <2>. QED  BY <1>1, <2>1, WorkerFacts DEF TypeOK
<1>5. /\ reactions' \subseteq (DOMAIN posts) \X (DOMAIN users)
      /\ reactionOf' \in [Events -> ((DOMAIN posts) \X (DOMAIN users)) \cup {NoReaction}]
      /\ ReactionsOK'
  BY <1>1, QuietFacts
<1>. QED  BY <1>1, <1>2, <1>3, <1>4, <1>5, BesidesPosts, QuietStep

LEMMA WorkStep ==
    ASSUME IInv, NEW w \in Worker, Work(w)
    PROVE  IInv'
BY FailStep, BeginMessageStep, BeginAboutStep, BeginRedactionStep, BeginMemberStep, LookUpStep, RenameStep,
   NameStep, CreateStep, MapUserStep, CreatePostStep, CreateFilePostStep, MapPostStep, UpdateStep, DeleteStep,
   AddReactionStep, RemoveReactionStep, MapReactionStep, MemberStep DEF Work

-----------------------------------------------------------------------------
(* What comes from outside *)

\* A step that leaves the channel and the KV store as they are.
LEMMA OutsideStep ==
    ASSUME IInv, UNCHANGED <<room, mattermost, kvstore>>,
           inbox' \in Seq(Events), faults' \in Nat, raced' \subseteq Events,
           runs' \in [Events -> Nat \ {0}],
           job' \in [Worker -> JobRecord], \A v \in Worker : job'[v].ev \in {0} \cup Events,
           JobsOK', Counted'
    PROVE  IInv'
<1>1. TypeOK /\ RoomOK /\ PostsOK /\ StoredOK /\ ReactionsOK /\ MappingsOK
  BY DEF IInv, World
<1>2. /\ UNCHANGED <<room, users, posts, reactions, members, userOf, matrixOf, postOf, reactionOf>>
      /\ Events' = Events /\ UserRecord' = UserRecord /\ PostRecord' = PostRecord
  BY DEF mattermost, kvstore, Events, UserRecord, PostRecord
<1>3. Grows
  BY <1>2 DEF Grows
<1>4. TypeOK'
  BY <1>1, <1>2 DEF TypeOK
<1>5. PostsOK'
  <2>1. \A p \in DOMAIN posts \ {1} : PostOK(p)'
    BY <1>1, <1>2, <1>3, PostKept
  <2>. QED  BY <1>1, <1>2, <2>1 DEF PostsOK
<1>6. RoomOK'
  BY <1>1, <1>2 DEF RoomOK
<1>7. StoredOK' /\ ReactionsOK' /\ MappingsOK'
  BY <1>1, <1>2, <1>3, StoredKept, ReactionsKept, MappingsKept
<1>. QED  BY <1>4, <1>5, <1>6, <1>7 DEF IInv, World

\* What the workers know stays right when they are left alone.
LEMMA JobsLeft ==
    ASSUME TypeOK, RoomOK, JobsOK, Grows, UNCHANGED job
    PROVE  JobsOK'
<1>1. ASSUME NEW v \in Worker  PROVE JobOK(job[v])'
  <2>1. PICK k : k = job[v]
    OBVIOUS
  <2>2. JobOK(k)'
    BY <2>1, JobKept DEF JobsOK
  <2>. QED  BY <2>1, <2>2 DEF JobOK, Speaks, ReactsTo, IsPost, Main, Events
<1>. QED  BY <1>1 DEF JobsOK

\* An event is handed over.
LEMMA QueuedMore ==
    ASSUME TypeOK, NEW e, e \in Nat, inbox' = Append(inbox, e), NEW f
    PROVE  /\ f # e => Queued(f)' = Queued(f)
           /\ f = e => /\ Cardinality(Queued(f)') = Cardinality(Queued(f)) + 1
                       /\ Queued(f)' = Queued(f) \cup {Len(inbox) + 1}
<1>1. PICK n : n = Len(inbox) + 1
  OBVIOUS
<1>2. inbox \in Seq(Nat) /\ Len(inbox) \in Nat /\ DOMAIN inbox = 1..Len(inbox)
  <2>1. inbox \in Seq(Events)
    BY DEF TypeOK
  <2>2. Events \subseteq Nat
    BY Elements
  <2>. QED  BY <2>1, <2>2, Elements
<1>3. /\ DOMAIN inbox' = DOMAIN inbox \cup {n} /\ n \notin DOMAIN inbox /\ inbox'[n] = e
      /\ \A i \in DOMAIN inbox : inbox'[i] = inbox[i]
  BY <1>1, <1>2
<1>4. f # e => Queued(f)' = Queued(f)
  BY <1>3 DEF Queued
<1>5. ASSUME f = e  PROVE Queued(f)' = Queued(f) \cup {n} /\ n \notin Queued(f)
  BY <1>3, <1>5 DEF Queued
<1>6. f = e => Cardinality(Queued(f)') = Cardinality(Queued(f)) + 1
  BY <1>5, CountFacts, FS_AddElement
<1>. QED  BY <1>1, <1>4, <1>5, <1>6

LEMMA RepeatStep ==
    ASSUME IInv, Repeat
    PROVE  IInv'
<1>1. TypeOK /\ RoomOK /\ JobsOK /\ Counted
  BY DEF IInv, World
<1>2. UNCHANGED <<room, job, mattermost, kvstore, faults>>
  BY DEF Repeat
<1>3. PICK e \in Events : /\ inbox' = Append(inbox, e)
                          /\ runs' = [runs EXCEPT ![e] = @ + 1]
                          /\ raced' = raced \cup {e}
  BY DEF Repeat
<1>4. inbox \in Seq(Events) /\ runs \in [Events -> Nat \ {0}] /\ raced \subseteq Events /\ e \in Nat
  <2>1. e \in Nat
    BY <1>1, Elements
  <2>. QED  BY <1>1, <2>1 DEF TypeOK
<1>5. /\ inbox' \in Seq(Events) /\ raced' \subseteq Events
      /\ runs' \in [Events -> Nat \ {0}] /\ runs'[e] = runs[e] + 1
      /\ \A f \in Events : f # e => runs'[f] = runs[f]
  BY <1>3, <1>4
<1>6. ASSUME NEW f \in Events \ {1}
      PROVE  Cardinality(PostsOf(f)') + Cardinality(Queued(f)') + Cardinality(Doing(f)') <= runs'[f]
  <2>1. PostsOf(f)' = PostsOf(f) /\ Doing(f)' = Doing(f)
    BY <1>2 DEF PostsOf, Doing, mattermost
  <2>2. Cardinality(PostsOf(f)) + Cardinality(Queued(f)) + Cardinality(Doing(f)) <= runs[f]
    BY <1>1 DEF Counted
  <2>3. runs[f] \in Nat
    BY <1>4
  <2>4. CASE f = e
    <3>1. Cardinality(Queued(f)') = Cardinality(Queued(f)) + 1
      BY <1>1, <1>3, <1>4, <2>4, QueuedMore
    <3>2. runs'[f] = runs[f] + 1
      BY <1>5, <2>4
    <3>. QED  BY <1>1, <2>1, <2>2, <2>3, <3>1, <3>2, CountFacts
  <2>5. CASE f # e
    <3>1. Queued(f)' = Queued(f) /\ runs'[f] = runs[f]
      BY <1>1, <1>3, <1>4, <1>5, <2>5, QueuedMore
    <3>. QED  BY <2>1, <2>2, <3>1
  <2>. QED  BY <2>4, <2>5
<1>7. Counted'
  BY <1>2, <1>6 DEF Counted, Events
<1>8. JobsOK'
  <2>1. Grows
    BY <1>2 DEF Grows, Events, mattermost
  <2>. QED  BY <1>1, <1>2, <2>1, JobsLeft
<1>9. /\ faults' \in Nat /\ job' \in [Worker -> JobRecord]
      /\ \A v \in Worker : job'[v].ev \in {0} \cup Events
  BY <1>1, <1>2 DEF TypeOK
<1>. QED  BY <1>2, <1>5, <1>7, <1>8, <1>9, OutsideStep

LEMMA CrashStep ==
    ASSUME IInv, Crash
    PROVE  IInv'
<1>1. TypeOK /\ Counted
  BY DEF IInv
<1>2. /\ UNCHANGED <<room, mattermost, kvstore, runs, raced>> /\ faults' \in Nat
      /\ job' = [w \in Worker |-> Idle] /\ inbox' = <<>>
  BY <1>1 DEF Crash, Fault, TypeOK
<1>3. Idle \in JobRecord /\ Idle.ev = 0 /\ Idle.pc = "idle" /\ Idle.nick = 0
  BY DEF Idle, JobRecord, NoReaction
<1>4. job' \in [Worker -> JobRecord] /\ \A v \in Worker : job'[v] = Idle
  BY <1>2, <1>3
<1>5. JobsOK'
  BY <1>3, <1>4 DEF JobsOK, JobOK, WithUser
<1>6. ASSUME NEW f \in Events \ {1}
      PROVE  Cardinality(PostsOf(f)') + Cardinality(Queued(f)') + Cardinality(Doing(f)') <= runs'[f]
  <2>1. PostsOf(f)' = PostsOf(f) /\ runs' = runs
    BY <1>2 DEF PostsOf, mattermost
  <2>2. Queued(f)' = {} /\ Doing(f)' = {}
    BY <1>2, <1>3, <1>4 DEF Queued, Doing, Early
  <2>3. Cardinality(PostsOf(f)) + Cardinality(Queued(f)) + Cardinality(Doing(f)) <= runs[f]
    BY <1>1 DEF Counted
  <2>4. Cardinality({}) = 0 /\ runs[f] \in Nat
    BY <1>1, FS_EmptySet DEF TypeOK
  <2>5. Cardinality(PostsOf(f)) <= runs[f]
    BY <1>1, <2>3, <2>4, CountFacts
  <2>. QED  BY <1>1, <2>1, <2>2, <2>4, <2>5, CountFacts
<1>7. Counted'
  BY <1>2, <1>6 DEF Counted, Events
<1>8. /\ inbox' \in Seq(Events) /\ raced' \subseteq Events /\ runs' \in [Events -> Nat \ {0}]
      /\ \A v \in Worker : job'[v].ev \in {0} \cup Events
  BY <1>1, <1>2, <1>3, <1>4 DEF TypeOK
<1>. QED  BY <1>2, <1>4, <1>5, <1>7, <1>8, OutsideStep

\* A worker takes an event: what it may do was in the inbox before.
LEMMA TakeStep ==
    ASSUME IInv, NEW w \in Worker, Take(w)
    PROVE  IInv'
<1>1. TypeOK /\ RoomOK /\ JobsOK /\ Counted
  BY DEF IInv, World
<1>2. PICK e, L : e = Head(inbox) /\ L = Len(inbox)
  OBVIOUS
<1>3. PICK j : j = [Idle EXCEPT !.pc = "begin", !.ev = e]
  OBVIOUS
<1>4. /\ inbox # <<>> /\ job[w].pc = "idle" /\ inbox' = Tail(inbox) /\ Replace(w, j)
      /\ UNCHANGED <<room, mattermost, kvstore, runs, faults>>
      /\ raced' \subseteq raced \cup {job[v].ev : v \in Busy} \cup {e}
  BY <1>2, <1>3 DEF Take, Busy
<1>5. inbox \in Seq(Events) /\ L \in Nat /\ DOMAIN inbox = 1..L /\ Events \subseteq Nat \ {0}
  <2>1. inbox \in Seq(Events)
    BY <1>1 DEF TypeOK
  <2>2. Events \subseteq Nat \ {0}
    BY <1>1, Elements
  <2>. QED  BY <1>2, <2>1, <2>2
<1>6. /\ e \in Events /\ L # 0 /\ inbox[1] = e /\ 1 \in DOMAIN inbox
      /\ inbox' \in Seq(Events) /\ DOMAIN inbox' = 1..(L - 1)
      /\ \A i \in 1..(L - 1) : inbox'[i] = inbox[i + 1]
  <2>1. L # 0 /\ e \in Events /\ inbox[1] = e
    BY <1>2, <1>4, <1>5
  <2>2. Tail(inbox) \in Seq(Events) /\ Len(Tail(inbox)) = L - 1
    BY <1>2, <1>4, <1>5
  <2>3. \A i \in 1..(L - 1) : Tail(inbox)[i] = inbox[i + 1]
    BY <1>2, <1>4, <1>5
  <2>4. DOMAIN Tail(inbox) = 1..(L - 1)
    BY <2>2
  <2>. QED  BY <1>4, <1>5, <2>1, <2>2, <2>3, <2>4
<1>7. /\ j \in JobRecord /\ j.pc = "begin" /\ j.ev = e /\ j.nick = 0
  BY <1>3, <1>5, <1>6 DEF Idle, JobRecord, NoReaction
<1>8. /\ job' \in [Worker -> JobRecord] /\ job'[w] = j
      /\ \A v \in Worker : v # w => job'[v] = job[v]
      /\ \A v \in Worker : job'[v].ev \in {0} \cup Events
  <2>1. job \in [Worker -> JobRecord] /\ \A v \in Worker : job[v].ev \in {0} \cup Events
    BY <1>1 DEF TypeOK
  <2>. QED  BY <1>4, <1>6, <1>7, <2>1 DEF Replace
<1>9. Grows
  BY <1>4 DEF Grows, Events, mattermost
<1>10. JobsOK'
  <2>1. JobOK(j)'
    BY <1>4, <1>6, <1>7 DEF JobOK, WithUser, Events
  <2>. QED  BY <1>1, <1>4, <1>9, <2>1, StepJobs
<1>11. raced' \subseteq Events /\ faults' \in Nat /\ runs' \in [Events -> Nat \ {0}]
  <2>1. \A v \in Busy : job[v].ev \in Events
    BY <1>1 DEF Busy, JobsOK, JobOK
  <2>2. {job[v].ev : v \in Busy} \subseteq Events
    BY <2>1
  <2>3. raced \subseteq Events
    BY <1>1 DEF TypeOK
  <2>4. raced' \subseteq Events
    BY <1>4, <1>6, <2>2, <2>3
  <2>. QED  BY <1>1, <1>4, <2>4 DEF TypeOK
<1>12. ASSUME NEW f \in Events \ {1}
       PROVE  Cardinality(PostsOf(f)') + Cardinality(Queued(f)') + Cardinality(Doing(f)') <= runs[f]
  <2>. DEFINE Q == Queued(f) \ {1}
  <2>1. PostsOf(f)' = PostsOf(f)
    BY <1>4 DEF PostsOf, mattermost
  <2>2. Cardinality(PostsOf(f)) + Cardinality(Queued(f)) + Cardinality(Doing(f)) <= runs[f]
    BY <1>1 DEF Counted
  <2>3. runs[f] \in Nat
    BY <1>1 DEF TypeOK
  <2>4. IsFiniteSet(Q)
    BY <1>1, CountFacts, FS_Subset
  <2>5. Cardinality(Queued(f)') <= Cardinality(Q) /\ Cardinality(Queued(f)') \in Nat
    <3>. DEFINE h == [i \in Queued(f)' |-> i + 1]
    <3>1. \A i \in Queued(f)' : i \in Nat /\ i + 1 \in Q
      BY <1>5, <1>6 DEF Queued
    <3>2. h \in Injection(Queued(f)', Q)
      BY <3>1 DEF Injection, IsInjective
    <3>. HIDE DEF h
    <3>3. IsFiniteSet(Queued(f)') /\ Cardinality(Queued(f)') <= Cardinality(Q)
      BY <2>4, <3>2, FS_Injection
    <3>. QED  BY <3>3, FS_CardinalityType
  <2>6. CASE f = e
    <3>1. 1 \in Queued(f)
      BY <1>6, <2>6 DEF Queued
    <3>2. Cardinality(Q) = Cardinality(Queued(f)) - 1
      BY <1>1, <3>1, CountFacts, FS_RemoveElement
    <3>3. Doing(f)' \in SUBSET (Doing(f) \cup {w})
      BY <1>8 DEF Doing
    <3>4. w \notin Doing(f)
      BY <1>4 DEF Doing, Early
    <3>5. IsFiniteSet(Doing(f) \cup {w}) /\ Cardinality(Doing(f) \cup {w}) = Cardinality(Doing(f)) + 1
      BY <1>1, <3>4, CountFacts, FS_AddElement
    <3>6. Cardinality(Doing(f)') \in Nat /\ Cardinality(Doing(f)') <= Cardinality(Doing(f)) + 1
      BY <3>3, <3>5, FS_Subset, FS_CardinalityType
    <3>. HIDE DEF Q
    <3>. QED  BY <1>1, <2>1, <2>2, <2>3, <2>5, <3>2, <3>6, CountFacts
  <2>7. CASE f # e
    <3>1. Doing(f)' \in SUBSET Doing(f)
      BY <1>7, <1>8, <2>7 DEF Doing
    <3>2. Cardinality(Doing(f)') \in Nat /\ Cardinality(Doing(f)') <= Cardinality(Doing(f))
      BY <1>1, <3>1, CountFacts, FS_Subset, FS_CardinalityType
    <3>3. Cardinality(Q) <= Cardinality(Queued(f)) /\ Cardinality(Q) \in Nat
      BY <1>1, <2>4, CountFacts, FS_Subset, FS_CardinalityType
    <3>. HIDE DEF Q
    <3>. QED  BY <1>1, <2>1, <2>2, <2>3, <2>5, <3>2, <3>3, CountFacts
  <2>. QED  BY <2>6, <2>7
<1>13. Counted'
  BY <1>4, <1>12 DEF Counted, Events
<1>. QED  BY <1>4, <1>6, <1>8, <1>10, <1>11, <1>13, OutsideStep

\* A deleted user stays the one that was made for its Matrix user.
LEMMA DeleteUserStep ==
    ASSUME IInv, DeleteUser
    PROVE  IInv'
<1>1. TypeOK /\ RoomOK /\ PostsOK /\ StoredOK /\ ReactionsOK /\ MappingsOK /\ JobsOK /\ Counted
  BY DEF IInv, World
<1>2. /\ UNCHANGED <<room, inbox, job, userOf, matrixOf, postOf, reactionOf, runs, faults>>
      /\ Events' = Events
  BY DEF DeleteUser, kvstore, Events
<1>3. PICK u \in DOMAIN users :
        /\ users' = [users EXCEPT ![u].live = FALSE]
        /\ LET own == {p \in DOMAIN posts : posts[p].author = u}
           IN  posts' = [p \in DOMAIN posts |-> IF p \in own \/ posts[p].root \in own
                                               THEN [posts[p] EXCEPT !.live = FALSE] ELSE posts[p]]
        /\ members' = members \ {u}
        /\ reactions' = {r \in reactions : r[2] # u}
        /\ raced' = raced \cup {e \in Events : room[e].sender = users[u].of}
                          \cup {job[w].ev : w \in {w \in Busy : room[job[w].ev].sender # Ghost}}
  BY DEF DeleteUser
<1>4. PICK own : posts' = [p \in DOMAIN posts |-> IF p \in own \/ posts[p].root \in own
                                                THEN [posts[p] EXCEPT !.live = FALSE] ELSE posts[p]]
  BY <1>3
<1>5. /\ DOMAIN users' = DOMAIN users /\ users' \in Seq(UserRecord)
      /\ \A v \in DOMAIN users : users'[v].of = users[v].of
  <2>1. users \in Seq(UserRecord) /\ DOMAIN users = 1..Len(users) /\ Len(users) \in Nat
        /\ users[u] \in UserRecord
    BY <1>1, Elements DEF TypeOK
  <2>2. [users[u] EXCEPT !.live = FALSE] \in UserRecord /\ [users[u] EXCEPT !.live = FALSE].of = users[u].of
    BY <2>1 DEF UserRecord
  <2>. QED  BY <1>3, <2>1, <2>2
<1>6. Len(users') = Len(users)
  BY <1>1, <1>5, Elements
<1>7. UserRecord' = UserRecord /\ PostRecord' = PostRecord
  BY <1>2, <1>6 DEF UserRecord, PostRecord
<1>8. \A p \in DOMAIN posts : /\ posts'[p] \in PostRecord /\ posts'[p].event = posts[p].event
                              /\ posts'[p].author = posts[p].author /\ posts'[p].root = posts[p].root
                              /\ posts'[p].text = posts[p].text
  <2>1. \A p \in DOMAIN posts : posts[p] \in PostRecord
    BY <1>1, Elements
  <2>. QED  BY <1>4, <2>1 DEF PostRecord
<1>9. /\ DOMAIN posts' = DOMAIN posts /\ posts' \in Seq(PostRecord) /\ posts' # <<>>
      /\ Len(posts') = Len(posts)
  <2>1. DOMAIN posts = 1..Len(posts) /\ Len(posts) \in Nat /\ posts # <<>> /\ Len(posts) # 0
    BY <1>1, Elements DEF PostsOK, TypeOK
  <2>2. DOMAIN posts' = DOMAIN posts /\ posts' = [p \in 1..Len(posts) |-> posts'[p]]
    BY <1>4, <2>1
  <2>3. posts' \in Seq(PostRecord) /\ Len(posts') = Len(posts)
    BY <1>8, <2>1, <2>2
  <2>. QED  BY <2>1, <2>2, <2>3
<1>10. Grows
  BY <1>2, <1>5, <1>8, <1>9 DEF Grows
<1>11. TypeOK'
  <2>1. /\ room' \in Seq(Event') /\ \A e \in Events' : room'[e].target < e
        /\ inbox' \in Seq(Events')
        /\ job' \in [Worker -> JobRecord'] /\ \A w \in Worker : job'[w].ev \in {0} \cup Events'
        /\ runs' \in [Events' -> Nat \ {0}] /\ faults' \in Nat
    BY <1>1, <1>2 DEF TypeOK, Event, Kinds, JobRecord
  <2>2. \A p \in DOMAIN posts' : posts'[p].root < p /\ (posts'[p].author = 0 <=> p = 1)
    BY <1>1, <1>8, <1>9 DEF TypeOK
  <2>3. /\ members' \subseteq DOMAIN users'
        /\ reactions' \subseteq (DOMAIN posts') \X (DOMAIN users')
    <3>1. members \subseteq DOMAIN users /\ reactions \subseteq (DOMAIN posts) \X (DOMAIN users)
      BY <1>1 DEF TypeOK
    <3>. QED  BY <1>3, <1>5, <1>9, <3>1
  <2>4. /\ userOf' \in [Sender -> 0..Len(users')]
        /\ matrixOf' \in [DOMAIN users' -> Sender \cup {NoSender}]
        /\ postOf' \in [Events' -> 0..Len(posts')]
        /\ reactionOf' \in [Events' -> ((DOMAIN posts') \X (DOMAIN users')) \cup {NoReaction}]
    BY <1>1, <1>2, <1>5, <1>6, <1>9 DEF TypeOK
  <2>5. raced' \subseteq Events'
    <3>1. \A w \in Busy : job[w].ev \in Events
      BY <1>1 DEF Busy, JobsOK, JobOK
    <3>2. raced \subseteq Events
      BY <1>1 DEF TypeOK
    <3>3. {job[w].ev : w \in {w \in Busy : room[job[w].ev].sender # Ghost}} \subseteq Events
      BY <3>1
    <3>. QED  BY <1>2, <1>3, <3>2, <3>3
  <2>. QED  BY <1>5, <1>7, <1>9, <2>1, <2>2, <2>3, <2>4, <2>5 DEF TypeOK
<1>12. PostsOK'
  <2>1. \A p \in DOMAIN posts \ {1} : PostOK(p)'
    BY <1>1, <1>8, <1>10, PostKept
  <2>2. 1 \in DOMAIN posts
    BY <1>1 DEF PostsOK, TypeOK
  <2>. QED  BY <1>1, <1>8, <1>9, <2>1, <2>2 DEF PostsOK
<1>13. RoomOK'
  BY <1>1, <1>2 DEF RoomOK
<1>14. StoredOK' /\ ReactionsOK' /\ MappingsOK'
  <2>1. reactions' \subseteq reactions
    BY <1>3
  <2>. QED  BY <1>1, <1>2, <1>5, <1>10, <2>1, StoredKept, ReactionsKept, MappingsKept
<1>15. JobsOK'
  BY <1>1, <1>2, <1>10, JobsLeft
<1>16. Counted'
  <2>1. \A f \in Events : PostsOf(f)' = PostsOf(f) /\ Queued(f)' = Queued(f) /\ Doing(f)' = Doing(f)
    BY <1>2, <1>8, <1>9 DEF PostsOf, Queued, Doing
  <2>. QED  BY <1>1, <1>2, <2>1 DEF Counted
<1>. QED  BY <1>11, <1>12, <1>13, <1>14, <1>15, <1>16 DEF IInv, World

\* A user of the room acts: the new event is about one that is there.
LEMMA SendStep ==
    ASSUME IInv, Send
    PROVE  IInv'
<1>1. TypeOK /\ RoomOK /\ PostsOK /\ StoredOK /\ ReactionsOK /\ MappingsOK /\ JobsOK /\ Counted
  BY DEF IInv, World
<1>2. PICK L, n : L = Len(room) /\ n = L + 1
  OBVIOUS
<1>3. /\ UNCHANGED <<job, users, posts, reactions, members, userOf, matrixOf, raced, faults>>
      /\ inbox' = Append(inbox, n) /\ postOf' = Append(postOf, 0)
      /\ reactionOf' = Append(reactionOf, NoReaction) /\ runs' = Append(runs, 1)
  BY <1>2 DEF Send, mattermost
<1>4. /\ L \in Nat /\ Events = 1..L /\ room \in Seq(Event) /\ n \in Nat /\ n # 0 /\ n \notin Events
      /\ \A e \in Events : room[e].target < e
      /\ L # 0
  <2>1. room # <<>> /\ room \in Seq(Event)
    BY <1>1 DEF RoomOK, TypeOK
  <2>2. Len(room) # 0
    BY <2>1
  <2>. QED  BY <1>1, <1>2, <2>1, <2>2, Elements DEF TypeOK
<1>5. PICK x : /\ x.kind \in Kinds /\ x.sender \in Sender /\ x.target \in {0} \cup Events
               /\ x.kind \in {"edit", "reaction", "redaction"} => x.target # 0
               /\ x = [kind |-> x.kind, sender |-> x.sender, target |-> x.target]
               /\ room' = Append(room, x)
  <2>1. PICK m \in Sender, kind \in Kinds :
          \E target \in CASE kind \in {"message", "file"} -> {0} \cup Visible
                         [] kind = "edit"      -> {e \in Visible : room[e].kind = "message" /\ room[e].sender = m}
                         [] kind = "reaction"  -> {e \in Visible : ~Reacts(m, e)}
                         [] kind = "redaction" -> {e \in Events : ~Redacted(e) /\ room[e].kind \in Kinds
                                                                  \ {"redaction", "join", "leave"}}
                         [] OTHER              -> {0} :
             room' = Append(room, [kind |-> kind, sender |-> m, target |-> target])
    BY DEF Send
  <2>2. Visible \subseteq Events
    BY DEF Visible
  <2>3. PICK target : /\ target \in {0} \cup Events
                      /\ kind \in {"edit", "reaction", "redaction"} => target \in Events
                      /\ room' = Append(room, [kind |-> kind, sender |-> m, target |-> target])
    <3>1. CASE kind \in {"message", "file"}
      BY <2>1, <2>2, <3>1
    <3>2. CASE kind = "edit"
      BY <2>1, <2>2, <3>2
    <3>3. CASE kind = "reaction"
      BY <2>1, <2>2, <3>3
    <3>4. CASE kind = "redaction"
      BY <2>1, <3>4
    <3>5. CASE kind \in {"join", "leave"}
      BY <2>1, <3>5
    <3>. QED  BY <3>1, <3>2, <3>3, <3>4, <3>5 DEF Kinds
  <2>4. kind \in {"edit", "reaction", "redaction"} => target # 0
    BY <1>4, <2>3
  <2>. QED  BY <2>3, <2>4
<1>6. /\ x \in Event /\ x.sender # Ghost /\ x.target < n /\ x.target \in Nat
  <2>1. x.sender # Ghost
    BY <1>5, MatrixToMattermostAssumption
  <2>2. x.target \in Nat /\ x.target < n
    BY <1>2, <1>4, <1>5
  <2>. QED  BY <1>5, <2>1, <2>2 DEF Event
<1>7. /\ room' \in Seq(Event) /\ Len(room') = n /\ Events' = 1..n /\ Events' = Events \cup {n}
      /\ room'[n] = x /\ \A e \in Events : room'[e] = room[e]
  <2>1. /\ Append(room, x) \in Seq(Event) /\ Len(Append(room, x)) = n
        /\ Append(room, x)[n] = x /\ \A i \in 1..L : Append(room, x)[i] = room[i]
    BY <1>2, <1>4, <1>6
  <2>2. DOMAIN Append(room, x) = 1..n
    BY <2>1
  <2>. QED  BY <1>2, <1>4, <1>5, <2>1, <2>2 DEF Events
<1>8. Grows
  BY <1>3, <1>7 DEF Grows
<1>9. /\ postOf' \in [Events' -> 0..Len(posts)] /\ postOf'[n] = 0
      /\ \A e \in Events : postOf'[e] = postOf[e]
  <2>1. postOf \in [1..L -> 0..Len(posts)]
    BY <1>1, <1>4 DEF TypeOK
  <2>2. PICK none : none = 0
    OBVIOUS
  <2>3. none \in 0..Len(posts)
    BY <1>1, <2>2, Elements
  <2>4. Append(postOf, none) \in [1..(L + 1) -> 0..Len(posts)]
    BY <1>4, <2>1, <2>3, Appended, Zenon
  <2>5. Append(postOf, none)[L + 1] = none
    BY <1>4, <2>1, <2>3, Appended
  <2>6. \A i \in 1..L : Append(postOf, none)[i] = postOf[i]
    BY <1>4, <2>1, <2>3, Appended
  <2>. QED  BY <1>2, <1>3, <1>4, <1>7, <2>2, <2>4, <2>5, <2>6, Zenon
<1>10. reactionOf' \in [Events' -> ((DOMAIN posts) \X (DOMAIN users)) \cup {NoReaction}]
  <2>1. /\ reactionOf \in [1..L -> ((DOMAIN posts) \X (DOMAIN users)) \cup {NoReaction}]
        /\ NoReaction \in ((DOMAIN posts) \X (DOMAIN users)) \cup {NoReaction}
    BY <1>1, <1>4 DEF TypeOK
  <2>2. Append(reactionOf, NoReaction)
            \in [1..(L + 1) -> ((DOMAIN posts) \X (DOMAIN users)) \cup {NoReaction}]
    BY <1>4, <2>1, Appended, Zenon
  <2>. QED  BY <1>2, <1>3, <1>7, <2>2, Zenon
<1>11. /\ runs' \in [Events' -> Nat \ {0}] /\ runs'[n] = 1
       /\ \A e \in Events : runs'[e] = runs[e]
  <2>1. PICK once : once = 1
    OBVIOUS
  <2>2. runs \in [1..L -> Nat \ {0}] /\ once \in Nat \ {0}
    BY <1>1, <1>4, <2>1 DEF TypeOK
  <2>3. Append(runs, once) \in [1..(L + 1) -> Nat \ {0}]
    BY <1>4, <2>2, Appended, Zenon
  <2>4. Append(runs, once)[L + 1] = once
    BY <1>4, <2>2, Appended
  <2>5. \A i \in 1..L : Append(runs, once)[i] = runs[i]
    BY <1>4, <2>2, Appended
  <2>. QED  BY <1>2, <1>3, <1>4, <1>7, <2>1, <2>3, <2>4, <2>5, Zenon
<1>12. inbox' \in Seq(Events')
  <2>1. inbox \in Seq(Events') /\ n \in Events'
    <3>1. inbox \in Seq(Events) /\ Events \subseteq Events' /\ n \in Events'
      BY <1>1, <1>7 DEF TypeOK
    <3>2. Len(inbox) \in Nat /\ inbox \in [1..Len(inbox) -> Events']
      BY <3>1
    <3>. QED  BY <3>1, <3>2
  <2>. QED  BY <1>3, <2>1
<1>13. TypeOK'
  <2>1. UserRecord \subseteq UserRecord' /\ PostRecord \subseteq PostRecord'
    BY <1>3, <1>7 DEF UserRecord, PostRecord
  <2>2. users' \in Seq(UserRecord') /\ posts' \in Seq(PostRecord')
    <3>1. /\ Len(users) \in Nat /\ users \in [1..Len(users) -> UserRecord']
          /\ Len(posts) \in Nat /\ posts \in [1..Len(posts) -> PostRecord']
      BY <1>1, <2>1 DEF TypeOK
    <3>2. users \in Seq(UserRecord') /\ posts \in Seq(PostRecord')
      BY <3>1
    <3>. QED  BY <1>3, <3>2
  <2>3. /\ room' \in Seq(Event') /\ \A e \in Events' : room'[e].target < e
        /\ job' \in [Worker -> JobRecord'] /\ \A w \in Worker : job'[w].ev \in {0} \cup Events'
    <3>1. room' \in Seq(Event') /\ \A e \in Events' : room'[e].target < e
      BY <1>4, <1>6, <1>7 DEF Event, Kinds
    <3>2. job' \in [Worker -> JobRecord'] /\ \A w \in Worker : job'[w].ev \in {0} \cup Events'
      BY <1>1, <1>3, <1>7 DEF TypeOK, JobRecord
    <3>. QED  BY <3>1, <3>2
  <2>4. /\ \A p \in DOMAIN posts' : posts'[p].root < p /\ (posts'[p].author = 0 <=> p = 1)
        /\ members' \subseteq DOMAIN users'
        /\ reactions' \subseteq (DOMAIN posts') \X (DOMAIN users')
        /\ userOf' \in [Sender -> 0..Len(users')]
        /\ matrixOf' \in [DOMAIN users' -> Sender \cup {NoSender}]
        /\ raced' \subseteq Events' /\ faults' \in Nat
    BY <1>1, <1>3, <1>7 DEF TypeOK
  <2>5. /\ postOf' \in [Events' -> 0..Len(posts')]
        /\ reactionOf' \in [Events' -> ((DOMAIN posts') \X (DOMAIN users')) \cup {NoReaction}]
    BY <1>3, <1>9, <1>10
  <2>. QED  BY <1>11, <1>12, <2>2, <2>3, <2>4, <2>5 DEF TypeOK
<1>14. RoomOK'
  <2>1. room' # <<>> /\ room'[1].sender = Ghost
    <3>1. 1 \in Events /\ Len(room') # 0
      BY <1>4, <1>7
    <3>. QED  BY <1>1, <1>7, <3>1 DEF RoomOK
  <2>. QED  BY <1>1, <1>5, <1>6, <1>7, <2>1 DEF RoomOK
<1>15. PostsOK'
  <2>1. \A p \in DOMAIN posts \ {1} : PostOK(p)'
    BY <1>1, <1>3, <1>8, PostKept
  <2>. QED  BY <1>1, <1>3, <2>1 DEF PostsOK
<1>16. StoredOK'
  BY <1>1, <1>3, <1>7, <1>9 DEF StoredOK
<1>17. ReactionsOK' /\ MappingsOK'
  BY <1>1, <1>3, <1>8, ReactionsKept, MappingsKept
<1>18. JobsOK'
  BY <1>1, <1>3, <1>8, JobsLeft
<1>19. ASSUME NEW f \in Events' \ {1}
       PROVE  Cardinality(PostsOf(f)') + Cardinality(Queued(f)') + Cardinality(Doing(f)') <= runs'[f]
  <2>1. PostsOf(f)' = PostsOf(f) /\ Doing(f)' = Doing(f)
    BY <1>3 DEF PostsOf, Doing
  <2>2. CASE f = n
    <3>1. PostsOf(f) = {}
      BY <1>1, <1>4, <2>2, Elements DEF PostsOf
    <3>2. Doing(f) = {}
      BY <1>1, <1>4, <2>2 DEF Doing, TypeOK
    <3>3. Queued(f) = {}
      <4>1. \A i \in DOMAIN inbox : inbox[i] \in Events
        BY <1>1 DEF TypeOK
      <4>. QED  BY <1>4, <2>2, <4>1 DEF Queued
    <3>4. Cardinality(Queued(f)') = Cardinality(Queued(f)) + 1
      BY <1>1, <1>3, <1>4, <2>2, QueuedMore
    <3>. QED  BY <1>11, <2>1, <2>2, <3>1, <3>2, <3>3, <3>4, FS_EmptySet
  <2>3. CASE f # n
    <3>1. f \in Events \ {1} /\ Queued(f)' = Queued(f) /\ runs'[f] = runs[f]
      BY <1>1, <1>3, <1>4, <1>7, <1>11, <2>3, QueuedMore
    <3>. QED  BY <1>1, <2>1, <3>1 DEF Counted
  <2>. QED  BY <2>2, <2>3
<1>20. Counted'
  BY <1>19 DEF Counted
<1>. QED  BY <1>13, <1>14, <1>15, <1>16, <1>17, <1>18, <1>20 DEF IInv, World

-----------------------------------------------------------------------------
(* The theorems *)

LEMMA InitIInv == Init => IInv
<1>. SUFFICES ASSUME Init  PROVE IInv
  OBVIOUS
<1>. DEFINE message == [kind |-> "message", sender |-> Ghost, target |-> 0]
            file == [kind |-> "file", sender |-> Ghost, target |-> 1]
            post == [event |-> 1, author |-> 0, root |-> 0, text |-> 1, live |-> TRUE]
<1>1. /\ room \in {<<message>>, <<message, file>>} /\ posts = <<post>>
      /\ inbox = [e \in Events |-> e] /\ job = [w \in Worker |-> Idle]
      /\ users = <<>> /\ reactions = {} /\ members = {}
      /\ userOf = [m \in Sender |-> 0] /\ matrixOf = <<>>
      /\ postOf = [e \in Events |-> 0] /\ reactionOf = [e \in Events |-> NoReaction]
      /\ runs = [e \in Events |-> 1] /\ raced = {} /\ faults = 0
  BY DEF Init
<1>2. message \in Event /\ file \in Event
  BY DEF Event, Kinds
<1>3. PICK L \in 1..2 : /\ Events = 1..L /\ Len(room) = L /\ room \in Seq(Event)
                        /\ room[1] = message /\ (L = 2 => room[2] = file)
  <2>1. CASE room = <<message>>
    <3>1. Events = 1..1 /\ Len(room) = 1 /\ room[1] = message /\ room \in Seq(Event)
      BY <1>2, <2>1 DEF Events
    <3>. QED  BY <3>1
  <2>2. CASE room = <<message, file>>
    <3>1. Events = 1..2 /\ Len(room) = 2 /\ room[1] = message /\ room[2] = file /\ room \in Seq(Event)
      BY <1>2, <2>2 DEF Events
    <3>. QED  BY <3>1
  <2>. QED  BY <1>1, <2>1, <2>2
<1>4. 1 \in Events /\ \A e \in Events : e = 1 \/ (e = 2 /\ L = 2)
  BY <1>3
<1>5. Idle \in JobRecord /\ Idle.ev = 0 /\ Idle.pc = "idle" /\ Idle.nick = 0
  BY DEF Idle, JobRecord, NoReaction
<1>6. Len(posts) = 1 /\ DOMAIN posts = {1} /\ posts[1] = post /\ posts # <<>>
  BY <1>1
<1>7. Len(users) = 0 /\ DOMAIN users = {}
  BY <1>1
<1>8. TypeOK
  <2>1. room \in Seq(Event) /\ \A e \in Events : room[e].target < e
    BY <1>3, <1>4
  <2>2. inbox \in Seq(Events)
    BY <1>1, <1>3
  <2>3. job \in [Worker -> JobRecord] /\ \A w \in Worker : job[w].ev \in {0} \cup Events
    BY <1>1, <1>5
  <2>4. users \in Seq(UserRecord)
    BY <1>1
  <2>5. posts \in Seq(PostRecord)
    <3>1. post \in PostRecord
      BY <1>4, <1>7 DEF PostRecord
    <3>. QED  BY <1>1, <3>1
  <2>6. \A p \in DOMAIN posts : posts[p].root < p /\ (posts[p].author = 0 <=> p = 1)
    BY <1>6
  <2>7. /\ members \subseteq DOMAIN users
        /\ reactions \subseteq (DOMAIN posts) \X (DOMAIN users)
        /\ userOf \in [Sender -> 0..Len(users)]
        /\ matrixOf \in [DOMAIN users -> Sender \cup {NoSender}]
        /\ postOf \in [Events -> 0..Len(posts)]
        /\ reactionOf \in [Events -> ((DOMAIN posts) \X (DOMAIN users)) \cup {NoReaction}]
    BY <1>1, <1>6, <1>7
  <2>8. runs \in [Events -> Nat \ {0}] /\ raced \subseteq Events /\ faults \in Nat
    BY <1>1
  <2>. QED  BY <2>1, <2>2, <2>3, <2>4, <2>5, <2>6, <2>7, <2>8 DEF TypeOK
<1>9. RoomOK
  <2>1. room # <<>>
    BY <1>3
  <2>. QED  BY <1>3, <1>4, <2>1 DEF RoomOK
<1>10. PostsOK
  BY <1>6 DEF PostsOK
<1>11. StoredOK /\ ReactionsOK /\ MappingsOK
  BY <1>1, <1>7 DEF StoredOK, ReactionsOK, MappingsOK
<1>12. JobsOK
  BY <1>1, <1>5 DEF JobsOK, JobOK, WithUser
<1>13. Counted
  <2>1. ASSUME NEW f \in Events \ {1}
        PROVE  Cardinality(PostsOf(f)) + Cardinality(Queued(f)) + Cardinality(Doing(f)) <= runs[f]
    <3>1. PostsOf(f) = {}
      BY <1>6 DEF PostsOf
    <3>2. Doing(f) = {}
      BY <1>1, <1>5 DEF Doing, Early
    <3>3. Queued(f) = {f}
      BY <1>1 DEF Queued
    <3>4. runs[f] = 1
      BY <1>1
    <3>5. Cardinality(PostsOf(f)) = 0 /\ Cardinality(Doing(f)) = 0 /\ Cardinality(Queued(f)) = 1
      BY <3>1, <3>2, <3>3, FS_EmptySet, FS_Singleton, Zenon
    <3>. QED  BY <3>4, <3>5
  <2>. QED  BY <2>1 DEF Counted
<1>. QED  BY <1>8, <1>9, <1>10, <1>11, <1>12, <1>13 DEF IInv, World

LEMMA StepIInv == IInv /\ [Next]_vars => IInv'
<1>. SUFFICES ASSUME IInv, [Next]_vars  PROVE IInv'
  OBVIOUS
<1>1. CASE Next
  BY <1>1, SendStep, RepeatStep, DeleteUserStep, CrashStep, TakeStep, WorkStep DEF Next
<1>2. CASE UNCHANGED vars
  <2>1. TypeOK /\ RoomOK /\ JobsOK /\ Counted
    BY DEF IInv, World
  <2>2. UNCHANGED <<room, inbox, job, mattermost, kvstore, runs, raced, faults>>
    BY <1>2 DEF vars
  <2>3. Grows
    BY <2>2 DEF Grows, Events, mattermost
  <2>4. JobsOK'
    BY <2>1, <2>2, <2>3, JobsLeft
  <2>5. Counted'
    BY <2>1, <2>2 DEF Counted, Events, PostsOf, Queued, Doing, mattermost
  <2>6. /\ inbox' \in Seq(Events) /\ faults' \in Nat /\ raced' \subseteq Events
        /\ runs' \in [Events -> Nat \ {0}] /\ job' \in [Worker -> JobRecord]
        /\ \A v \in Worker : job'[v].ev \in {0} \cup Events
    BY <2>1, <2>2 DEF TypeOK
  <2>. QED  BY <2>2, <2>4, <2>5, <2>6, OutsideStep
<1>. QED  BY <1>1, <1>2

LEMMA SpecIInv == Spec => []IInv
BY InitIInv, StepIInv, PTL DEF Spec

\* Every variable has its type: what is stored names a user, a post or an
\* event there is.
THEOREM MatrixToMattermostTypeOK == Spec => []TypeOK
<1>1. IInv => TypeOK
  BY DEF IInv
<1>. QED  BY SpecIInv, <1>1, PTL

\* A post comes from a message of a user that is no ghost, is that of the
\* user made for the sender and stands in the right thread; none is made more
\* often than its event is handed over; a reaction is by whom it was sent; the
\* mappings of a user agree.  This holds whatever syncMatrixMessageToMattermost
\* and the other handlers of sync_to_mattermost.go are interrupted by.
THEOREM MatrixToMattermostProvenance == Spec => []Provenance
<1>1. IInv => Provenance
  <2>. SUFFICES ASSUME IInv  PROVE Provenance
    OBVIOUS
  <2>1. TypeOK /\ RoomOK /\ PostsOK /\ ReactionsOK /\ MappingsOK /\ Counted
    BY DEF IInv, World
  <2>2. ASSUME NEW p \in DOMAIN posts \ {1}
        PROVE  LET e == posts[p].event
                   r == posts[p].root
               IN  /\ IsPost(e) /\ users[posts[p].author].of = room[e].sender
                   /\ Cardinality(PostsOf(e)) <= runs[e]
                   /\ r # 0 => posts[r].root = 0 /\ posts[r].event \in Chain(e) \ {e}
                   /\ posts[p].text = e \/ room[posts[p].text].target = e
    <3>1. PICK e : e = posts[p].event
      OBVIOUS
    <3>2. e \in Events
      BY <2>1, <3>1, Elements
    <3>3. PostOK(p) /\ Speaks(posts[p].author, e)
      BY <2>1, <3>1 DEF PostsOK, PostOK
    <3>4. e # 1
      <4>1. users[posts[p].author].of \in Sender
        BY <2>1, <3>3, Elements DEF Speaks, UserRecord
      <4>. QED  BY <2>1, <3>3, <4>1, MatrixToMattermostAssumption DEF Speaks, RoomOK
    <3>5. Cardinality(PostsOf(e)) <= runs[e]
      <4>1. Cardinality(PostsOf(e)) + Cardinality(Queued(e)) + Cardinality(Doing(e)) <= runs[e]
        BY <2>1, <3>2, <3>4 DEF Counted
      <4>2. runs[e] \in Nat
        BY <2>1, <3>2 DEF TypeOK
      <4>. QED  BY <2>1, <4>1, <4>2, CountFacts
    <3>. QED  BY <3>1, <3>3, <3>5 DEF PostOK, Speaks, Threaded
  <2>3. ASSUME NEW r \in reactions
        PROVE  \E e \in Events : /\ room[e].kind = "reaction" /\ Main(room[e].target) = posts[r[1]].event
                                 /\ room[e].sender = users[r[2]].of
    <3>1. PICK e \in Events : ReactsTo(e, r[1]) /\ Speaks(r[2], e)
      BY <2>1 DEF ReactionsOK
    <3>. QED  BY <3>1 DEF ReactsTo, Speaks
  <2>. QED  BY <2>1, <2>2, <2>3 DEF Provenance, MappingsOK
<1>. QED  BY SpecIInv, <1>1, PTL
=============================================================================
