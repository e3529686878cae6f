-------------------------- MODULE TeamSpacesProofs --------------------------
(***************************************************************************)
(* Proofs about TeamSpaces, for any teams, channels, names, goroutines and *)
(* bounds: types, the rooms that come to be (OwnRooms), and what is left   *)
(* when all is done (Settled).  That rooms lead home follows from what a   *)
(* goroutine knows of the room it works on (JobOK); that they are few from *)
(* the aliases a channel has ever asked for (Asked); that none is          *)
(* forgotten from who is about to store it (Known); and that a backfill    *)
(* completes from how far it has come with each channel (Progress).        *)
(***************************************************************************)
EXTENDS TeamSpaces, FiniteSetTheorems, NaturalsInduction, SequenceTheorems, TLAPS

-----------------------------------------------------------------------------
(* The invariant. *)

Types ==
    /\ team \subseteq Team /\ channel \in [Channel -> ChannelRecord \cup {None}]
    /\ DOMAIN rooms \subseteq Alias /\ \A a \in DOMAIN rooms : rooms[a] \in Room
    /\ \A a \in DOMAIN rooms : rooms[a].listed => rooms[a].public
    /\ children \subseteq Alias \X Identifier /\ guests \subseteq Alias \X Member
    /\ channelKey \in [Channel -> Identifier \cup {None}] /\ teamKey \in [Team -> Alias \cup {None}]
    /\ DOMAIN roomKey \subseteq Identifier /\ \A i \in DOMAIN roomKey : roomKey[i] \in Channel
    /\ jobs \in 0..MaxJob /\ changes \in Nat /\ faults \in Nat /\ changes + faults <= MaxMishap
    /\ asked \subseteq Channel \X BOOLEAN /\ extra \in Nat /\ promise \subseteq Channel
JobType == job \in [Slot -> JobRecord \cup {Idle}]

\* A channel that has a room; a room that is public although its channel is
\* not has been asked for, to be published, by a command.
Owner(c, public) == /\ c \in Channel /\ Exists(c)
                    /\ public /\ channel[c].private => <<c, TRUE>> \in asked
Commanded(c) == \E publish \in BOOLEAN : <<c, publish>> \in asked
Owned == \A a \in DOMAIN rooms : rooms[a].of \in Channel => Owner(rooms[a].of, rooms[a].public)
World == Types /\ LeadsHome /\ Owned

Made == {"open", "members", "forward", "reverse", "find", "child"}
AtRoom == {"team", "room"} \cup Made
IsRoomOf(a, of) == a \in DOMAIN rooms /\ rooms[a].of = of
JobOK(j) ==
    /\ j.kind = "create" => j.pc \in AtRoom /\ Commanded(j.c)
    /\ j.pc = "team" => j.words \in Name
    /\ j.pc \in AtRoom => Owner(j.c, j.public) /\ channel[j.c].team = j.t
    /\ j.pc \in AtRoom \cup {"eachChannel"} => \A c \in j.channels : Exists(c) /\ channel[c].team = j.t
    /\ j.pc \in Made => IsRoomOf(RoomAlias(j.words), j.c)
    /\ j.pc = "spaceKey" => IsRoomOf(SpaceAlias(j.t), j.t)
    /\ j.pc = "child" => teamKey[j.t] # None
Jobs == \A s \in Slot : job[s] # Idle => JobOK(job[s])

\* The aliases of a channel's rooms, those that a goroutine is about to ask for
\* on its behalf, and the one that is made from its name.
RoomsOf(c) == {a \in DOMAIN rooms : rooms[a].of = c}
Wish(j) == RoomAlias(IF j.pc = "team" THEN TeamWords[j.t] \o j.words ELSE j.words)
Wanted(c) == {Wish(job[s]) : s \in {o \in Slot : job[o] # Idle /\ job[o].pc \in {"team", "room"} /\ job[o].c = c}}
Own(c) == IF Exists(c) THEN {RoomAlias(NameOf(c))} ELSE {}
Asked(c) == RoomsOf(c) \cup Wanted(c) \cup Own(c)
Sum == changes + extra + faults
Few(c) == IsFiniteSet(Asked(c)) /\ Cardinality(Asked(c)) <= 1 + Sum
Counted == \A c \in Channel : Few(c)

IInv == JobType /\ Jobs /\ World /\ Counted

-----------------------------------------------------------------------------
(* Names and records. *)

LEMMA NamesAreWords == Name \subseteq Words /\ \A t \in Team, n \in Name : TeamWords[t] \o n \in Words
<1>. DEFINE P == {TeamWords[t] : t \in Team} \cup {<<>>}
<1>1. Words = {p \o n : p \in P, n \in Name}
  BY DEF Words
<1>2. <<>> \in P /\ \A t \in Team : TeamWords[t] \in P
  OBVIOUS
<1>. HIDE DEF P
<1>3. \A p \in P, n \in Name : p \o n \in Words
  BY <1>1
<1>4. \A n \in Name : n = <<>> \o n
  BY ConcatEmptySeq, TeamSpacesAssumption
<1>. QED  BY <1>2, <1>3, <1>4

LEMMA AliasFacts == /\ \A w \in Words : RoomAlias(w) \in Alias
                    /\ \A t \in Team : SpaceAlias(t) \in Alias
                    /\ \A a \in Alias : a # None
<1>1. \A w \in Words : RoomAlias(w) \in Alias
  BY DEF Alias
<1>2. \A t \in Team : SpaceAlias(t) \in Alias
  BY DEF Alias
<1>3. ASSUME NEW a \in Alias  PROVE a # None
  <2>1. "prefixed" \in DOMAIN a
    BY DEF Alias, RoomAlias, SpaceAlias
  <2>2. "prefixed" \notin DOMAIN None
    BY DEF None
  <2>. QED  BY <2>1, <2>2
<1>. QED  BY <1>1, <1>2, <1>3

LEMMA IdentifierFacts == /\ \A i \in Identifier : i # None
                         /\ \A j \in JobRecord : Returned(j) \in Identifier /\ Returned(j).alias = RoomAlias(j.words)
<1>1. ASSUME NEW i \in Identifier  PROVE i # None
  <2>1. "alias" \in DOMAIN i
    BY DEF Identifier
  <2>2. "alias" \notin DOMAIN None
    BY DEF None
  <2>. QED  BY <2>1, <2>2
<1>2. ASSUME NEW j \in JobRecord  PROVE Returned(j) \in Identifier /\ Returned(j).alias = RoomAlias(j.words)
  <2>1. RoomAlias(j.words) \in Alias /\ j.kind \in Kinds
    BY <1>2, AliasFacts DEF JobRecord
  <2>. QED  BY <2>1 DEF Returned, Identifier
<1>. QED  BY <1>1, <1>2

LEMMA Anys == AnyChannel \in Channel /\ AnyTeam \in Team /\ AnyName \in Name /\ AnyName \in Words
BY TeamSpacesAssumption, NamesAreWords DEF AnyChannel, AnyTeam, AnyName

LEMMA JobFields ==
    ASSUME NEW j \in JobRecord
    PROVE  /\ j # Idle /\ j.pc # "idle" /\ j.kind \in Kinds /\ j.t \in Team /\ j.c \in Channel /\ j.words \in Words
           /\ j.public \in BOOLEAN /\ j.offset \in Nat /\ j.teams \subseteq Team /\ j.channels \subseteq Channel
           /\ j.page \in Nat
BY DEF JobRecord, Idle

LEMMA ChannelFields ==
    ASSUME Types, NEW c \in Channel, Exists(c)
    PROVE  /\ channel[c] \in ChannelRecord /\ channel[c].team \in Team /\ channel[c].name \in Name
           /\ channel[c].private \in BOOLEAN
BY DEF Types, Exists, ChannelRecord

LEMMA Records == \A r \in ChannelRecord : r # None
<1>1. ASSUME NEW r \in ChannelRecord  PROVE r # None
  <2>1. "team" \in DOMAIN r
    BY DEF ChannelRecord
  <2>2. "team" \notin DOMAIN None
    BY DEF None
  <2>. QED  BY <2>1, <2>2
<1>. QED  BY <1>1

LEMMA Bounds == MaxJob \in Nat /\ MaxMishap \in Nat /\ Limit \in Nat
BY TeamSpacesAssumption

-----------------------------------------------------------------------------
(* What every step keeps, and what a step of slot s may do. *)

Keeps ==
    /\ \A a \in DOMAIN rooms : a \in DOMAIN rooms' /\ rooms'[a].of = rooms[a].of
    /\ \A c \in Channel : Exists(c) => /\ Exists(c)'
                                       /\ channel'[c].team = channel[c].team
                                       /\ channel'[c].private = channel[c].private
    /\ \A t \in Team : teamKey[t] # None => teamKey'[t] # None
    /\ asked \subseteq asked'

\* No room is made but for an alias asked for, and no name changes.
Modest ==
    /\ Sum \in Nat /\ Sum' \in Nat /\ Sum' >= Sum
    /\ \A c \in Channel : RoomsOf(c)' \subseteq Asked(c) /\ Own(c)' \subseteq Asked(c)

Stays(s) == JobType' /\ \A t \in Slot \ {s} : job'[t] = job[t]

LEMMA Replaced ==
    ASSUME JobType, NEW s \in Slot, NEW k \in JobRecord \cup {Idle}, job' = [job EXCEPT ![s] = k]
    PROVE  Stays(s) /\ job'[s] = k
BY DEF JobType, Stays

LEMMA Mine ==
    ASSUME IInv, NEW s \in Slot, job[s].pc # "idle"
    PROVE  job[s] \in JobRecord /\ job[s] # Idle /\ JobOK(job[s])
<1>1. job[s] # Idle
  BY DEF Idle
<1>. QED  BY <1>1 DEF IInv, JobType, Jobs

LEMMA OthersKnow ==
    ASSUME IInv, Keeps, NEW s \in Slot, job[s] # Idle, job'[s] = job[s]
    PROVE  JobOK(job[s])'
<1>. DEFINE j == job[s]
<1>1. j \in JobRecord /\ JobOK(j)
  BY DEF IInv, JobType, Jobs
<1>2. j.c \in Channel /\ j.t \in Team /\ j.channels \subseteq Channel
  BY <1>1, JobFields
<1>3. Commanded(j.c) => Commanded(j.c)'
  BY DEF Commanded, Keeps
<1>4. \A c, public : Owner(c, public) => Owner(c, public)'
  BY DEF Owner, Keeps
<1>5. \A a, of : IsRoomOf(a, of) => IsRoomOf(a, of)'
  BY DEF IsRoomOf, Keeps
<1>6. Owner(j.c, j.public) => Owner(j.c, j.public)'
  BY <1>2, <1>4
<1>7. \A c \in Channel : Exists(c) => Exists(c)' /\ channel'[c].team = channel[c].team
  BY DEF Keeps
<1>8. teamKey[j.t] # None => teamKey'[j.t] # None
  BY <1>2 DEF Keeps
<1>. QED  BY <1>1, <1>2, <1>3, <1>4, <1>5, <1>7, <1>8 DEF JobOK, Owner

\* One more alias for each thing that is counted.
LEMMA Grows ==
    ASSUME NEW c \in Channel, Few(c), Sum \in Nat, Sum' \in Nat, Sum' >= Sum,
           \/ Asked(c)' \subseteq Asked(c)
           \/ Sum' > Sum /\ \E a : Asked(c)' \subseteq Asked(c) \cup {a}
    PROVE  Few(c)'
<1>1. PICK a : Asked(c)' \subseteq Asked(c) \cup {a} /\ (Sum' > Sum \/ Asked(c)' \subseteq Asked(c))
  OBVIOUS
<1>. DEFINE A == Asked(c)
            B == A \cup {a}
<1>2. /\ IsFiniteSet(A) /\ IsFiniteSet(B)
      /\ Cardinality(A) \in Nat /\ Cardinality(B) \in Nat /\ Cardinality(B) <= Cardinality(A) + 1
  <2>1. IsFiniteSet(A)
    BY DEF Few
  <2>. HIDE DEF A
  <2>2. IsFiniteSet(B) /\ Cardinality(B) = IF a \in A THEN Cardinality(A) ELSE Cardinality(A) + 1
    BY <2>1, FS_AddElement
  <2>3. Cardinality(A) \in Nat
    BY <2>1, FS_CardinalityType
  <2>. QED  BY <2>1, <2>2, <2>3
<1>3. IsFiniteSet(Asked(c)') /\ Cardinality(Asked(c)') \in Nat
      /\ Cardinality(Asked(c)') <= Cardinality(Asked(c) \cup {a})
  BY <1>1, <1>2, FS_Subset, FS_CardinalityType
<1>4. CASE Asked(c)' \subseteq Asked(c)
  <2>1. Cardinality(Asked(c)') <= Cardinality(Asked(c))
    BY <1>4, FS_Subset DEF Few
  <2>. QED  BY <1>2, <1>3, <2>1 DEF Few
<1>5. CASE Sum' > Sum
  BY <1>2, <1>3, <1>5 DEF Few
<1>. QED  BY <1>1, <1>4, <1>5

LEMMA StepInv ==
    ASSUME IInv, World', Keeps, Modest, NEW s \in Slot, Stays(s),
           job'[s] # Idle => JobOK(job[s])',
           job'[s] # Idle /\ job'[s].pc \in {"team", "room"} => Wish(job'[s]) \in Asked(job'[s].c) \/ Sum' > Sum
    PROVE  IInv'
<1>1. JobType'
  BY DEF Stays
<1>2. Jobs'
  BY OthersKnow DEF Jobs, Stays
<1>3. ASSUME NEW c \in Channel  PROVE Few(c)'
  <2>. DEFINE W == {Wish(job'[s])}
              wants == job'[s] # Idle /\ job'[s].pc \in {"team", "room"} /\ job'[s].c = c
  <2>1. \A o \in Slot \ {s} : Wish(job[o])' = Wish(job[o]) /\ job'[o] = job[o]
    BY DEF Stays, Wish
  <2>2. Wanted(c)' \subseteq Wanted(c) \cup (IF wants THEN W ELSE {})
    BY <2>1 DEF Wanted, Wish
  <2>3. Asked(c)' \subseteq Asked(c) \cup (IF wants THEN W ELSE {})
    BY <2>2 DEF Modest, Asked
  <2>4. wants => W \subseteq Asked(c) \/ Sum' > Sum
    OBVIOUS
  <2>5. Asked(c)' \subseteq Asked(c) \/ (Sum' > Sum /\ \E a : Asked(c)' \subseteq Asked(c) \cup {a})
    BY <2>3, <2>4
  <2>. QED  BY <2>5, Grows DEF IInv, Counted, Modest
<1>. QED  BY <1>1, <1>2, <1>3 DEF IInv, Counted

-----------------------------------------------------------------------------
(* The counters, and steps that leave the world alone. *)

LEMMA Counts ==
    ASSUME IInv, Fault \/ Fine, UNCHANGED counts
    PROVE  /\ jobs' \in 0..MaxJob /\ changes' \in Nat /\ faults' \in Nat /\ changes' + faults' <= MaxMishap
           /\ asked' = asked /\ asked' \subseteq Channel \X BOOLEAN
           /\ extra' \in Nat /\ extra' = extra /\ promise' \subseteq Channel
           /\ Sum \in Nat /\ Sum' \in Nat /\ Sum' >= Sum
           /\ Fault => Sum' > Sum
<1>1. /\ jobs \in 0..MaxJob /\ changes \in Nat /\ faults \in Nat /\ changes + faults <= MaxMishap
      /\ asked \subseteq Channel \X BOOLEAN /\ extra \in Nat /\ promise \subseteq Channel /\ MaxMishap \in Nat
      /\ jobs' = jobs /\ changes' = changes /\ asked' = asked /\ extra' = extra
  BY Bounds DEF IInv, World, Types, counts
<1>2. CASE Fine
  BY <1>1, <1>2 DEF Fine, Fault, Sum
<1>3. CASE Fault
  BY <1>1, <1>3 DEF Fault, Mishap, Sum
<1>. QED  BY <1>2, <1>3

LEMMA Calm ==
    ASSUME IInv, UNCHANGED <<rooms, channel>>, Sum \in Nat, Sum' \in Nat, Sum' >= Sum, asked \subseteq asked',
           \A t \in Team : teamKey[t] # None => teamKey'[t] # None
    PROVE  Keeps /\ Modest
<1>1. Keeps
  BY DEF Keeps, Exists
<1>2. \A c \in Channel : RoomsOf(c)' = RoomsOf(c) /\ Own(c)' = Own(c)
  BY DEF RoomsOf, Own, Exists, NameOf
<1>3. Modest
  BY <1>2 DEF Modest, Asked
<1>. QED  BY <1>1, <1>3

LEMMA Quiet ==
    ASSUME IInv, Fault \/ Fine, UNCHANGED counts, UNCHANGED <<mattermost, matrix, kvstore>>
    PROVE  World' /\ Keeps /\ Modest
<1>1. UNCHANGED <<team, channel, rooms, children, guests, channelKey, roomKey, teamKey>>
  BY DEF mattermost, matrix, kvstore
<1>2. Types'
  BY <1>1, Counts DEF IInv, World, Types
<1>3. LeadsHome' /\ Owned'
  BY <1>1, Counts DEF IInv, World, LeadsHome, LeadsTo, Owned, Owner, Exists
<1>4. Keeps /\ Modest
  BY <1>1, Counts, Calm
<1>. QED  BY <1>2, <1>3, <1>4 DEF World

-----------------------------------------------------------------------------
(* How jobs move. *)

Pcs == {"space", "spaceKey", "teams", "eachTeam", "listTeams", "eachList", "page", "eachChannel"} \cup AtRoom

LEMMA Moved ==
    ASSUME NEW j \in JobRecord, NEW pc \in Pcs
    PROVE  LET k == [j EXCEPT !.pc = pc]
           IN  /\ k \in JobRecord
               /\ k.pc = pc /\ k.kind = j.kind /\ k.t = j.t /\ k.c = j.c /\ k.words = j.words /\ k.public = j.public
               /\ k.offset = j.offset /\ k.mode = j.mode /\ k.teams = j.teams /\ k.channels = j.channels /\ k.page = j.page
BY DEF JobRecord, Pcs, AtRoom, Made

LEMMA Ended ==
    ASSUME IInv, World', Keeps, Modest, NEW s \in Slot, job' = [job EXCEPT ![s] = Idle]
    PROVE  IInv'
<1>1. Stays(s) /\ job'[s] = Idle
  BY Replaced DEF IInv
<1>. QED  BY <1>1, StepInv

\* A step that gives slot s a job that is not about to ask for an alias.
LEMMA JobMade ==
    ASSUME IInv, World', Keeps, Modest, NEW s \in Slot, NEW k \in JobRecord, job' = [job EXCEPT ![s] = k],
           k.kind = "create" => k.pc \in AtRoom /\ Commanded(k.c)',
           k.pc # "team", k.pc = "room" => Sum' > Sum \/ Wish(k) \in Asked(k.c),
           k.pc \in AtRoom => Owner(k.c, k.public)' /\ channel'[k.c].team = k.t,
           k.pc \in AtRoom \cup {"eachChannel"} => \A c \in k.channels : Exists(c)' /\ channel'[c].team = k.t,
           k.pc \in Made => IsRoomOf(RoomAlias(k.words), k.c)',
           k.pc = "spaceKey" => IsRoomOf(SpaceAlias(k.t), k.t)',
           k.pc = "child" => teamKey'[k.t] # None
    PROVE  IInv'
<1>1. Stays(s) /\ job'[s] = k
  BY Replaced DEF IInv
<1>2. JobOK(job[s])'
  BY <1>1 DEF JobOK, Owner, IsRoomOf, Exists, Commanded
<1>3. job'[s].pc \in {"team", "room"} => Wish(job'[s]) \in Asked(job'[s].c) \/ Sum' > Sum
  BY <1>1
<1>. QED  BY <1>1, <1>2, <1>3, StepInv

\* What a job at a room knows lasts.  (Here and below j is the job before the
\* step.)
LEMMA AtRoomLasts ==
    ASSUME IInv, Keeps, NEW s \in Slot, NEW j, j = job[s], j.pc \in AtRoom
    PROVE  /\ Owner(j.c, j.public)' /\ channel'[j.c].team = j.t
           /\ j.kind = "create" => Commanded(j.c)'
           /\ \A c \in j.channels : Exists(c)' /\ channel'[c].team = j.t
           /\ j.pc \in Made => IsRoomOf(RoomAlias(j.words), j.c)'
           /\ j.pc = "child" => teamKey'[j.t] # None
<1>1. j \in JobRecord /\ JobOK(j)
  BY Mine DEF AtRoom, Made
<1>2. j.c \in Channel /\ j.t \in Team /\ j.channels \subseteq Channel
  BY <1>1, JobFields
<1>3. Commanded(j.c) => Commanded(j.c)'
  BY DEF Commanded, Keeps
<1>. QED  BY <1>1, <1>2, <1>3 DEF JobOK, Keeps, Owner, IsRoomOf

\* A job elsewhere is none of a command's.
LEMMA Elsewhere ==
    ASSUME IInv, NEW s \in Slot, NEW j, j = job[s], j.pc # "idle", j.pc \notin AtRoom
    PROVE  j.kind # "create"
BY Mine DEF JobOK

LEMMA GotoInv ==
    ASSUME IInv, World', Keeps, Modest, NEW s \in Slot, NEW j, j = job[s], j.pc \in Pcs, NEW pc \in Pcs, Goto(s, pc),
           pc # "team", pc = "room" => Sum' > Sum,
           pc \in AtRoom <=> j.pc \in AtRoom,
           pc = "eachChannel" => j.channels = {},
           pc \in Made => j.pc \in Made \/ IsRoomOf(RoomAlias(j.words), j.c)',
           pc = "spaceKey" => IsRoomOf(SpaceAlias(j.t), j.t)',
           pc = "child" => teamKey'[j.t] # None
    PROVE  IInv'
<1>. DEFINE k == [j EXCEPT !.pc = pc]
<1>1. j \in JobRecord
  BY Mine DEF Pcs, AtRoom, Made
<1>2. /\ k \in JobRecord
      /\ k.pc = pc /\ k.kind = j.kind /\ k.t = j.t /\ k.c = j.c /\ k.words = j.words /\ k.public = j.public
      /\ k.channels = j.channels
  BY <1>1, Moved
<1>3. job' = [job EXCEPT ![s] = k]
  BY DEF Goto
<1>. HIDE DEF k
<1>4. pc \in Made => IsRoomOf(RoomAlias(j.words), j.c)'
  BY AtRoomLasts DEF AtRoom
<1>5. pc \in AtRoom => Owner(j.c, j.public)' /\ channel'[j.c].team = j.t
  BY AtRoomLasts
<1>6. pc \in AtRoom \cup {"eachChannel"} => \A c \in j.channels : Exists(c)' /\ channel'[c].team = j.t
  BY AtRoomLasts
<1>7. j.kind = "create" => j.pc \in AtRoom /\ Commanded(j.c)'
  BY Elsewhere, AtRoomLasts DEF Pcs, AtRoom, Made
<1>8. /\ k.pc # "team" /\ (k.pc = "room" => Sum' > Sum)
      /\ k.kind = "create" => k.pc \in AtRoom /\ Commanded(k.c)'
      /\ k.pc \in AtRoom => Owner(k.c, k.public)' /\ channel'[k.c].team = k.t
      /\ k.pc \in AtRoom \cup {"eachChannel"} => \A c \in k.channels : Exists(c)' /\ channel'[c].team = k.t
  BY <1>2, <1>5, <1>6, <1>7
<1>9. /\ k.pc \in Made => IsRoomOf(RoomAlias(k.words), k.c)'
      /\ k.pc = "spaceKey" => IsRoomOf(SpaceAlias(k.t), k.t)'
      /\ k.pc = "child" => teamKey'[k.t] # None
  BY <1>2, <1>4
<1>. QED  BY <1>2, <1>3, <1>8, <1>9, JobMade

LEMMA ReturnInv ==
    ASSUME IInv, World', Keeps, Modest, NEW s \in Slot, job[s].pc \in {"space", "spaceKey"} \cup AtRoom, Return(s)
    PROVE  IInv'
<1>0. PICK j : j = job[s]
  OBVIOUS
<1>. DEFINE Team1 == [j EXCEPT !.pc = "eachTeam", !.t = AnyTeam]
            Channel1 == [j EXCEPT !.pc = "eachChannel", !.words = AnyName, !.public = TRUE]
<1>1. j \in JobRecord
  BY <1>0, Mine DEF AtRoom, Made
<1>2. Team1 \in JobRecord /\ Team1.pc = "eachTeam" /\ Team1.kind = j.kind
  BY <1>1, Anys DEF JobRecord
<1>3. Channel1 \in JobRecord /\ Channel1.pc = "eachChannel" /\ Channel1.kind = j.kind /\ Channel1.t = j.t
      /\ Channel1.channels = j.channels
  BY <1>1, Anys DEF JobRecord
<1>4. \/ job' = [job EXCEPT ![s] = Idle]
      \/ job' = [job EXCEPT ![s] = Team1] /\ j.kind = "backfill"
      \/ job' = [job EXCEPT ![s] = Channel1] /\ j.kind = "backfill" /\ j.pc \in AtRoom
  BY <1>0 DEF Return
<1>. HIDE DEF Team1, Channel1
<1>5. CASE job' = [job EXCEPT ![s] = Idle]
  BY <1>5, Ended
<1>6. CASE job' = [job EXCEPT ![s] = Team1] /\ j.kind = "backfill"
  BY <1>2, <1>6, JobMade DEF AtRoom, Made
<1>7. CASE job' = [job EXCEPT ![s] = Channel1] /\ j.kind = "backfill" /\ j.pc \in AtRoom
  <2>1. \A c \in Channel1.channels : Exists(c)' /\ channel'[c].team = Channel1.t
    BY <1>0, <1>3, <1>7, AtRoomLasts
  <2>. QED  BY <1>3, <1>7, <2>1, JobMade DEF AtRoom, Made
<1>. QED  BY <1>4, <1>5, <1>6, <1>7

\* A step that gives slot s the job of making a room for a channel.
LEMMA TeamJobMade ==
    ASSUME IInv, World', Keeps, Modest, NEW s \in Slot, NEW k \in JobRecord, job' = [job EXCEPT ![s] = k],
           k.pc = "team", k.kind = "create" => Commanded(k.c)', k.words \in Name, Wish(k) \in Asked(k.c) \/ Sum' > Sum,
           Owner(k.c, k.public)', channel'[k.c].team = k.t,
           \A c \in k.channels : Exists(c)' /\ channel'[c].team = k.t
    PROVE  IInv'
<1>1. Stays(s) /\ job'[s] = k
  BY Replaced DEF IInv
<1>2. JobOK(job[s])'
  BY <1>1 DEF JobOK, Owner, Exists, Made, AtRoom, Commanded
<1>. QED  BY <1>1, <1>2, StepInv

-----------------------------------------------------------------------------
(* The steps of a goroutine: those that change no more than its job. *)

LEMMA GetTeamStep == ASSUME IInv, NEW s \in Slot, GetTeam(s) PROVE IInv'
<1>0. PICK j : j = job[s]
  OBVIOUS
<1>1. j.pc = "team" /\ j \in JobRecord /\ JobOK(j) /\ j.pc \in AtRoom /\ j.pc \in Pcs
  BY <1>0, Mine DEF GetTeam, AtRoom, Pcs
<1>2. World' /\ Keeps /\ Modest
  BY Quiet DEF GetTeam
<1>3. CASE Fault /\ Goto(s, "room")
  <2>1. Sum' > Sum
    BY <1>3, Counts DEF GetTeam
  <2>2. "room" \in Pcs
    BY DEF Pcs, AtRoom
  <2>. QED  BY <1>0, <1>1, <1>2, <1>3, <2>1, <2>2, GotoInv DEF Made, AtRoom
<1>4. CASE job' = [job EXCEPT ![s].words = TeamWords[j.t] \o j.words, ![s].pc = "room"]
  <2>. DEFINE k == [j EXCEPT !.words = TeamWords[j.t] \o j.words, !.pc = "room"]
  <2>1. TeamWords[j.t] \o j.words \in Words
    BY <1>1, JobFields, NamesAreWords DEF JobOK
  <2>2. /\ k \in JobRecord /\ k.pc = "room" /\ k.kind = j.kind /\ k.words = TeamWords[j.t] \o j.words
        /\ k.c = j.c /\ k.t = j.t /\ k.public = j.public /\ k.channels = j.channels
    BY <1>1, <2>1 DEF JobRecord
  <2>3. job' = [job EXCEPT ![s] = k]
    BY <1>0, <1>4
  <2>. HIDE DEF k
  <2>4. Wish(k) \in Asked(k.c)
    BY <1>0, <1>1, <2>2, JobFields DEF Asked, Wanted, Wish
  <2>5. k.pc \in AtRoom
    BY <2>2 DEF AtRoom
  <2>. QED  BY <1>0, <1>1, <1>2, <2>2, <2>3, <2>4, <2>5, AtRoomLasts, JobMade DEF Made
<1>. QED  BY <1>0, <1>3, <1>4 DEF GetTeam

LEMMA FindSpaceStep == ASSUME IInv, NEW s \in Slot, FindSpace(s) PROVE IInv'
<1>0. PICK j : j = job[s]
  OBVIOUS
<1>1. j.pc = "find" /\ j.pc \in Made /\ j.pc \in AtRoom /\ j.pc \in Pcs /\ "child" \in Pcs
  BY <1>0 DEF FindSpace, Made, AtRoom, Pcs
<1>2. World' /\ Keeps /\ Modest
  BY Quiet DEF FindSpace
<1>3. CASE Return(s)
  BY <1>0, <1>1, <1>2, <1>3, ReturnInv
<1>4. CASE teamKey[j.t] # None /\ Goto(s, "child")
  <2>1. teamKey'[j.t] # None
    BY <1>4 DEF FindSpace, kvstore
  <2>. QED  BY <1>0, <1>1, <1>2, <1>4, <2>1, GotoInv DEF AtRoom, Made
<1>. QED  BY <1>0, <1>3, <1>4 DEF FindSpace

LEMMA ListTeamsStep == ASSUME IInv, NEW s \in Slot, ListTeams(s) PROVE IInv'
<1>0. PICK j : j = job[s]
  OBVIOUS
<1>1. j.pc \in {"teams", "listTeams"} /\ j \in JobRecord /\ j.pc \in Pcs /\ j.kind # "create"
  BY <1>0, Mine, Elsewhere DEF ListTeams, Pcs, AtRoom, Made
<1>2. World' /\ Keeps /\ Modest
  BY Quiet DEF ListTeams
<1>3. PICK pc \in {"eachTeam", "eachList"} : Goto(s, pc) \/ job' = [job EXCEPT ![s].teams = team, ![s].pc = pc]
  BY DEF ListTeams
<1>4. pc \in Pcs /\ pc \notin AtRoom
  BY DEF Pcs, AtRoom, Made
<1>5. CASE Goto(s, pc)
  BY <1>0, <1>1, <1>2, <1>4, <1>5, GotoInv DEF AtRoom, Made, Pcs
<1>6. CASE job' = [job EXCEPT ![s].teams = team, ![s].pc = pc]
  <2>. DEFINE k == [j EXCEPT !.teams = team, !.pc = pc]
  <2>1. k \in JobRecord /\ k.pc = pc /\ k.kind # "create"
    BY <1>1 DEF JobRecord, IInv, World, Types
  <2>2. job' = [job EXCEPT ![s] = k]
    BY <1>0, <1>6
  <2>. HIDE DEF k
  <2>. QED  BY <1>2, <1>4, <2>1, <2>2, JobMade DEF AtRoom
<1>. QED  BY <1>3, <1>5, <1>6

LEMMA SyncTeamStep == ASSUME IInv, NEW s \in Slot, SyncTeam(s) PROVE IInv'
<1>0. PICK j : j = job[s]
  OBVIOUS
<1>1. j.pc = "eachTeam" /\ j \in JobRecord /\ j.pc \in Pcs /\ "listTeams" \in Pcs /\ j.kind # "create"
  BY <1>0, Mine, Elsewhere DEF SyncTeam, Pcs, AtRoom, Made
<1>2. World' /\ Keeps /\ Modest
  BY Quiet DEF SyncTeam
<1>3. CASE Goto(s, "listTeams")
  BY <1>0, <1>1, <1>2, <1>3, GotoInv DEF AtRoom, Made
<1>4. CASE job' = [job EXCEPT ![s] = Idle]
  BY <1>2, <1>4, Ended
<1>5. ASSUME NEW t \in j.teams,
             \/ job' = [job EXCEPT ![s].teams = @ \ {t}, ![s].t = t, ![s].pc = "space"]
             \/ job' = [job EXCEPT ![s].teams = @ \ {t}]
      PROVE  IInv'
  <2>1. t \in Team /\ j.teams \ {t} \subseteq Team
    BY <1>1, JobFields
  <2>. DEFINE k == [j EXCEPT !.teams = @ \ {t}, !.t = t, !.pc = "space"]
              l == [j EXCEPT !.teams = @ \ {t}]
  <2>2. /\ k \in JobRecord /\ k.pc = "space" /\ k.kind # "create"
        /\ l \in JobRecord /\ l.pc = "eachTeam" /\ l.kind # "create"
    BY <1>1, <2>1 DEF JobRecord
  <2>3. job' = [job EXCEPT ![s] = k] \/ job' = [job EXCEPT ![s] = l]
    BY <1>0, <1>5
  <2>. HIDE DEF k, l
  <2>. QED  BY <1>2, <2>2, <2>3, JobMade DEF AtRoom, Made
<1>6. j.teams # {} => (CHOOSE u \in j.teams : TRUE) \in j.teams
  OBVIOUS
<1>. QED  BY <1>0, <1>3, <1>4, <1>5, <1>6 DEF SyncTeam

LEMMA NextTeamStep == ASSUME IInv, NEW s \in Slot, NextTeam(s) PROVE IInv'
<1>0. PICK j : j = job[s]
  OBVIOUS
<1>1. j.pc = "eachList" /\ j \in JobRecord /\ j.kind # "create"
  BY <1>0, Mine, Elsewhere DEF NextTeam, AtRoom, Made
<1>2. World' /\ Keeps /\ Modest
  <2>1. Fine /\ UNCHANGED counts /\ UNCHANGED <<mattermost, matrix, kvstore>>
    BY DEF NextTeam, history, Fine, counts
  <2>. QED  BY <2>1, Quiet
<1>3. CASE job' = [job EXCEPT ![s] = Idle]
  BY <1>2, <1>3, Ended
<1>4. ASSUME NEW t \in j.teams, job' = [job EXCEPT ![s].teams = @ \ {t}, ![s].t = t, ![s].page = 0, ![s].pc = "page"]
      PROVE  IInv'
  <2>1. t \in Team /\ j.teams \ {t} \subseteq Team
    BY <1>1, JobFields
  <2>. DEFINE k == [j EXCEPT !.teams = @ \ {t}, !.t = t, !.page = 0, !.pc = "page"]
  <2>2. k \in JobRecord /\ k.pc = "page" /\ k.kind # "create"
    BY <1>1, <2>1 DEF JobRecord
  <2>3. job' = [job EXCEPT ![s] = k]
    BY <1>0, <1>4
  <2>. HIDE DEF k
  <2>. QED  BY <1>2, <2>2, <2>3, JobMade DEF AtRoom, Made
<1>5. j.teams # {} => (CHOOSE u \in j.teams : TRUE) \in j.teams
  OBVIOUS
<1>. QED  BY <1>0, <1>3, <1>4, <1>5 DEF NextTeam

LEMMA ListChannelsStep == ASSUME IInv, NEW s \in Slot, ListChannels(s) PROVE IInv'
<1>0. PICK j : j = job[s]
  OBVIOUS
<1>1. j.pc = "page" /\ j \in JobRecord /\ j.pc \in Pcs /\ "eachList" \in Pcs /\ j.kind # "create"
  BY <1>0, Mine, Elsewhere DEF ListChannels, Pcs, AtRoom, Made
<1>2. World' /\ Keeps /\ Modest
  BY Quiet DEF ListChannels
<1>3. CASE Goto(s, "eachList")
  BY <1>0, <1>1, <1>2, <1>3, GotoInv DEF AtRoom, Made
<1>. DEFINE public == {c \in Channel : Live(c) /\ ~channel[c].private /\ channel[c].team = job[s].t}
            all == {c \in public : Cardinality({d \in public : d < c}) \div PageSize = job[s].page}
<1>4. CASE job' = [job EXCEPT ![s].channels = all, ![s].page = @ + 1,
                              ![s].pc = IF all = {} THEN "eachList" ELSE "eachChannel"]
  <2>1. PICK found : found = all
    OBVIOUS
  <2>2. found \subseteq Channel /\ \A c \in found : Exists(c) /\ channel[c].team = j.t
    BY <1>0, <2>1 DEF Live
  <2>. HIDE DEF all
  <2>3. PICK pc \in {"eachList", "eachChannel"} : pc = IF found = {} THEN "eachList" ELSE "eachChannel"
    OBVIOUS
  <2>. DEFINE k == [j EXCEPT !.channels = found, !.page = j.page + 1, !.pc = pc]
  <2>4. j.page + 1 \in Nat /\ found \subseteq Channel
    BY <1>1, <2>2, JobFields
  <2>5. k \in JobRecord
    BY <1>1, <2>4 DEF JobRecord
  <2>6. k.pc = pc /\ k.channels = found /\ k.t = j.t /\ k.kind # "create"
    BY <1>1 DEF JobRecord
  <2>7. job' = [job EXCEPT ![s] = k]
    BY <1>0, <1>4, <2>1, <2>3
  <2>. HIDE DEF k
  <2>8. UNCHANGED channel
    BY DEF ListChannels, mattermost
  <2>9. \A c \in k.channels : Exists(c)' /\ channel'[c].team = k.t
    BY <2>2, <2>6, <2>8 DEF Exists
  <2>. QED  BY <1>2, <2>5, <2>6, <2>7, <2>9, JobMade DEF AtRoom, Made
<1>5. \/ Goto(s, "eachList")
      \/ job' = [job EXCEPT ![s].channels = all, ![s].page = @ + 1,
                            ![s].pc = IF all = {} THEN "eachList" ELSE "eachChannel"]
  BY DEF ListChannels
<1>. QED  BY <1>3, <1>4, <1>5

LEMMA SyncChannelStep == ASSUME IInv, NEW s \in Slot, SyncChannel(s) PROVE IInv'
<1>0. PICK j : j = job[s]
  OBVIOUS
<1>1. j.pc = "eachChannel" /\ j \in JobRecord /\ JobOK(j) /\ j.pc \in Pcs /\ "page" \in Pcs /\ j.kind # "create"
  BY <1>0, Mine, Elsewhere DEF SyncChannel, Pcs, AtRoom, Made
<1>2. World' /\ Keeps /\ Modest /\ UNCHANGED channel
  BY Quiet DEF SyncChannel, mattermost
<1>3. CASE Goto(s, "page")
  BY <1>0, <1>1, <1>2, <1>3, GotoInv DEF AtRoom, Made
<1>4. ASSUME NEW c \in j.channels, NEW pc \in {"team", "eachChannel"},
             job' = [job EXCEPT ![s].channels = @ \ {c}, ![s].c = c, ![s].pc = pc,
                                ![s].words = channel[c].name, ![s].public = ~channel[c].private]
      PROVE  IInv'
  <2>1. PICK name, public : name = channel[c].name /\ public = ~channel[c].private
    OBVIOUS
  <2>2. c \in Channel /\ Exists(c) /\ channel[c].team = j.t
    BY <1>1, JobFields DEF JobOK
  <2>3. name \in Name /\ name \in Words /\ public \in BOOLEAN /\ channel[c].private \in BOOLEAN
    BY <2>1, <2>2, ChannelFields, NamesAreWords DEF IInv, World
  <2>. DEFINE k == [j EXCEPT !.channels = @ \ {c}, !.c = c, !.pc = pc, !.words = name, !.public = public]
  <2>4. /\ k \in JobRecord /\ k.pc = pc /\ k.c = c /\ k.t = j.t /\ k.words = name /\ k.public = public
        /\ k.channels = j.channels \ {c} /\ k.kind # "create"
    BY <1>1, <2>2, <2>3 DEF JobRecord
  <2>5. job' = [job EXCEPT ![s] = k]
    BY <1>0, <1>4, <2>1
  <2>. HIDE DEF k
  <2>6. \A d \in k.channels : Exists(d)' /\ channel'[d].team = k.t
    BY <1>1, <1>2, <2>4 DEF JobOK, Exists
  <2>7. CASE pc = "eachChannel"
    BY <1>2, <2>4, <2>5, <2>6, <2>7, JobMade DEF AtRoom, Made
  <2>8. CASE pc = "team"
    <3>1. Owner(k.c, k.public)' /\ channel'[k.c].team = k.t
      BY <1>2, <2>1, <2>2, <2>4 DEF Owner, Exists
    <3>2. Wish(k) \in Asked(k.c)
      BY <2>1, <2>2, <2>4, <2>8 DEF Wish, Asked, Own, NameOf
    <3>. QED  BY <1>2, <2>3, <2>4, <2>5, <2>6, <2>8, <3>1, <3>2, TeamJobMade
  <2>. QED  BY <2>7, <2>8
<1>. QED  BY <1>0, <1>3, <1>4 DEF SyncChannel


-----------------------------------------------------------------------------
(* The steps that change what is stored, the members or the spaces. *)

\* Rooms and channels are as they were.
LEMMA Stored ==
    ASSUME IInv, Fault \/ Fine, UNCHANGED counts, UNCHANGED <<mattermost, rooms>>,
           children' \subseteq Alias \X Identifier, guests' \subseteq Alias \X Member,
           channelKey' \in [Channel -> Identifier \cup {None}], teamKey' \in [Team -> Alias \cup {None}],
           DOMAIN roomKey' \subseteq Identifier, \A a \in DOMAIN roomKey' : roomKey'[a] \in Channel,
           \A t \in Team : teamKey[t] # None => teamKey'[t] # None,
           LeadsHome'
    PROVE  World' /\ Keeps /\ Modest
<1>1. UNCHANGED <<team, channel>>
  BY DEF mattermost
<1>2. Types'
  BY <1>1, Counts DEF IInv, World, Types
<1>3. Owned'
  BY <1>1, Counts DEF IInv, World, Owned, Owner, Exists
<1>4. Keeps /\ Modest
  BY <1>1, Counts, Calm
<1>. QED  BY <1>2, <1>3, <1>4 DEF World

\* What is stored leads home for good.
LEMMA LeadsStill ==
    ASSUME IInv, Fault \/ Fine, UNCHANGED counts, UNCHANGED rooms
    PROVE  \A i, c : LeadsTo(i, c)' = LeadsTo(i, c)
BY Counts DEF LeadsTo

LEMMA RoomFacts ==
    ASSUME IInv, NEW s \in Slot, NEW j, j = job[s], j.pc \in Made
    PROVE  /\ j \in JobRecord /\ j.pc \in AtRoom /\ j.pc \in Pcs /\ j.c \in Channel /\ j.t \in Team
           /\ RoomAlias(j.words) \in Alias /\ IsRoomOf(RoomAlias(j.words), j.c)
           /\ Returned(j) \in Identifier /\ Returned(j) # None /\ LeadsTo(Returned(j), j.c)
<1>1. j \in JobRecord /\ JobOK(j)
  BY Mine DEF Made
<1>2. Returned(j) \in Identifier /\ Returned(j) # None /\ Returned(j).alias = RoomAlias(j.words)
  BY <1>1, IdentifierFacts
<1>3. Returned(j).domain = Domain("hook") \/ Commanded(j.c)
  BY <1>1 DEF JobOK, Returned, Domain
<1>4. IsRoomOf(RoomAlias(j.words), j.c)
  BY <1>1 DEF JobOK
<1>5. LeadsTo(Returned(j), j.c)
  BY <1>2, <1>3, <1>4 DEF LeadsTo, IsRoomOf, Commanded
<1>. QED  BY <1>1, <1>2, <1>4, <1>5, JobFields, AliasFacts DEF AtRoom, Pcs

LEMMA StoreTeamStep == ASSUME IInv, NEW s \in Slot, StoreTeam(s) PROVE IInv'
<1>0. PICK j : j = job[s]
  OBVIOUS
<1>1. j.pc = "spaceKey" /\ j \in JobRecord /\ JobOK(j)
  BY <1>0, Mine DEF StoreTeam
<1>2. j.t \in Team /\ SpaceAlias(j.t) \in Alias /\ SpaceAlias(j.t) # None /\ IsRoomOf(SpaceAlias(j.t), j.t)
  BY <1>1, JobFields, AliasFacts DEF JobOK
<1>3. /\ UNCHANGED <<mattermost, rooms, children, guests, channelKey, roomKey, counts>> /\ (Fault \/ Fine)
      /\ teamKey' = [teamKey EXCEPT ![j.t] = SpaceAlias(j.t)] \/ teamKey' = teamKey
  BY <1>0 DEF StoreTeam, matrix
<1>4. Types /\ LeadsHome
  BY DEF IInv, World
<1>5. /\ teamKey' \in [Team -> Alias \cup {None}]
      /\ \A t \in Team : teamKey'[t] \in {teamKey[t], SpaceAlias(t)}
      /\ \A t \in Team \ {j.t} : teamKey'[t] = teamKey[t]
  BY <1>2, <1>3, <1>4 DEF Types
<1>6. LeadsHome'
  BY <1>2, <1>3, <1>4, <1>5, LeadsStill DEF LeadsHome, IsRoomOf
<1>7. \A t \in Team : teamKey[t] # None => teamKey'[t] # None
  BY <1>5, AliasFacts
<1>8. World' /\ Keeps /\ Modest
  BY <1>3, <1>4, <1>5, <1>6, <1>7, Stored DEF Types
<1>. QED  BY <1>0, <1>1, <1>8, ReturnInv DEF StoreTeam

LEMMA StoreForwardStep == ASSUME IInv, NEW s \in Slot, StoreForward(s) PROVE IInv'
<1>0. PICK j : j = job[s]
  OBVIOUS
<1>1. j.pc = "forward" /\ j.pc \in Made /\ "reverse" \in Made /\ "reverse" \in Pcs
  BY <1>0 DEF StoreForward, Made, AtRoom, Pcs
<1>2. /\ j \in JobRecord /\ j.pc \in AtRoom /\ j.pc \in Pcs /\ j.c \in Channel
      /\ Returned(j) \in Identifier /\ Returned(j) # None /\ LeadsTo(Returned(j), j.c)
  BY <1>0, <1>1, RoomFacts
<1>3. /\ UNCHANGED <<mattermost, rooms, children, guests, teamKey, roomKey, counts>> /\ (Fault \/ Fine)
      /\ channelKey' = [channelKey EXCEPT ![j.c] = Returned(j)] \/ channelKey' = channelKey
  BY <1>0 DEF StoreForward, matrix
<1>4. Types /\ LeadsHome
  BY DEF IInv, World
<1>5. /\ channelKey' \in [Channel -> Identifier \cup {None}] /\ \A c \in Channel \ {j.c} : channelKey'[c] = channelKey[c]
      /\ channelKey'[j.c] \in {channelKey[j.c], Returned(j)}
  BY <1>2, <1>3, <1>4 DEF Types
<1>6. LeadsHome'
  BY <1>2, <1>3, <1>4, <1>5, LeadsStill DEF LeadsHome
<1>7. World' /\ Keeps /\ Modest
  BY <1>3, <1>4, <1>5, <1>6, Stored DEF Types
<1>8. CASE Return(s)
  BY <1>0, <1>2, <1>7, <1>8, ReturnInv
<1>9. CASE Goto(s, "reverse")
  BY <1>0, <1>1, <1>2, <1>7, <1>9, GotoInv DEF AtRoom
<1>. QED  BY <1>8, <1>9 DEF StoreForward

LEMMA StoreReverseStep == ASSUME IInv, NEW s \in Slot, StoreReverse(s) PROVE IInv'
<1>0. PICK j : j = job[s]
  OBVIOUS
<1>1. j.pc = "reverse" /\ j.pc \in Made /\ "find" \in Made /\ "find" \in Pcs
  BY <1>0 DEF StoreReverse, Made, AtRoom, Pcs
<1>2. /\ j \in JobRecord /\ j.pc \in AtRoom /\ j.pc \in Pcs /\ j.c \in Channel
      /\ Returned(j) \in Identifier /\ Returned(j) # None /\ LeadsTo(Returned(j), j.c)
  BY <1>0, <1>1, RoomFacts
<1>. DEFINE a == Returned(j)
<1>3. /\ UNCHANGED <<mattermost, rooms, children, guests, teamKey, channelKey, counts>> /\ (Fault \/ Fine)
      /\ roomKey' = Put(roomKey, a, j.c) \/ roomKey' = roomKey
  BY <1>0 DEF StoreReverse, matrix
<1>4. Types /\ LeadsHome
  BY DEF IInv, World
<1>5. /\ DOMAIN roomKey' \subseteq DOMAIN roomKey \cup {a}
      /\ \A b \in DOMAIN roomKey' : (roomKey'[b] = roomKey[b] /\ b \in DOMAIN roomKey) \/ (b = a /\ roomKey'[b] = j.c)
  <2>. HIDE DEF a
  <2>1. CASE roomKey' = roomKey
    BY <2>1
  <2>2. CASE roomKey' = Put(roomKey, a, j.c)
    BY <2>2 DEF Put
  <2>. QED  BY <1>3, <2>1, <2>2
<1>6. LeadsHome'
  BY <1>2, <1>3, <1>4, <1>5, LeadsStill DEF LeadsHome
<1>7. DOMAIN roomKey' \subseteq Identifier /\ \A b \in DOMAIN roomKey' : roomKey'[b] \in Channel
  BY <1>2, <1>4, <1>5 DEF Types
<1>8. World' /\ Keeps /\ Modest
  BY <1>3, <1>4, <1>6, <1>7, Stored DEF Types
<1>9. CASE Return(s)
  BY <1>0, <1>2, <1>8, <1>9, ReturnInv
<1>10. CASE Goto(s, "find")
  BY <1>0, <1>1, <1>2, <1>8, <1>10, GotoInv DEF AtRoom
<1>. QED  BY <1>9, <1>10 DEF StoreReverse

LEMMA AddSpaceChildStep == ASSUME IInv, NEW s \in Slot, AddSpaceChild(s) PROVE IInv'
<1>0. PICK j : j = job[s]
  OBVIOUS
<1>1. j.pc = "child" /\ j.pc \in Made
  BY <1>0 DEF AddSpaceChild, Made
<1>2. j \in JobRecord /\ j.pc \in AtRoom /\ j.t \in Team /\ Returned(j) \in Identifier
  BY <1>0, <1>1, RoomFacts
<1>3. Types /\ LeadsHome /\ teamKey[j.t] # None
  BY <1>0, <1>1, Mine DEF IInv, World, JobOK
<1>4. UNCHANGED <<mattermost, rooms, guests, kvstore, counts>> /\ (Fault \/ Fine)
      /\ (children' = children \cup {<<teamKey[j.t], Returned(j)>>} \/ children' = children)
  BY <1>0 DEF AddSpaceChild
<1>5. UNCHANGED <<channelKey, roomKey, teamKey>>
  BY <1>4 DEF kvstore
<1>6. teamKey[j.t] \in Alias
  BY <1>2, <1>3 DEF Types
<1>7. children' \subseteq Alias \X Identifier
  BY <1>2, <1>3, <1>4, <1>6 DEF Types
<1>8. LeadsHome'
  BY <1>3, <1>4, <1>5, LeadsStill DEF LeadsHome
<1>9. World' /\ Keeps /\ Modest
  BY <1>3, <1>4, <1>5, <1>7, <1>8, Stored DEF Types
<1>. QED  BY <1>0, <1>2, <1>9, ReturnInv DEF AddSpaceChild

LEMMA SyncMembersStep == ASSUME IInv, NEW s \in Slot, SyncMembers(s) PROVE IInv'
<1>0. PICK j : j = job[s]
  OBVIOUS
<1>1. j.pc = "members" /\ j.pc \in Made /\ "forward" \in Made /\ "forward" \in Pcs
  BY <1>0 DEF SyncMembers, Made, AtRoom, Pcs
<1>2. j \in JobRecord /\ j.pc \in AtRoom /\ j.pc \in Pcs /\ RoomAlias(j.words) \in Alias
      /\ IsRoomOf(RoomAlias(j.words), j.c)
  BY <1>0, <1>1, RoomFacts
<1>3. Types /\ LeadsHome
  BY DEF IInv, World
<1>4. UNCHANGED <<mattermost, rooms, children, kvstore, counts>> /\ (Fault \/ Fine)
  BY DEF SyncMembers
<1>5. guests' \subseteq guests \cup ({RoomAlias(j.words)} \X Member)
  BY <1>0 DEF SyncMembers, MembersOnPage
<1>6. UNCHANGED <<channelKey, roomKey, teamKey>>
  BY <1>4 DEF kvstore
<1>7. guests' \subseteq Alias \X Member
  BY <1>2, <1>3, <1>5 DEF Types
<1>8. LeadsHome'
  BY <1>3, <1>4, <1>6, LeadsStill DEF LeadsHome
<1>9. World' /\ Keeps /\ Modest
  BY <1>3, <1>4, <1>6, <1>7, <1>8, Stored DEF Types
<1>10. CASE Goto(s, "forward")
  BY <1>0, <1>1, <1>2, <1>9, <1>10, GotoInv DEF AtRoom
<1>11. CASE job' = [job EXCEPT ![s].offset = @ + Limit]
  <2>. DEFINE k == [j EXCEPT !.offset = j.offset + Limit]
  <2>1. j.offset + Limit \in Nat
    BY <1>2, JobFields, Bounds
  <2>2. k \in JobRecord
    BY <1>2, <2>1 DEF JobRecord
  <2>3. k.pc = "members" /\ k.kind = j.kind /\ k.c = j.c /\ k.t = j.t /\ k.public = j.public /\ k.channels = j.channels /\ k.words = j.words
    BY <1>1, <1>2 DEF JobRecord
  <2>4. job' = [job EXCEPT ![s] = k]
    BY <1>0, <1>11
  <2>. HIDE DEF k
  <2>5. /\ Owner(k.c, k.public)' /\ channel'[k.c].team = k.t /\ IsRoomOf(RoomAlias(k.words), k.c)'
        /\ k.kind = "create" => Commanded(k.c)'
        /\ \A c \in k.channels : Exists(c)' /\ channel'[c].team = k.t
    BY <1>0, <1>1, <1>2, <1>9, <2>3, AtRoomLasts
  <2>6. k.pc # "team" /\ k.pc # "room" /\ k.pc # "spaceKey" /\ k.pc # "child" /\ k.pc \in AtRoom
    BY <2>3 DEF AtRoom, Made
  <2>. QED  BY <1>9, <2>2, <2>4, <2>5, <2>6, JobMade
<1>. QED  BY <1>10, <1>11 DEF SyncMembers

-----------------------------------------------------------------------------
(* The steps that make rooms and spaces. *)

\* Rooms stay whose they are, and a new one has been asked for.
LEMMA Built ==
    ASSUME IInv, Fault \/ Fine, UNCHANGED counts, UNCHANGED <<mattermost, children, guests, kvstore>>,
           DOMAIN rooms' \subseteq Alias,
           \A a \in DOMAIN rooms' : rooms'[a] \in Room /\ (rooms'[a].listed => rooms'[a].public),
           \A a \in DOMAIN rooms : a \in DOMAIN rooms' /\ rooms'[a].of = rooms[a].of /\ rooms'[a].public = rooms[a].public,
           \A a \in DOMAIN rooms' \ DOMAIN rooms :
               LET r == rooms'[a] IN r.of \in Channel => Owner(r.of, r.public) /\ a \in Asked(r.of)
    PROVE  World' /\ Keeps /\ Modest
<1>1. UNCHANGED <<team, channel, channelKey, roomKey, teamKey>>
  BY DEF mattermost, kvstore
<1>2. Types /\ LeadsHome /\ Owned
  BY DEF IInv, World
<1>3. Types'
  BY <1>1, <1>2, Counts DEF Types
<1>4. LeadsHome'
  <2>1. \A i, c : LeadsTo(i, c) => LeadsTo(i, c)'
    BY Counts DEF LeadsTo
  <2>. QED  BY <1>1, <1>2, <2>1 DEF LeadsHome
<1>5. \A c, public : Owner(c, public) => Owner(c, public)'
  BY <1>1, Counts DEF Owner, Exists
<1>6. Owned'
  <2>. SUFFICES ASSUME NEW a \in DOMAIN rooms', rooms'[a].of \in Channel
                PROVE  Owner(rooms[a].of, rooms[a].public)'
    BY DEF Owned
  <2>1. CASE a \in DOMAIN rooms
    <3>1. Owner(rooms[a].of, rooms[a].public)
      BY <1>2, <2>1 DEF Owned
    <3>. QED  BY <1>1, <2>1, <3>1, Counts DEF Owner, Exists
  <2>2. CASE a \notin DOMAIN rooms
    BY <1>1, <2>2, Counts DEF Owner, Exists
  <2>. QED  BY <2>1, <2>2
<1>7. Keeps
  BY <1>1, <1>2, Counts DEF Keeps, Exists
<1>8. \A c \in Channel : RoomsOf(c)' \subseteq Asked(c)
  BY DEF RoomsOf, Asked
<1>9. \A c \in Channel : Own(c)' \subseteq Asked(c)
  BY <1>1 DEF Own, Asked, Exists, NameOf
<1>. QED  BY <1>3, <1>4, <1>6, <1>7, <1>8, <1>9, Counts DEF World, Modest

LEMMA Added ==
    ASSUME IInv, Fault \/ Fine, UNCHANGED counts, UNCHANGED <<mattermost, children, guests, kvstore>>,
           NEW a \in Alias, a \notin DOMAIN rooms, NEW r \in Room, ~r.listed,
           r.of \in Channel => Owner(r.of, r.public) /\ a \in Asked(r.of),
           rooms' = Put(rooms, a, r)
    PROVE  World' /\ Keeps /\ Modest /\ IsRoomOf(a, r.of)'
<1>1. /\ DOMAIN rooms' = DOMAIN rooms \cup {a} /\ rooms'[a] = r
      /\ \A b \in DOMAIN rooms : rooms'[b] = rooms[b]
  BY DEF Put
<1>2. Types
  BY DEF IInv, World
<1>3. World' /\ Keeps /\ Modest
  BY <1>1, <1>2, Built DEF Types
<1>. QED  BY <1>1, <1>3 DEF IsRoomOf

\* Making a room or a space may have no effect.
LEMMA Unbuilt ==
    ASSUME IInv, Fault \/ Fine, UNCHANGED counts, UNCHANGED <<mattermost, children, guests, kvstore>>, UNCHANGED rooms
    PROVE  World' /\ Keeps /\ Modest
BY Quiet DEF matrix

LEMMA CreateSpaceStep == ASSUME IInv, NEW s \in Slot, CreateSpace(s) PROVE IInv'
<1>0. PICK j : j = job[s]
  OBVIOUS
<1>1. j.pc = "space" /\ j \in JobRecord /\ j.pc \in Pcs /\ "spaceKey" \in Pcs
  BY <1>0, Mine DEF CreateSpace, Pcs
<1>. DEFINE a == SpaceAlias(j.t)
<1>2. j.t \in Team /\ j.t \notin Channel /\ a \in Alias
  BY <1>1, JobFields, AliasFacts, TeamSpacesAssumption
<1>3. (Fault \/ Fine) /\ UNCHANGED counts /\ UNCHANGED <<mattermost, children, guests, kvstore>>
  BY DEF CreateSpace
<1>4. \/ Return(s) /\ UNCHANGED rooms
      \/ \E r \in {New(j.t, TRUE), Joined(New(j.t, TRUE))} :
            a \notin DOMAIN rooms /\ rooms' = Put(rooms, a, r) /\ (Return(s) \/ Goto(s, "spaceKey"))
  BY <1>0 DEF CreateSpace
<1>5. CASE Return(s) /\ UNCHANGED rooms
  BY <1>0, <1>1, <1>3, <1>5, Unbuilt, ReturnInv
<1>6. ASSUME NEW r \in {New(j.t, TRUE), Joined(New(j.t, TRUE))}, a \notin DOMAIN rooms, rooms' = Put(rooms, a, r),
             Return(s) \/ Goto(s, "spaceKey")
      PROVE  IInv'
  <2>1. r \in Room /\ ~r.listed /\ r.of = j.t
    <3>1. New(j.t, TRUE) \in Room /\ ~New(j.t, TRUE).listed /\ New(j.t, TRUE).of = j.t
      BY <1>2 DEF Room, New
    <3>2. PICK q : q = New(j.t, TRUE) /\ r \in {q, Joined(q)}
      BY <1>6
    <3>. QED  BY <3>1, <3>2 DEF Room, Joined
  <2>. HIDE DEF a
  <2>2. World' /\ Keeps /\ Modest /\ IsRoomOf(a, j.t)'
    BY <1>2, <1>3, <1>6, <2>1, Added
  <2>3. CASE Return(s)
    BY <1>0, <1>1, <2>2, <2>3, ReturnInv
  <2>4. CASE Goto(s, "spaceKey")
    BY <1>0, <1>1, <2>2, <2>4, GotoInv DEF a, AtRoom, Made
  <2>. QED  BY <1>6, <2>3, <2>4
<1>. QED  BY <1>4, <1>5, <1>6

LEMMA CreateRoomStep == ASSUME IInv, NEW s \in Slot, CreateRoom(s) PROVE IInv'
<1>0. PICK j : j = job[s]
  OBVIOUS
<1>1. j.pc = "room" /\ j \in JobRecord /\ JobOK(j) /\ j.pc \in AtRoom /\ j.pc \in Pcs /\ "open" \in Pcs
  BY <1>0, Mine DEF CreateRoom, Pcs, AtRoom, Made
<1>. DEFINE a == RoomAlias(j.words)
            r == New(j.c, j.public)
<1>2. /\ j.c \in Channel /\ a \in Alias /\ Owner(j.c, j.public)
      /\ r \in Room /\ ~r.listed /\ r.of = j.c /\ r.public = j.public
  BY <1>1, JobFields, AliasFacts DEF JobOK, New, Room
<1>3. a \in Asked(j.c)
  BY <1>0, <1>1 DEF Asked, Wanted, Wish, Idle
<1>4. (Fault \/ Fine) /\ UNCHANGED counts /\ UNCHANGED <<mattermost, children, guests, kvstore>>
  BY DEF CreateRoom
<1>5. \/ Return(s) /\ UNCHANGED rooms
      \/ a \notin DOMAIN rooms /\ rooms' = Put(rooms, a, r) /\ (Return(s) \/ Goto(s, "open"))
  BY <1>0 DEF CreateRoom
<1>. HIDE DEF a, r
<1>6. CASE Return(s) /\ UNCHANGED rooms
  BY <1>0, <1>1, <1>4, <1>6, Unbuilt, ReturnInv
<1>7. CASE a \notin DOMAIN rooms /\ rooms' = Put(rooms, a, r) /\ (Return(s) \/ Goto(s, "open"))
  <2>1. World' /\ Keeps /\ Modest /\ IsRoomOf(a, j.c)'
    BY <1>2, <1>3, <1>4, <1>7, Added
  <2>2. CASE Return(s)
    BY <1>0, <1>1, <2>1, <2>2, ReturnInv
  <2>3. CASE Goto(s, "open")
    BY <1>0, <1>1, <2>1, <2>3, GotoInv DEF a, AtRoom, Made
  <2>. QED  BY <1>7, <2>2, <2>3
<1>. QED  BY <1>5, <1>6, <1>7

LEMMA OpenStep == ASSUME IInv, NEW s \in Slot, Open(s) PROVE IInv'
<1>0. PICK j : j = job[s]
  OBVIOUS
<1>1. j.pc = "open" /\ j.pc \in Made /\ {"members", "forward"} \subseteq Made /\ {"members", "forward"} \subseteq Pcs
  BY <1>0 DEF Open, Made, AtRoom, Pcs
<1>2. j \in JobRecord /\ j.pc \in AtRoom /\ j.pc \in Pcs /\ RoomAlias(j.words) \in Alias
      /\ IsRoomOf(RoomAlias(j.words), j.c)
  BY <1>0, <1>1, RoomFacts
<1>3. PICK a, r, kind : a = RoomAlias(j.words) /\ r = rooms[a] /\ kind = j.kind
  OBVIOUS
<1>4. r \in Room /\ (r.listed => r.public) /\ a \in DOMAIN rooms
  BY <1>2, <1>3 DEF IInv, World, Types, IsRoomOf
<1>5. (Fault \/ Fine) /\ UNCHANGED counts /\ UNCHANGED <<mattermost, children, guests, kvstore>>
  BY DEF Open
<1>6. PICK o \in {Tagged(Published(Joined(r)), kind), Tagged(Published(r), kind), Tagged(Joined(r), kind),
                  Published(Joined(r))} :
          rooms' = [rooms EXCEPT ![a] = o]
  BY <1>0, <1>3 DEF Open
<1>7. o \in Room /\ o.of = r.of /\ o.public = r.public /\ (o.listed => o.public)
  BY <1>4, <1>6 DEF Tagged, Published, Joined, Room
<1>8. /\ DOMAIN rooms' = DOMAIN rooms /\ rooms'[a] = o
      /\ \A b \in DOMAIN rooms \ {a} : rooms'[b] = rooms[b]
  BY <1>4, <1>6
<1>9. World' /\ Keeps /\ Modest
  BY <1>3, <1>4, <1>5, <1>7, <1>8, Built DEF IInv, World, Types
<1>10. PICK pc \in {"members", "forward"} : Goto(s, pc)
  BY DEF Open
<1>. QED  BY <1>0, <1>1, <1>2, <1>9, <1>10, GotoInv DEF AtRoom

-----------------------------------------------------------------------------
(* Hooks and commands begin; channels change; the plugin dies. *)

Starts == {"space", "team", "teams", "listTeams"}
Modes == {"teams", "channels", "all"}
Given(s, k) == job' = [job EXCEPT ![s] = k]

LEMMA JobsBounded ==
    ASSUME IInv, NEW s, NEW pc, NEW kind, NEW t, NEW c, NEW words, NEW public, NEW mode,
           Begin(s, pc, kind, t, c, words, public, mode)
    PROVE  jobs' \in 0..MaxJob
BY Bounds DEF Begin, IInv, World, Types

LEMMA Begun ==
    ASSUME IInv, NEW s \in Slot, NEW pc \in Starts, NEW kind \in Kinds,
           NEW t \in Team, NEW c \in Channel, NEW words \in Words, NEW public \in BOOLEAN,
           NEW mode \in Modes, Begin(s, pc, kind, t, c, words, public, mode)
    PROVE  \E k \in JobRecord :
               /\ Given(s, k)
               /\ k.pc = pc /\ k.kind = kind /\ k.t = t /\ k.c = c /\ k.words = words /\ k.public = public
               /\ k.channels = {}
<1>. DEFINE k == [pc |-> pc, kind |-> kind, t |-> t, c |-> c, words |-> words, public |-> public,
                  offset |-> 0, mode |-> mode, teams |-> {}, channels |-> {}, page |-> 0]
<1>1. k \in JobRecord
  BY DEF JobRecord, Starts, Modes
<1>2. Given(s, k)
  BY DEF Begin, Given
<1>3. k.pc = pc /\ k.kind = kind /\ k.t = t /\ k.c = c /\ k.words = words /\ k.public = public /\ k.channels = {}
  OBVIOUS
<1>. HIDE DEF k
<1>. QED  BY <1>1, <1>2, <1>3

LEMMA SumsGrow ==
    ASSUME NEW x \in Nat, NEW y \in Nat, NEW y2 \in Nat, NEW z \in Nat, y2 >= y
    PROVE  x + y + z \in Nat /\ x + y2 + z \in Nat /\ x + y2 + z >= x + y + z /\ (y2 > y => x + y2 + z > x + y + z)
OBVIOUS

\* The world when something begins, and nothing else than teams, counters and
\* the promise has changed.
LEMMA BeginWorld ==
    ASSUME IInv, UNCHANGED <<channel, matrix, kvstore, changes, faults>>, jobs' \in 0..MaxJob,
           team' \subseteq Team, promise' \subseteq Channel, extra' \in Nat, extra' >= extra,
           asked \subseteq asked', asked' \subseteq Channel \X BOOLEAN
    PROVE  World' /\ Keeps /\ Modest /\ (extra' > extra => Sum' > Sum)
<1>1. UNCHANGED <<channel, rooms, children, guests, channelKey, roomKey, teamKey, changes, faults>>
  BY DEF matrix, kvstore
<1>2. Types /\ LeadsHome /\ Owned
  BY DEF IInv, World
<1>3. Types'
  BY <1>1, <1>2 DEF Types
<1>4. LeadsHome' /\ Owned'
  <2>1. \A i, c : LeadsTo(i, c) => LeadsTo(i, c)'
    BY <1>1 DEF LeadsTo
  <2>. QED  BY <1>1, <1>2, <2>1 DEF LeadsHome, Owned, Owner, Exists
<1>5. Sum \in Nat /\ Sum' \in Nat /\ Sum' >= Sum /\ (extra' > extra => Sum' > Sum)
  <2>1. changes \in Nat /\ faults \in Nat /\ extra \in Nat /\ changes' = changes /\ faults' = faults
    BY <1>1, <1>2 DEF Types
  <2>2. PICK x \in Nat, y \in Nat, y2 \in Nat, z \in Nat :
            x = changes /\ y = extra /\ y2 = extra' /\ z = faults /\ y2 >= y
    BY <2>1
  <2>3. x + y + z \in Nat /\ x + y2 + z \in Nat /\ x + y2 + z >= x + y + z /\ (y2 > y => x + y2 + z > x + y + z)
    BY <2>2, SumsGrow
  <2>4. Sum = x + y + z /\ Sum' = x + y2 + z
    BY <2>1, <2>2 DEF Sum
  <2>. QED  BY <2>2, <2>3, <2>4
<1>6. Keeps /\ Modest
  BY <1>1, <1>5, Calm
<1>. QED  BY <1>3, <1>4, <1>5, <1>6 DEF World

LEMMA CreateTeamStep == ASSUME IInv, NEW s \in Slot, NEW t \in Team, CreateTeam(s, t) PROVE IInv'
<1>1. PICK c \in Channel, n \in Words, public \in BOOLEAN : c = AnyChannel /\ n = AnyName /\ public = TRUE
  BY Anys
<1>2. Begin(s, "space", "hook", t, c, n, public, "all") /\ "hook" \in Kinds
  BY <1>1 DEF CreateTeam, Kinds
<1>3. PICK k \in JobRecord :
          /\ Given(s, k)
          /\ k.pc = "space" /\ k.kind = "hook" /\ k.t = t /\ k.c = c /\ k.words = n /\ k.public = public /\ k.channels = {}
  BY <1>2, Begun DEF Starts, Modes
<1>4. jobs' \in 0..MaxJob
  BY <1>2, JobsBounded
<1>5. World' /\ Keeps /\ Modest
  BY <1>4, BeginWorld DEF CreateTeam, IInv, World, Types
<1>. QED  BY <1>3, <1>5, JobMade DEF Given, AtRoom, Made

LEMMA BackfillCommandStep == ASSUME IInv, NEW s \in Slot, BackfillCommand(s) PROVE IInv'
<1>1. PICK t \in Team, c \in Channel, n \in Words, public \in BOOLEAN :
          t = AnyTeam /\ c = AnyChannel /\ n = AnyName /\ public = TRUE
  BY Anys
<1>2. PICK mode \in {"teams", "channels", "all"}, pc \in {"teams", "listTeams"} :
          Begin(s, pc, "backfill", t, c, n, public, mode)
  BY <1>1 DEF BackfillCommand
<1>3. pc \in Starts /\ mode \in Modes
  BY DEF Starts, Modes
<1>4. promise' \subseteq Channel /\ "backfill" \in Kinds
  BY DEF BackfillCommand, Kinds
<1>5. PICK k \in JobRecord :
          /\ Given(s, k)
          /\ k.pc = pc /\ k.kind = "backfill" /\ k.t = t /\ k.c = c /\ k.words = n /\ k.public = public
          /\ k.channels = {}
  BY <1>2, <1>3, <1>4, Begun
<1>6. jobs' \in 0..MaxJob
  BY <1>2, JobsBounded
<1>7. World' /\ Keeps /\ Modest
  BY <1>4, <1>6, BeginWorld DEF BackfillCommand, IInv, World, Types, mattermost
<1>. QED  BY <1>2, <1>5, <1>7, JobMade DEF Given, AtRoom, Made

\* A room under the channel's own name is asked for already; another is counted.
LEMMA CreateCommandStep == ASSUME IInv, NEW s \in Slot, NEW c \in Channel, CreateCommand(s, c) PROVE IInv'
<1>1. PICK n \in Name, public \in BOOLEAN :
          /\ Begin(s, "team", "create", channel[c].team, c, n, public, "all")
          /\ asked' = asked \cup {<<c, public>>}
          /\ extra' = IF n # channel[c].name THEN extra + 1 ELSE extra
  BY DEF CreateCommand
<1>2. PICK t : t = channel[c].team
  OBVIOUS
<1>3. Begin(s, "team", "create", t, c, n, public, "all")
  BY <1>1, <1>2, Zenon
<1>4. Exists(c) /\ promise' = {} /\ UNCHANGED <<mattermost, matrix, kvstore, changes, faults>> /\ "create" \in Kinds
  BY DEF CreateCommand, Live, Kinds
<1>5. UNCHANGED <<team, channel>> /\ Types /\ t \in Team /\ n \in Words
  BY <1>2, <1>4, ChannelFields, NamesAreWords DEF mattermost, IInv, World
<1>6. PICK k \in JobRecord :
          /\ Given(s, k)
          /\ k.pc = "team" /\ k.kind = "create" /\ k.t = t /\ k.c = c /\ k.words = n /\ k.public = public
          /\ k.channels = {}
  BY <1>3, <1>4, <1>5, Begun DEF Starts, Modes
<1>7. jobs' \in 0..MaxJob
  BY <1>3, JobsBounded
<1>8. /\ extra \in Nat /\ extra' \in Nat /\ extra' >= extra /\ (n # channel[c].name => extra' > extra)
       /\ asked \subseteq asked' /\ asked' \subseteq Channel \X BOOLEAN /\ <<c, public>> \in asked'
  BY <1>1, <1>5 DEF Types
<1>9. World' /\ Keeps /\ Modest /\ (n # channel[c].name => Sum' > Sum)
  BY <1>4, <1>5, <1>7, <1>8, BeginWorld DEF Types
<1>10. Wish(k) \in Asked(k.c) \/ Sum' > Sum
  <2>1. CASE n # channel[c].name
    BY <1>9, <2>1
  <2>2. CASE n = channel[c].name
    <3>1. Wish(k) = RoomAlias(NameOf(c))
      BY <1>2, <1>6, <2>2 DEF Wish, NameOf
    <3>. QED  BY <1>4, <1>6, <3>1 DEF Asked, Own
  <2>. QED  BY <2>1, <2>2
<1>11. Owner(k.c, k.public)' /\ Commanded(k.c)' /\ channel'[k.c].team = k.t
  BY <1>2, <1>4, <1>5, <1>6, <1>8 DEF Owner, Exists, Commanded
<1>. QED  BY <1>6, <1>9, <1>10, <1>11, TeamJobMade DEF Given

\* A channel that does not exist has no room, and no goroutine works on one for
\* it.
LEMMA Unasked == ASSUME IInv, NEW c \in Channel, ~Exists(c) PROVE Asked(c) = {}
<1>1. RoomsOf(c) = {}
  BY DEF IInv, World, Owned, Owner, RoomsOf
<1>2. Wanted(c) = {}
  BY DEF IInv, Jobs, JobOK, Owner, Wanted, AtRoom
<1>. QED  BY <1>1, <1>2 DEF Asked, Own

LEMMA CreateChannelStep == ASSUME IInv, NEW s \in Slot, NEW c \in Channel, CreateChannel(s, c) PROVE IInv'
<1>1. PICK t \in team, n \in Name, private \in BOOLEAN :
          /\ channel' = [channel EXCEPT ![c] = [team |-> t, name |-> n, private |-> private, archived |-> FALSE]]
          /\ Begin(s, "team", "hook", t, c, n, ~private, "all")
  BY DEF CreateChannel
<1>2. /\ ~Exists(c) /\ promise' = {} /\ UNCHANGED <<team, matrix, kvstore, changes, asked, extra, faults>>
      /\ "hook" \in Kinds /\ (~private) \in BOOLEAN
  BY DEF CreateChannel, Kinds
<1>3. Types /\ t \in Team /\ n \in Words
  BY NamesAreWords DEF IInv, World, Types
<1>4. PICK public \in BOOLEAN : public = ~private
  BY <1>2
<1>5. Begin(s, "team", "hook", t, c, n, public, "all")
  BY <1>1, <1>4
<1>6. PICK k \in JobRecord :
          /\ Given(s, k)
          /\ k.pc = "team" /\ k.kind = "hook" /\ k.t = t /\ k.c = c /\ k.words = n /\ k.public = public
          /\ k.channels = {}
  BY <1>2, <1>3, <1>5, Begun DEF Starts, Modes
<1>7. jobs' \in 0..MaxJob
  BY <1>5, JobsBounded
<1>8. UNCHANGED <<rooms, children, guests, channelKey, roomKey, teamKey>>
  BY <1>2 DEF matrix, kvstore
<1>. DEFINE new == [team |-> t, name |-> n, private |-> private, archived |-> FALSE]
<1>9. new \in ChannelRecord /\ new # None
  BY <1>3, Records DEF ChannelRecord
<1>10. /\ channel' \in [Channel -> ChannelRecord \cup {None}] /\ channel'[c] = new
       /\ \A d \in Channel \ {c} : channel'[d] = channel[d]
  BY <1>1, <1>3, <1>9 DEF Types
<1>11. new.team = t /\ new.name = n /\ new.private = private
  OBVIOUS
<1>. HIDE DEF new
<1>12. Exists(c)' /\ \A d \in Channel : Exists(d) => d # c /\ Exists(d)' /\ channel'[d] = channel[d]
  BY <1>2, <1>9, <1>10 DEF Exists
<1>13. Types'
  BY <1>2, <1>3, <1>7, <1>8, <1>10 DEF Types
<1>14. LeadsHome'
  BY <1>2, <1>8 DEF IInv, World, LeadsHome, LeadsTo
<1>15. Owned'
  BY <1>2, <1>8, <1>12 DEF IInv, World, Owned, Owner
<1>16. Keeps
  BY <1>2, <1>3, <1>8, <1>12 DEF Keeps, Types
<1>17. Stays(s) /\ job'[s] = k
  BY <1>6, Replaced DEF IInv, Given
<1>18. JobOK(job[s])'
  BY <1>4, <1>6, <1>10, <1>11, <1>12, <1>17 DEF JobOK, Owner, Made
<1>19. Jobs'
  BY <1>16, <1>17, <1>18, OthersKnow DEF Jobs, Stays
<1>20. ASSUME NEW d \in Channel \ {c}  PROVE Few(d)'
  <2>1. RoomsOf(d)' = RoomsOf(d)
    BY <1>8 DEF RoomsOf
  <2>2. Wanted(d)' \subseteq Wanted(d)
    BY <1>6, <1>17 DEF Wanted, Wish, Stays
  <2>3. Own(d)' = Own(d)
    BY <1>10, <1>20 DEF Own, Exists, NameOf
  <2>4. Sum \in Nat /\ Sum' = Sum
    BY <1>2, <1>3 DEF Sum, Types
  <2>. QED  BY <2>1, <2>2, <2>3, <2>4, Grows DEF IInv, Counted, Asked
<1>21. Few(c)'
  <2>. DEFINE w == RoomAlias(TeamWords[t] \o n)
  <2>1. Asked(c) = {} /\ Wanted(c) = {}
    BY <1>2, Unasked DEF Asked
  <2>2. RoomsOf(c)' = {}
    BY <1>8, <2>1 DEF RoomsOf, Asked
  <2>3. Wanted(c)' \subseteq {w}
    BY <1>6, <1>17, <2>1 DEF Wanted, Wish, Stays
  <2>4. Own(c)' = {w}
    BY <1>10, <1>11, <1>12 DEF Own, NameOf
  <2>5. Asked(c)' = {w}
    BY <2>2, <2>3, <2>4 DEF Asked
  <2>6. IsFiniteSet({w}) /\ Cardinality({w}) = 1
    BY FS_Singleton
  <2>7. Sum' \in Nat
    BY <1>2, <1>3 DEF Sum, Types
  <2>. HIDE DEF w
  <2>8. IsFiniteSet(Asked(c)') /\ Cardinality(Asked(c)') = 1
    BY <2>5, <2>6
  <2>9. PICK sum \in Nat : sum = Sum'
    BY <2>7
  <2>10. 1 <= 1 + sum
    OBVIOUS
  <2>. QED  BY <2>8, <2>9, <2>10 DEF Few
<1>22. JobType' /\ Counted'
  BY <1>17, <1>20, <1>21 DEF Stays, Counted
<1>. QED  BY <1>13, <1>14, <1>15, <1>19, <1>22 DEF IInv, World

\* A new name is one more alias to ask for; archiving adds none.
LEMMA ChangeStep == ASSUME IInv, NEW c \in Channel, Change(c) PROVE IInv'
<1>1. /\ Exists(c) /\ Mishap /\ changes' = changes + 1 /\ promise' = {}
      /\ UNCHANGED <<team, matrix, kvstore, job, jobs, asked, extra, faults>>
  BY DEF Change, Live
<1>2. UNCHANGED <<rooms, children, guests, channelKey, roomKey, teamKey>>
  BY <1>1 DEF matrix, kvstore
<1>3. Types /\ channel[c] \in ChannelRecord
  BY <1>1, ChannelFields DEF IInv, World
<1>. DEFINE Replaces(r) == channel' = [channel EXCEPT ![c] = r]
            Same(r) == r.team = channel[c].team /\ r.private = channel[c].private
<1>4. PICK new \in ChannelRecord : Replaces(new) /\ Same(new)
  <2>1. CASE channel' = [channel EXCEPT ![c].archived = TRUE]
    <3>. DEFINE r == [channel[c] EXCEPT !.archived = TRUE]
    <3>1. r \in ChannelRecord /\ Same(r)
      BY <1>3 DEF ChannelRecord
    <3>2. Replaces(r)
      BY <2>1
    <3>. HIDE DEF r, Replaces, Same
    <3>. QED  BY <3>1, <3>2
  <2>2. ASSUME NEW n \in Name, channel' = [channel EXCEPT ![c].name = n]
        PROVE  \E r \in ChannelRecord : Replaces(r) /\ Same(r)
    <3>. DEFINE r == [channel[c] EXCEPT !.name = n]
    <3>1. r \in ChannelRecord /\ Same(r)
      BY <1>3 DEF ChannelRecord
    <3>2. Replaces(r)
      BY <2>2
    <3>. HIDE DEF r, Replaces, Same
    <3>. QED  BY <3>1, <3>2
  <2>. QED  BY <2>1, <2>2 DEF Change
<1>5. /\ channel' \in [Channel -> ChannelRecord \cup {None}] /\ channel'[c] = new /\ new # None
      /\ \A d \in Channel \ {c} : channel'[d] = channel[d]
  BY <1>3, <1>4, Records DEF Types
<1>6. \A d \in Channel : /\ Exists(d)' <=> Exists(d)
                         /\ channel'[d].team = channel[d].team /\ channel'[d].private = channel[d].private
  BY <1>1, <1>4, <1>5 DEF Exists
<1>7. Types'
  BY <1>1, <1>2, <1>3, <1>5, Bounds DEF Types, Mishap
<1>8. LeadsHome'
  BY <1>1, <1>2 DEF IInv, World, LeadsHome, LeadsTo
<1>9. Owned'
  BY <1>1, <1>2, <1>6 DEF IInv, World, Owned, Owner
<1>10. Keeps
  BY <1>1, <1>2, <1>3, <1>6 DEF Keeps, Types
<1>11. JobType' /\ Jobs'
  BY <1>1, <1>10, OthersKnow DEF IInv, JobType, Jobs
<1>12. Sum \in Nat /\ Sum' \in Nat /\ Sum' > Sum
  BY <1>1, <1>3 DEF Sum, Types
<1>13. ASSUME NEW d \in Channel  PROVE Few(d)'
  <2>1. RoomsOf(d)' = RoomsOf(d)
    BY <1>2 DEF RoomsOf
  <2>2. Wanted(d)' = Wanted(d)
    BY <1>1 DEF Wanted, Wish
  <2>3. PICK a : Own(d)' \subseteq Own(d) \cup {a}
    BY DEF Own
  <2>. QED  BY <1>12, <2>1, <2>2, <2>3, Grows DEF IInv, Counted, Asked
<1>. QED  BY <1>7, <1>8, <1>9, <1>11, <1>13 DEF IInv, World, Counted

LEMMA CrashStep == ASSUME IInv, Crash PROVE IInv'
<1>1. Fault /\ UNCHANGED counts /\ UNCHANGED <<mattermost, matrix, kvstore>> /\ \A s \in Slot : job'[s] = Idle
  BY DEF Crash
<1>2. World' /\ Keeps /\ Modest
  BY <1>1, Quiet
<1>3. JobType' /\ Jobs'
  BY <1>1 DEF Crash, JobType, Jobs
<1>4. ASSUME NEW c \in Channel  PROVE Few(c)'
  <2>1. Wanted(c)' = {}
    BY <1>1 DEF Wanted
  <2>2. Asked(c)' \subseteq Asked(c)
    BY <1>2, <2>1 DEF Modest, Asked
  <2>. QED  BY <1>2, <2>2, Grows DEF Modest, IInv, Counted
<1>. QED  BY <1>2, <1>3, <1>4 DEF IInv, Counted

LEMMA StutterStep == ASSUME IInv, UNCHANGED vars PROVE IInv'
<1>1. /\ UNCHANGED <<team, channel, rooms, children, guests, channelKey, roomKey, teamKey, job>>
      /\ UNCHANGED <<jobs, changes, asked, extra, promise, faults>>
  BY DEF vars, mattermost, matrix, kvstore, history
<1>2. World'
  BY <1>1 DEF IInv, World, Types, LeadsHome, LeadsTo, Owned, Owner, Exists
<1>3. JobType' /\ Jobs'
  BY <1>1 DEF IInv, JobType, Jobs, JobOK, Owner, Commanded, IsRoomOf, Exists
<1>4. ASSUME NEW c \in Channel  PROVE Few(c)'
  <2>1. RoomsOf(c)' = RoomsOf(c) /\ Wanted(c)' = Wanted(c) /\ Own(c)' = Own(c) /\ Sum' = Sum
    BY <1>1 DEF RoomsOf, Wanted, Wish, Own, Exists, NameOf, Sum
  <2>. QED  BY <2>1 DEF IInv, Counted, Few, Asked
<1>. QED  BY <1>2, <1>3, <1>4 DEF IInv, Counted

-----------------------------------------------------------------------------
(* The theorems. *)

LEMMA Start == Init => IInv
<1>. SUFFICES ASSUME Init  PROVE IInv
  OBVIOUS
<1>1. Types
  <2>1. channel \in [Channel -> ChannelRecord \cup {None}] /\ team \subseteq Team
    BY DEF Init
  <2>2. 0 \in 0..MaxJob /\ 0 + 0 <= MaxMishap
    BY Bounds
  <2>. QED  BY <2>1, <2>2 DEF Init, Types
<1>2. World
  BY <1>1 DEF Init, World, LeadsHome, Owned
<1>3. JobType /\ Jobs
  BY DEF Init, JobType, Jobs
<1>4. ASSUME NEW c \in Channel  PROVE Few(c)
  <2>1. PICK a : Asked(c) \subseteq {a}
    <3>1. RoomsOf(c) = {} /\ Wanted(c) = {}
      BY DEF Init, RoomsOf, Wanted
    <3>. QED  BY <3>1 DEF Asked, Own
  <2>2. IsFiniteSet({a}) /\ Cardinality({a}) = 1
    BY FS_Singleton
  <2>3. IsFiniteSet(Asked(c)) /\ Cardinality(Asked(c)) \in Nat /\ Cardinality(Asked(c)) <= 1
    BY <2>1, <2>2, FS_Subset, FS_CardinalityType
  <2>4. Sum = 0
    BY DEF Init, Sum
  <2>. QED  BY <2>3, <2>4 DEF Few
<1>. QED  BY <1>2, <1>3, <1>4 DEF IInv, Counted

LEMMA Invariant == Spec => []IInv
<1>1. IInv /\ [Next]_vars => IInv'
  <2>1. ASSUME IInv, NEW s \in Slot, Step(s)  PROVE IInv'
    BY <2>1, CreateSpaceStep, StoreTeamStep, GetTeamStep, CreateRoomStep, OpenStep, SyncMembersStep, StoreForwardStep,
       StoreReverseStep, FindSpaceStep, AddSpaceChildStep, ListTeamsStep, SyncTeamStep, NextTeamStep, ListChannelsStep,
       SyncChannelStep DEF Step
  <2>. QED  BY <2>1, CreateTeamStep, CreateChannelStep, CreateCommandStep, BackfillCommandStep, ChangeStep, CrashStep,
               StutterStep DEF Next
<1>. QED  BY <1>1, Start, PTL DEF Spec

\* Teams, channels, rooms, mappings and the jobs of all goroutines keep their
\* types, and only public rooms are listed in the directory.
THEOREM TeamSpacesTypeOK == Spec => []TypeOK
<1>1. IInv => TypeOK
  <2>. SUFFICES ASSUME IInv  PROVE TypeOK
    OBVIOUS
  <2>1. Types /\ JobType /\ MaxMishap \in Nat
    BY Bounds DEF IInv, World
  <2>2. changes + faults \in 0..MaxMishap
    BY <2>1 DEF Types
  <2>. QED  BY <2>1, <2>2 DEF Types, JobType, TypeOK
<1>. QED  BY <1>1, Invariant, PTL

\* However hooks, commands and backfills overlap, names clash and calls fail:
\* stored mappings name rooms of their own channel or team, with the hook's
\* domain unless a command asked for a room for the channel; a channel has one
\* room and one more for each renaming, other name and failure; and the room of
\* a private channel is public only if a command said so.
THEOREM TeamSpacesOwnRooms == Spec => []OwnRooms
<1>1. IInv => OwnRooms
  <2>. SUFFICES ASSUME IInv  PROVE OwnRooms
    OBVIOUS
  <2>1. LeadsHome
    BY DEF IInv, World
  <2>2. FewRooms
    <3>. SUFFICES ASSUME NEW c \in Channel
                  PROVE  Cardinality(RoomsOf(c)) <= 1 + changes + extra + faults
      BY DEF FewRooms, RoomsOf
    <3>1. Few(c) /\ RoomsOf(c) \subseteq Asked(c)
      BY DEF IInv, Counted, Asked
    <3>2. /\ Cardinality(RoomsOf(c)) \in Nat /\ Cardinality(Asked(c)) \in Nat
          /\ Cardinality(RoomsOf(c)) <= Cardinality(Asked(c))
      BY <3>1, FS_Subset, FS_CardinalityType DEF Few
    <3>3. changes \in Nat /\ extra \in Nat /\ faults \in Nat
      BY DEF IInv, World, Types
    <3>. QED  BY <3>1, <3>2, <3>3 DEF Few, Sum
  <2>3. PrivateHidden
    BY DEF IInv, World, Owned, Owner, PrivateHidden, Types, Room
  <2>. QED  BY <2>1, <2>2, <2>3 DEF OwnRooms
<1>. QED  BY <1>1, Invariant, PTL

-----------------------------------------------------------------------------
(* Settled, first half: no room is forgotten as long as no call fails.     *)

\* The space of a team, the room of a channel and the channel of a room that
\* are not stored yet but that somebody is about to store.
Storing(t) == \E s \in Slot : job[s].pc = "spaceKey" /\ job[s].t = t
Forwards(j, c) == j.pc \in {"open", "members", "forward"} /\ j.c = c
Reverses(j, a) == j.pc \in {"open", "members", "forward", "reverse"} /\ RoomAlias(j.words) = a
Reversed(a) == \E i \in DOMAIN roomKey : i.alias = a
Forwarding(c) == \E s \in Slot : Forwards(job[s], c)
Reversing(a) == \E s \in Slot : Reverses(job[s], a)

KnownSpace(a, t) == a = SpaceAlias(t) /\ (teamKey[t] = a \/ Storing(t))
KnownRoom(a, c) == (channelKey[c] # None \/ Forwarding(c)) /\ (Reversed(a) \/ Reversing(a))
Known(a) == LET of == rooms[a].of
            IN  IF of \in Team THEN KnownSpace(a, of) ELSE KnownRoom(a, of)
NInv == faults = 0 => \A a \in DOMAIN rooms : Known(a)

\* What slot s owes, it has stored or still owes.
Leaves(s) ==
    /\ job[s].pc = "spaceKey" => teamKey'[job[s].t] = SpaceAlias(job[s].t)
    /\ Forwards(job[s], job[s].c) => Forwards(job'[s], job[s].c) \/ channelKey'[job[s].c] # None
    /\ Reverses(job[s], RoomAlias(job[s].words)) =>
          \/ Reverses(job'[s], RoomAlias(job[s].words))
          \/ \E i \in DOMAIN roomKey' : i.alias = RoomAlias(job[s].words)

LEMMA NStep ==
    ASSUME IInv, NInv, faults = 0,
           \A s \in Slot : job'[s] = job[s] \/ Leaves(s),
           \A a \in DOMAIN rooms : a \in DOMAIN rooms' /\ rooms'[a].of = rooms[a].of,
           \A t \in Team : teamKey'[t] \in {teamKey[t], SpaceAlias(t)},
           \A c \in Channel : channelKey[c] # None => channelKey'[c] # None,
           DOMAIN roomKey \subseteq DOMAIN roomKey',
           \A a \in DOMAIN rooms' : a \in DOMAIN rooms \/ Known(a)'
    PROVE  NInv'
<1>. SUFFICES ASSUME NEW a \in DOMAIN rooms  PROVE Known(a)'
  BY DEF NInv
<1>0. PICK of : of = rooms[a].of /\ of = rooms'[a].of
  OBVIOUS
<1>1. of \in Channel \cup Team /\ (of \in Channel => of \notin Team)
  <2>1. PICK r : r = rooms[a] /\ r \in Room
    BY DEF IInv, World, Types
  <2>2. r.of \in Channel \cup Team
    BY <2>1 DEF Room
  <2>. QED  BY <1>0, <2>1, <2>2, TeamSpacesAssumption
<1>2. Known(a)
  BY DEF NInv
<1>3. CASE of \in Team
  <2>1. a = SpaceAlias(of) /\ (teamKey[of] = a \/ Storing(of))
    BY <1>0, <1>2, <1>3 DEF Known, KnownSpace
  <2>2. CASE teamKey[of] = a
    BY <1>0, <1>3, <2>1, <2>2 DEF Known, KnownSpace
  <2>3. ASSUME NEW s \in Slot, job[s].pc = "spaceKey", job[s].t = of
        PROVE  KnownSpace(a, of)'
    <3>1. CASE job'[s] = job[s]
      BY <2>1, <2>3, <3>1 DEF KnownSpace, Storing
    <3>2. CASE Leaves(s)
      BY <2>1, <2>3, <3>2 DEF KnownSpace, Leaves
    <3>. QED  BY <3>1, <3>2
  <2>. QED  BY <1>0, <1>3, <2>1, <2>2, <2>3 DEF Known, Storing
<1>4. CASE of \notin Team
  <2>0. KnownRoom(a, of) /\ of \in Channel
    BY <1>0, <1>1, <1>2, <1>4 DEF Known
  <2>1. channelKey'[of] # None \/ Forwarding(of)'
    <3>1. CASE channelKey[of] # None
      BY <2>0, <3>1
    <3>2. ASSUME NEW s \in Slot, Forwards(job[s], of)
          PROVE  channelKey'[of] # None \/ Forwarding(of)'
      <4>1. job[s].c = of
        BY <3>2 DEF Forwards
      <4>2. Forwards(job'[s], of) \/ channelKey'[of] # None
        BY <3>2, <4>1 DEF Leaves
      <4>. QED  BY <4>2 DEF Forwarding
    <3>. QED  BY <2>0, <3>1, <3>2 DEF KnownRoom, Forwarding
  <2>2. Reversed(a)' \/ Reversing(a)'
    <3>1. CASE Reversed(a)
      BY <3>1 DEF Reversed
    <3>2. ASSUME NEW s \in Slot, Reverses(job[s], a)
          PROVE  Reversed(a)' \/ Reversing(a)'
      <4>1. RoomAlias(job[s].words) = a
        BY <3>2 DEF Reverses
      <4>2. Reverses(job'[s], a) \/ Reversed(a)'
        BY <3>2, <4>1 DEF Leaves, Reversed
      <4>. QED  BY <4>2 DEF Reversing
    <3>. QED  BY <2>0, <3>1, <3>2 DEF KnownRoom, Reversing
  <2>. QED  BY <1>0, <1>4, <2>1, <2>2 DEF Known, KnownRoom
<1>. QED  BY <1>3, <1>4

\* Slots that owe nothing may do anything that makes and stores no rooms.
Owing == {"spaceKey", "open", "members", "forward", "reverse"}
LEMMA NQuiet ==
    ASSUME IInv, NInv, faults = 0, UNCHANGED <<rooms, kvstore>>,
           \A s \in Slot : job'[s] = job[s] \/ job[s].pc \notin Owing
    PROVE  NInv'
<1>1. UNCHANGED <<rooms, channelKey, roomKey, teamKey>>
  BY DEF kvstore
<1>2. \A s \in Slot : job'[s] = job[s] \/ Leaves(s)
  BY DEF Owing, Leaves, Forwards, Reverses
<1>. QED  BY <1>1, <1>2, NStep

\* A step without a fault.
LEMMA NoFault ==
    ASSUME IInv, faults' = 0, Fault \/ Fine
    PROVE  Fine /\ ~Fault /\ faults = 0
<1>1. faults \in Nat
  BY DEF IInv, World, Types
<1>. QED  BY <1>1 DEF Fine, Fault

LEMMA JobMoves ==
    ASSUME IInv, NEW s \in Slot
    PROVE  /\ \A k : job' = [job EXCEPT ![s] = k] => job'[s] = k /\ \A o \in Slot \ {s} : job'[o] = job[o]
           /\ Return(s) => \A o \in Slot \ {s} : job'[o] = job[o]
           /\ \A pc : Goto(s, pc) => job' = [job EXCEPT ![s] = [job[s] EXCEPT !.pc = pc]]
<1>1. DOMAIN job = Slot
  BY DEF IInv, JobType
<1>. QED  BY <1>1 DEF Return, Goto

LEMMA GotoFields ==
    ASSUME IInv, NEW s \in Slot, NEW j, j = job[s], j.pc # "idle", NEW pc \in Pcs, Goto(s, pc)
    PROVE  /\ job'[s].pc = pc /\ job'[s].t = j.t /\ job'[s].c = j.c /\ job'[s].words = j.words
           /\ \A o \in Slot \ {s} : job'[o] = job[o]
<1>1. j \in JobRecord
  BY Mine
<1>2. job' = [job EXCEPT ![s] = [j EXCEPT !.pc = pc]]
  BY JobMoves
<1>. DEFINE k == [j EXCEPT !.pc = pc]
<1>3. k.pc = pc /\ k.t = j.t /\ k.c = j.c /\ k.words = j.words
  BY <1>1, Moved
<1>. HIDE DEF k
<1>4. job' = [job EXCEPT ![s] = k]
  BY <1>2 DEF k
<1>. QED  BY <1>3, <1>4, JobMoves

LEMMA NCreateSpace == ASSUME IInv, NInv, NEW s \in Slot, CreateSpace(s), faults' = 0 PROVE NInv'
<1>0. PICK j : j = job[s]
  OBVIOUS
<1>1. j.pc = "space" /\ j \in JobRecord /\ j.t \in Team /\ "spaceKey" \in Pcs
  BY <1>0, Mine, JobFields DEF CreateSpace, Pcs
<1>2. Fine /\ ~Fault /\ faults = 0 /\ UNCHANGED kvstore
  BY NoFault DEF CreateSpace
<1>. DEFINE a == SpaceAlias(j.t)
            r == Joined(New(j.t, TRUE))
<1>3. \/ Return(s) /\ UNCHANGED rooms
      \/ a \notin DOMAIN rooms /\ Goto(s, "spaceKey") /\ rooms' = Put(rooms, a, r)
  BY <1>0, <1>2 DEF CreateSpace
<1>4. CASE Return(s) /\ UNCHANGED rooms
  BY <1>0, <1>1, <1>2, <1>4, JobMoves, NQuiet DEF Owing
<1>5. CASE a \notin DOMAIN rooms /\ Goto(s, "spaceKey") /\ rooms' = Put(rooms, a, r)
  <2>1. r.of = j.t
    BY DEF Joined, New
  <2>. HIDE DEF a, r
  <2>2. /\ DOMAIN rooms' = DOMAIN rooms \cup {a} /\ rooms'[a] = r
        /\ \A b \in DOMAIN rooms : rooms'[b] = rooms[b]
    BY <1>5 DEF Put
  <2>3. /\ job'[s].pc = "spaceKey" /\ job'[s].t = j.t
        /\ \A o \in Slot \ {s} : job'[o] = job[o]
    BY <1>0, <1>1, <1>5, GotoFields
  <2>4. Known(a)'
    BY <1>1, <2>1, <2>2, <2>3 DEF Known, KnownSpace, Storing, a
  <2>5. Leaves(s)
    BY <1>0, <1>1 DEF Leaves, Forwards, Reverses
  <2>. QED  BY <1>2, <2>2, <2>3, <2>4, <2>5, NStep DEF kvstore
<1>. QED  BY <1>3, <1>4, <1>5

LEMMA NStoreTeam == ASSUME IInv, NInv, NEW s \in Slot, StoreTeam(s), faults' = 0 PROVE NInv'
<1>0. PICK j : j = job[s]
  OBVIOUS
<1>1. j.pc = "spaceKey" /\ j \in JobRecord /\ j.t \in Team
  BY <1>0, Mine, JobFields DEF StoreTeam
<1>2. /\ faults = 0 /\ teamKey' = [teamKey EXCEPT ![j.t] = SpaceAlias(j.t)]
      /\ UNCHANGED <<rooms, channelKey, roomKey>>
  BY <1>0, NoFault DEF StoreTeam, matrix
<1>3. teamKey'[j.t] = SpaceAlias(j.t) /\ \A t \in Team \ {j.t} : teamKey'[t] = teamKey[t]
  BY <1>1, <1>2 DEF IInv, World, Types
<1>4. Leaves(s) /\ \A o \in Slot \ {s} : job'[o] = job[o]
  BY <1>0, <1>1, <1>3, JobMoves DEF Leaves, Forwards, Reverses, StoreTeam
<1>. QED  BY <1>2, <1>3, <1>4, NStep

LEMMA NCreateRoom == ASSUME IInv, NInv, NEW s \in Slot, CreateRoom(s), faults' = 0 PROVE NInv'
<1>0. PICK j : j = job[s]
  OBVIOUS
<1>1. j.pc = "room" /\ j \in JobRecord /\ j.c \in Channel /\ "open" \in Pcs
  BY <1>0, Mine, JobFields DEF CreateRoom, Pcs, AtRoom, Made
<1>2. Fine /\ ~Fault /\ faults = 0 /\ UNCHANGED kvstore
  BY NoFault DEF CreateRoom
<1>. DEFINE a == RoomAlias(j.words)
            r == New(j.c, j.public)
<1>3. \/ Return(s) /\ UNCHANGED rooms
      \/ a \notin DOMAIN rooms /\ Goto(s, "open") /\ rooms' = Put(rooms, a, r)
  BY <1>0, <1>2 DEF CreateRoom
<1>4. CASE Return(s) /\ UNCHANGED rooms
  BY <1>0, <1>1, <1>2, <1>4, JobMoves, NQuiet DEF Owing
<1>5. CASE a \notin DOMAIN rooms /\ Goto(s, "open") /\ rooms' = Put(rooms, a, r)
  <2>1. r.of = j.c /\ j.c \notin Team
    BY <1>1, TeamSpacesAssumption DEF New
  <2>. HIDE DEF a, r
  <2>2. /\ DOMAIN rooms' = DOMAIN rooms \cup {a} /\ rooms'[a] = r
        /\ \A b \in DOMAIN rooms : rooms'[b] = rooms[b]
    BY <1>5 DEF Put
  <2>3. /\ job'[s].pc = "open" /\ job'[s].c = j.c /\ job'[s].words = j.words
        /\ \A o \in Slot \ {s} : job'[o] = job[o]
    BY <1>0, <1>1, <1>5, GotoFields
  <2>4. Forwards(job'[s], j.c) /\ Reverses(job'[s], a)
    BY <2>3 DEF Forwards, Reverses, a
  <2>5. Known(a)'
    BY <2>1, <2>2, <2>4 DEF Known, KnownRoom, Forwarding, Reversing
  <2>6. Leaves(s)
    BY <1>0, <1>1 DEF Leaves, Forwards, Reverses
  <2>. QED  BY <1>2, <2>2, <2>3, <2>5, <2>6, NStep DEF kvstore
<1>. QED  BY <1>3, <1>4, <1>5

\* Steps between a room's creation and its storing.
LEMMA NOpen == ASSUME IInv, NInv, NEW s \in Slot, Open(s), faults' = 0 PROVE NInv'
<1>0. PICK j : j = job[s]
  OBVIOUS
<1>1. j.pc = "open" /\ j.pc \in Made /\ {"members", "forward"} \subseteq Pcs
  BY <1>0 DEF Open, Made, Pcs, AtRoom
<1>2. faults = 0 /\ UNCHANGED kvstore
  BY NoFault DEF Open
<1>3. IsRoomOf(RoomAlias(j.words), j.c)
  BY <1>0, <1>1, RoomFacts
<1>4. PICK a, r : a = RoomAlias(j.words) /\ r = rooms[a] /\ a \in DOMAIN rooms
  BY <1>3 DEF IsRoomOf
<1>5. PICK o : o = Tagged(Published(Joined(r)), j.kind) /\ rooms' = [rooms EXCEPT ![a] = o]
  BY <1>0, <1>4, NoFault DEF Open
<1>6. o.of = r.of
  <2>1. r \in Room
    BY <1>4 DEF IInv, World, Types
  <2>. QED  BY <1>5, <2>1 DEF Tagged, Published, Joined, Room
<1>7. /\ DOMAIN rooms' = DOMAIN rooms
      /\ \A b \in DOMAIN rooms : rooms'[b].of = rooms[b].of
  BY <1>4, <1>5, <1>6
<1>8. PICK pc \in {"members", "forward"} : Goto(s, pc)
  BY DEF Open
<1>9. /\ job'[s].pc = pc /\ job'[s].c = j.c /\ job'[s].words = j.words
      /\ \A q \in Slot \ {s} : job'[q] = job[q]
  BY <1>0, <1>1, <1>8, GotoFields
<1>10. Leaves(s)
  BY <1>0, <1>1, <1>9 DEF Leaves, Forwards, Reverses
<1>. QED  BY <1>2, <1>7, <1>9, <1>10, NStep DEF kvstore

LEMMA NSyncMembers == ASSUME IInv, NInv, NEW s \in Slot, SyncMembers(s), faults' = 0 PROVE NInv'
<1>0. PICK j : j = job[s]
  OBVIOUS
<1>1. j.pc = "members" /\ j \in JobRecord /\ "forward" \in Pcs
  BY <1>0, Mine DEF SyncMembers, Pcs, AtRoom, Made
<1>2. faults = 0 /\ UNCHANGED <<kvstore, rooms>>
  BY NoFault DEF SyncMembers
<1>3. /\ job'[s].pc \in {"members", "forward"} /\ job'[s].c = j.c /\ job'[s].words = j.words
      /\ \A q \in Slot \ {s} : job'[q] = job[q]
  <2>1. CASE Goto(s, "forward")
    BY <1>0, <1>1, <2>1, GotoFields
  <2>2. CASE job' = [job EXCEPT ![s].offset = @ + Limit]
    <3>. DEFINE k == [j EXCEPT !.offset = @ + Limit]
    <3>1. k.pc = "members" /\ k.c = j.c /\ k.words = j.words
      BY <1>1 DEF JobRecord
    <3>2. job' = [job EXCEPT ![s] = k]
      BY <1>0, <2>2
    <3>. HIDE DEF k
    <3>. QED  BY <3>1, <3>2, JobMoves
  <2>. QED  BY <2>1, <2>2 DEF SyncMembers
<1>4. Leaves(s)
  BY <1>0, <1>1, <1>3 DEF Leaves, Forwards, Reverses
<1>. QED  BY <1>2, <1>3, <1>4, NStep DEF kvstore

LEMMA NStoreForward == ASSUME IInv, NInv, NEW s \in Slot, StoreForward(s), faults' = 0 PROVE NInv'
<1>0. PICK j : j = job[s]
  OBVIOUS
<1>1. j.pc = "forward" /\ j.pc \in Made /\ "reverse" \in Pcs
  BY <1>0 DEF StoreForward, Made, Pcs, AtRoom
<1>2. j.c \in Channel /\ Returned(j) # None
  BY <1>0, <1>1, RoomFacts
<1>3. /\ faults = 0 /\ channelKey' = [channelKey EXCEPT ![j.c] = Returned(j)]
      /\ Goto(s, "reverse") /\ UNCHANGED <<rooms, teamKey, roomKey>>
  BY <1>0, NoFault DEF StoreForward, matrix
<1>4. channelKey'[j.c] # None /\ \A c \in Channel \ {j.c} : channelKey'[c] = channelKey[c]
  BY <1>2, <1>3 DEF IInv, World, Types
<1>5. /\ job'[s].pc = "reverse" /\ job'[s].words = j.words
      /\ \A q \in Slot \ {s} : job'[q] = job[q]
  BY <1>0, <1>1, <1>3, GotoFields
<1>6. Leaves(s)
  BY <1>0, <1>1, <1>4, <1>5 DEF Leaves, Forwards, Reverses
<1>. QED  BY <1>3, <1>4, <1>5, <1>6, NStep

LEMMA NStoreReverse == ASSUME IInv, NInv, NEW s \in Slot, StoreReverse(s), faults' = 0 PROVE NInv'
<1>0. PICK j : j = job[s]
  OBVIOUS
<1>1. j.pc = "reverse" /\ "find" \in Pcs /\ j.pc # "idle"
  BY <1>0 DEF StoreReverse, Made, Pcs, AtRoom
<1>2. /\ faults = 0 /\ roomKey' = Put(roomKey, Returned(j), j.c)
      /\ UNCHANGED <<rooms, teamKey, channelKey>>
  BY <1>0, NoFault DEF StoreReverse, matrix
<1>3. DOMAIN roomKey' = DOMAIN roomKey \cup {Returned(j)} /\ \E i \in DOMAIN roomKey' : i.alias = RoomAlias(j.words)
  <2>1. DOMAIN roomKey' = DOMAIN roomKey \cup {Returned(j)}
    BY <1>2 DEF Put
  <2>2. Returned(j).alias = RoomAlias(j.words)
    BY DEF Returned
  <2>. QED  BY <2>1, <2>2
<1>4. \A q \in Slot \ {s} : job'[q] = job[q]
  BY <1>0, <1>1, GotoFields, JobMoves DEF StoreReverse
<1>5. Leaves(s)
  BY <1>0, <1>1, <1>3 DEF Leaves, Forwards, Reverses
<1>. QED  BY <1>2, <1>3, <1>4, <1>5, NStep

\* The other steps of a goroutine.
Plain(s) == \/ GetTeam(s) \/ FindSpace(s) \/ AddSpaceChild(s)
            \/ ListTeams(s) \/ SyncTeam(s) \/ NextTeam(s) \/ ListChannels(s) \/ SyncChannel(s)
LEMMA PlainFacts ==
    ASSUME IInv, NEW s \in Slot, Plain(s)
    PROVE  /\ job[s].pc \notin Owing /\ (Fault \/ Fine) /\ UNCHANGED <<rooms, kvstore>>
           /\ \A o \in Slot \ {s} : job'[o] = job[o]
<1>0. DOMAIN job = Slot
  BY DEF IInv, JobType
<1>1. CASE GetTeam(s)
  BY <1>0, <1>1 DEF GetTeam, Goto, Owing, matrix
<1>2. CASE FindSpace(s)
  BY <1>0, <1>2, JobMoves DEF FindSpace, Goto, Owing, matrix
<1>3. CASE AddSpaceChild(s)
  BY <1>0, <1>3, JobMoves DEF AddSpaceChild, Owing
<1>4. CASE ListTeams(s)
  BY <1>0, <1>4 DEF ListTeams, Goto, Owing, matrix
<1>5. CASE SyncTeam(s)
  BY <1>0, <1>5 DEF SyncTeam, Goto, Owing, matrix
<1>6. CASE NextTeam(s)
  BY <1>0, <1>6 DEF NextTeam, Goto, Owing, matrix, history, Fine
<1>7. CASE ListChannels(s)
  BY <1>0, <1>7 DEF ListChannels, Goto, Owing, matrix
<1>8. CASE SyncChannel(s)
  BY <1>0, <1>8 DEF SyncChannel, Goto, Owing, matrix
<1>. QED  BY <1>1, <1>2, <1>3, <1>4, <1>5, <1>6, <1>7, <1>8 DEF Plain

LEMMA NPlain == ASSUME IInv, NInv, NEW s \in Slot, Plain(s), faults' = 0 PROVE NInv'
<1>1. faults = 0
  BY PlainFacts, NoFault
<1>. QED  BY <1>1, PlainFacts, NQuiet

LEMMA NBegin ==
    ASSUME IInv, NInv, NEW s \in Slot, faults' = 0,
           \/ \E t \in Team : CreateTeam(s, t)
           \/ \E c \in Channel : CreateChannel(s, c) \/ CreateCommand(s, c)
           \/ BackfillCommand(s)
    PROVE  NInv'
<1>1. job[s] = Idle /\ \A o \in Slot \ {s} : job'[o] = job[o]
  <2>1. DOMAIN job = Slot
    BY DEF IInv, JobType
  <2>. QED  BY <2>1 DEF CreateTeam, CreateChannel, CreateCommand, BackfillCommand, Begin
<1>2. UNCHANGED <<rooms, kvstore, faults>>
  BY DEF CreateTeam, CreateChannel, CreateCommand, BackfillCommand, matrix
<1>. QED  BY <1>1, <1>2, NQuiet DEF Owing, Idle

LEMMA NextNInv == ASSUME IInv, NInv, [Next]_vars PROVE NInv'
<1>. SUFFICES ASSUME faults' = 0  PROVE NInv'
  BY DEF NInv
<1>1. ASSUME NEW s \in Slot, Step(s)  PROVE NInv'
  BY <1>1, NCreateSpace, NStoreTeam, NCreateRoom, NOpen, NSyncMembers, NStoreForward, NStoreReverse, NPlain
     DEF Step, Plain
<1>2. ASSUME NEW c \in Channel, Change(c)  PROVE NInv'
  BY <1>2, NQuiet DEF Change, matrix
<1>3. CASE Crash
  BY <1>3, NoFault DEF Crash
<1>4. CASE UNCHANGED vars
  BY <1>4, NQuiet DEF vars, matrix
<1>. QED  BY <1>1, <1>2, <1>3, <1>4, NBegin DEF Next

-----------------------------------------------------------------------------
(* Pages: when a channel is on a page to come, the next page has channels. *)

LEMMA Leasts ==
    ASSUME NEW S, S \subseteq Nat, S # {}
    PROVE  \E x \in S : \A y \in S : x <= y
<1>. DEFINE R == {ss \in Nat \X Nat : ss[1] < ss[2]}
<1>1. IsWellFoundedOn(R, Nat)
  BY NatLessThanWellFounded DEF OpToRel
<1>2. \A x, y \in Nat : y < x => <<y, x>> \in R
  OBVIOUS
<1>. HIDE DEF R
<1>3. PICK x \in S : \A y \in S : ~ (<<y, x>> \in R)
  BY <1>1, WFMin
<1>4. ASSUME NEW y \in S  PROVE x <= y
  <2>1. x \in Nat /\ y \in Nat /\ <<y, x>> \notin R
    BY <1>3
  <2>2. ~ (y < x)
    BY <1>2, <2>1
  <2>. QED  BY <2>1, <2>2
<1>. QED  BY <1>4

LEMMA Division ==
    ASSUME NEW r \in Nat, NEW p \in Nat, NEW n \in Nat \ {0}
    PROVE  r \div n \in Nat /\ (p * n) \div n = p /\ (r \div n >= p => r >= p * n)
OBVIOUS

\* The channels P of a team are listed in their order.
Below(P, n) == {d \in P : d < n}
Page(P, c) == Cardinality(Below(P, c)) \div PageSize

LEMMA NextPage ==
    ASSUME NEW P, P \subseteq Nat, IsFiniteSet(P), NEW c \in P, NEW p \in Nat, Page(P, c) >= p
    PROVE  \E d \in P : Page(P, d) = p
<1>. DEFINE B(n) == Below(P, n)
            S == {n \in Nat : Cardinality(B(n)) > p * PageSize}
<1>0. PageSize \in Nat \ {0}
  BY TeamSpacesAssumption
<1>1. \A n \in Nat : IsFiniteSet(B(n)) /\ Cardinality(B(n)) \in Nat
  <2>1. ASSUME NEW n \in Nat  PROVE IsFiniteSet(B(n)) /\ Cardinality(B(n)) \in Nat
    <3>1. B(n) \subseteq P
      BY DEF Below
    <3>2. IsFiniteSet(B(n))
      BY <3>1, FS_Subset
    <3>. QED  BY <3>2, FS_CardinalityType
  <2>. QED  BY <2>1
\* One number more adds itself, if it is in P.
<1>2. ASSUME NEW n \in Nat
      PROVE  Cardinality(B(n + 1)) = IF n \in P THEN Cardinality(B(n)) + 1 ELSE Cardinality(B(n))
  <2>1. n \notin B(n) /\ B(n + 1) = IF n \in P THEN B(n) \cup {n} ELSE B(n)
    <3>1. \A d \in P : d \in Nat /\ (d < n + 1 <=> d < n \/ d = n) /\ ~ (n < n)
      OBVIOUS
    <3>. QED  BY <3>1, Zenon DEF Below
  <2>2. IsFiniteSet(B(n))
    BY <1>1
  <2>. HIDE DEF B
  <2>3. Cardinality(B(n) \cup {n}) = Cardinality(B(n)) + 1
    BY <2>1, <2>2, FS_AddElement
  <2>. QED  BY <2>1, <2>3
<1>3. p * PageSize \in Nat
  BY <1>0
<1>4. c \in Nat /\ c + 1 \in S
  <2>1. c \in Nat /\ Cardinality(B(c)) \in Nat /\ Cardinality(B(c + 1)) = Cardinality(B(c)) + 1
    BY <1>1, <1>2
  <2>2. Cardinality(B(c)) \div PageSize >= p
    BY DEF Page
  <2>. HIDE DEF B
  <2>3. Cardinality(B(c)) >= p * PageSize
    BY <1>0, <2>1, <2>2, Division
  <2>. QED  BY <1>3, <2>1, <2>3
<1>5. Cardinality(B(0)) = 0
  <2>1. B(0) = {}
    <3>1. \A d \in P : ~ (d < 0)
      OBVIOUS
    <3>. QED  BY <3>1, Zenon DEF Below
  <2>. QED  BY <2>1, FS_EmptySet
<1>. HIDE DEF B
<1>6. PICK m \in S : \A n \in S : m <= n
  <2>1. S \subseteq Nat /\ S # {}
    BY <1>4
  <2>. HIDE DEF S
  <2>. QED  BY <2>1, Leasts
<1>7. m \in Nat /\ m # 0 /\ Cardinality(B(m)) > p * PageSize
  BY <1>3, <1>5, <1>6
<1>8. PICK d \in Nat : m = d + 1
  <2>1. m - 1 \in Nat /\ m = (m - 1) + 1
    BY <1>7
  <2>. QED  BY <2>1
<1>9. ~ (Cardinality(B(d)) > p * PageSize)
  BY <1>6, <1>8
<1>10. PICK x \in Nat : x = Cardinality(B(d))
  BY <1>1
<1>11. d \in P /\ x = p * PageSize
  BY <1>2, <1>3, <1>7, <1>8, <1>9, <1>10
<1>12. Cardinality(B(d)) \div PageSize = p
  BY <1>0, <1>10, <1>11, Division
<1>. QED  BY <1>11, <1>12 DEF B, Page

-----------------------------------------------------------------------------
(* Settled, second half: what a backfill still owes to the channels it has *)
(* promised a room.                                                        *)

\* The alias of the channel's room, and its team's space, are its own.
Address(c) == RoomAlias(NameOf(c))
Stamped(c) == [alias |-> Address(c), domain |-> Domain("backfill")]
TeamOf(c) == channel[c].team
Sole(c) ==
    /\ Live(c) /\ ~channel[c].private
    /\ \A t \in Team : SpaceAlias(t) # Address(c)
    /\ \A d \in Channel : Exists(d) /\ Address(d) = Address(c) => d = c
SoleSpace(c) ==
    /\ \A t \in Team : SpaceAlias(t) = SpaceAlias(TeamOf(c)) => t = TeamOf(c)
    /\ \A d \in Channel : Exists(d) => Address(d) # SpaceAlias(TeamOf(c))
Fresh(c) == Address(c) \notin DOMAIN rooms
Spaced(c) == teamKey[TeamOf(c)] # None
Spaceless(c) == SpaceAlias(TeamOf(c)) \notin DOMAIN rooms
Done(c) == /\ channelKey[c] = Stamped(c) /\ Stamped(c) \in DOMAIN roomKey
           /\ <<teamKey[TeamOf(c)], Stamped(c)>> \in children

Public(t) == {c \in Channel : Live(c) /\ ~channel[c].private /\ channel[c].team = t}
PageOf(c) == Page(Public(TeamOf(c)), c)

\* Backfill j is yet to come to the team of c, to c on a list of its team, or
\* is at work on c.
Ahead(j, c) == TeamOf(c) \in j.teams
OnList(j, c) == j.t = TeamOf(c) /\ (PageOf(c) >= j.page \/ (j.pc # "page" /\ c \in j.channels))
Working(j, c) ==
    /\ j.c = c
    /\ \/ j.pc \in {"team", "room"} /\ Fresh(c)
       \/ j.pc \in {"open", "forward"}
       \/ j.pc = "reverse" /\ channelKey[c] = Stamped(c)
       \/ j.pc \in {"find", "child"} /\ channelKey[c] = Stamped(c) /\ Stamped(c) \in DOMAIN roomKey

\* First the spaces of the teams, then the rooms of their channels.
ToSpaces(j, c) ==
    /\ Fresh(c)
    /\ \/ Spaced(c)
       \/ Spaceless(c) /\ (j.pc = "teams" \/ Ahead(j, c) \/ (j.pc = "space" /\ j.t = TeamOf(c)))
       \/ j.pc = "spaceKey" /\ j.t = TeamOf(c)
ToRooms(j, c) ==
    /\ Spaced(c)
    /\ \/ Done(c)
       \/ Fresh(c) /\ (j.pc = "listTeams" \/ Ahead(j, c))
       \/ Fresh(c) /\ j.pc \notin {"listTeams", "eachList"} /\ OnList(j, c)
       \/ Working(j, c)
TeamStage == {"teams", "eachTeam", "space", "spaceKey"}
Progress(j, c) == IF j.pc \in TeamStage THEN ToSpaces(j, c) ELSE ToRooms(j, c)

\* A goroutine of a backfill asks for no other alias than the channel's own.
Wording(j) == /\ j.pc = "team" => j.words = channel[j.c].name
              /\ j.pc \in {"room", "open", "forward", "reverse", "find", "child"} => j.words = NameOf(j.c)
Backfills(j) == j.kind = "backfill" /\ j.mode = "all" /\ j.pc # "members" /\ Wording(j)
Promised(c) ==
    /\ Sole(c) /\ (Spaced(c) \/ SoleSpace(c))
    /\ AtRest => Done(c)
    /\ \A s \in Slot : job[s] # Idle => /\ \A o \in Slot \ {s} : job[o] = Idle
                                        /\ Backfills(job[s]) /\ Progress(job[s], c)
Housed == \A c \in Channel : Exists(c) => channel[c].team \in team
BInv == Housed /\ \A c \in promise : Promised(c)

\* Names and teams are what they were as long as no channel changes.
LEMMA SameNames ==
    ASSUME channel' = channel
    PROVE  \A c : /\ Address(c)' = Address(c) /\ Stamped(c)' = Stamped(c) /\ TeamOf(c)' = TeamOf(c) /\ Exists(c)' = Exists(c) /\ Live(c)' = Live(c)
                  /\ Sole(c)' = Sole(c) /\ SoleSpace(c)' = SoleSpace(c) /\ NameOf(c)' = NameOf(c)
                  /\ PageOf(c)' = PageOf(c)
BY DEF Address, Stamped, TeamOf, Exists, Live, Sole, SoleSpace, NameOf, PageOf, Public

\* A step of the one backfill there is.
LEMMA BStep ==
    ASSUME IInv, BInv, NEW s \in Slot, job[s] # Idle, NEW k \in JobRecord, Given(s, k),
           UNCHANGED <<mattermost, promise>>, \A t \in Team : teamKey[t] # None => teamKey'[t] # None,
           promise # {} => Backfills(k)',
           \A c \in Channel : c \in promise => Progress(k, c)'
    PROVE  BInv'
<1>1. UNCHANGED <<team, channel>>
  BY DEF mattermost
<1>2. Housed'
  BY <1>1 DEF BInv, Housed, Exists
<1>3. job'[s] = k /\ k # Idle /\ \A o \in Slot \ {s} : job'[o] = job[o]
  BY JobMoves, JobFields DEF Given
<1>4. ASSUME NEW c \in Channel, c \in promise  PROVE Promised(c)'
  <2>1. Promised(c) /\ c \in Channel
    BY <1>4 DEF BInv
  <2>2. Exists(c) /\ TeamOf(c) \in Team
    BY <2>1, ChannelFields DEF Promised, Sole, Live, TeamOf, IInv, World
  <2>3. Sole(c)' /\ (Spaced(c) \/ SoleSpace(c))'
    <3>1. Sole(c)' /\ (SoleSpace(c) => SoleSpace(c)')
      BY <1>1, <2>1, SameNames DEF Promised
    <3>2. Spaced(c) => Spaced(c)'
      BY <1>1, <2>2 DEF Spaced, TeamOf
    <3>. QED  BY <2>1, <3>1, <3>2 DEF Promised
  <2>4. ~AtRest'
    BY <1>3 DEF AtRest
  <2>5. \A o \in Slot \ {s} : job'[o] = Idle
    BY <1>3, <2>1 DEF Promised
  <2>6. Backfills(job[s])' /\ Progress(job[s], c)'
    <3>1. Backfills(k)' /\ Progress(k, c)'
      BY <1>4
    <3>. QED  BY <1>3, <3>1 DEF Backfills, Wording, Progress, ToSpaces, ToRooms, Ahead, OnList, Working
  <2>7. ASSUME NEW o \in Slot, job'[o] # Idle
        PROVE  /\ \A q \in Slot \ {o} : job'[q] = Idle
               /\ Backfills(job[o])' /\ Progress(job[o], c)'
    <3>1. o = s
      BY <2>5, <2>7
    <3>. QED  BY <2>5, <2>6, <3>1
  <2>. QED  BY <2>3, <2>4, <2>7 DEF Promised
<1>5. promise' = promise /\ promise \subseteq Channel
  BY DEF IInv, World, Types
<1>. QED  BY <1>2, <1>4, <1>5 DEF BInv

-----------------------------------------------------------------------------
(* How the jobs of a backfill move. *)

LEMMA Sound == ASSUME IInv, Fine PROVE ~Fault
<1>1. faults \in Nat
  BY DEF IInv, World, Types
<1>. QED  BY <1>1 DEF Fine, Fault

LEMMA Unpromised ==
    ASSUME BInv, UNCHANGED mattermost, promise' = {}
    PROVE  BInv'
BY DEF BInv, Housed, Exists, mattermost

\* What is known of the job of a backfill, and of a channel it has promised.
LEMMA Owed ==
    ASSUME IInv, BInv, NEW s \in Slot, job[s] # Idle, NEW c \in Channel, c \in promise
    PROVE  /\ Sole(c) /\ (Spaced(c) \/ SoleSpace(c)) /\ Exists(c) /\ TeamOf(c) \in Team /\ TeamOf(c) \in team
           /\ Backfills(job[s]) /\ Progress(job[s], c)
<1>1. Promised(c)
  BY DEF BInv
<1>2. Exists(c)
  BY <1>1 DEF Promised, Sole, Live
<1>3. TeamOf(c) \in Team /\ TeamOf(c) \in team
  BY <1>2, ChannelFields DEF TeamOf, IInv, World, BInv, Housed
<1>. QED  BY <1>1, <1>2, <1>3 DEF Promised

SameList(k, j) == /\ k.kind = j.kind /\ k.mode = j.mode /\ k.t = j.t
                  /\ k.teams = j.teams /\ k.channels = j.channels /\ k.page = j.page

LEMMA WentTo ==
    ASSUME IInv, NEW s \in Slot, NEW j, j = job[s], j.pc # "idle", NEW pc \in Pcs, Goto(s, pc)
    PROVE  \E k \in JobRecord : /\ Given(s, k) /\ SameList(k, j)
                                /\ k.pc = pc /\ k.c = j.c /\ k.words = j.words
<1>1. j \in JobRecord
  BY Mine
<1>. DEFINE k == [j EXCEPT !.pc = pc]
<1>2. k \in JobRecord /\ SameList(k, j) /\ k.pc = pc /\ k.c = j.c /\ k.words = j.words
  BY <1>1, Moved DEF SameList
<1>3. Given(s, k)
  BY JobMoves DEF Given
<1>. HIDE DEF k
<1>. QED  BY <1>2, <1>3

LEMMA CameBack ==
    ASSUME IInv, NEW s \in Slot, NEW j, j = job[s], j.kind = "backfill", Return(s)
    PROVE  /\ j.pc \in {"space", "spaceKey"} =>
                  \E k \in JobRecord : /\ Given(s, k) /\ k.pc = "eachTeam" /\ k.kind = j.kind /\ k.mode = j.mode
                                       /\ k.teams = j.teams
           /\ j.pc \in AtRoom => \E k \in JobRecord : Given(s, k) /\ SameList(k, j) /\ k.pc = "eachChannel"
<1>. DEFINE k1 == [j EXCEPT !.pc = "eachTeam", !.t = AnyTeam]
            k2 == [j EXCEPT !.pc = "eachChannel", !.words = AnyName, !.public = TRUE]
<1>1. CASE j.pc \in {"space", "spaceKey"}
  <2>1. j \in JobRecord
    BY <1>1, Mine
  <2>2. k1 \in JobRecord /\ k1.pc = "eachTeam" /\ k1.kind = j.kind /\ k1.mode = j.mode /\ k1.teams = j.teams
    BY <2>1, Anys DEF JobRecord
  <2>3. Given(s, k1)
    BY <1>1 DEF Return, Given
  <2>. HIDE DEF k1
  <2>. QED  BY <1>1, <2>2, <2>3 DEF AtRoom, Made
<1>2. CASE j.pc \in AtRoom
  <2>1. j \in JobRecord /\ j.pc \notin {"space", "spaceKey"}
    BY <1>2, Mine DEF AtRoom, Made
  <2>2. k2 \in JobRecord /\ SameList(k2, j) /\ k2.pc = "eachChannel"
    BY <2>1, Anys DEF JobRecord, SameList
  <2>3. Given(s, k2)
    BY <2>1 DEF Return, Given
  <2>. HIDE DEF k2
  <2>. QED  BY <2>1, <2>2, <2>3
<1>. QED  BY <1>1, <1>2

\* A step at the room of a channel.
LEMMA RoomStep ==
    ASSUME IInv, BInv, NEW s \in Slot, NEW j, j = job[s], j.pc \in AtRoom,
           NEW k \in JobRecord, Given(s, k), SameList(k, j), k.pc \in (AtRoom \ {"members"}) \cup {"eachChannel"},
           UNCHANGED <<mattermost, promise, teamKey>>,
           promise # {} => Wording(k)',
           \A c \in Channel : c \in promise => /\ Fresh(c) => Fresh(c)' \/ Working(k, c)'
                                               /\ Done(c) => Done(c)'
                                               /\ Working(j, c) => Working(k, c)' \/ Done(c)'
    PROVE  BInv'
<1>0. job[s] # Idle /\ UNCHANGED channel /\ promise \subseteq Channel
  BY Mine DEF AtRoom, Made, mattermost, IInv, World, Types
<1>1. ASSUME promise # {}  PROVE Backfills(k)'
  <2>1. PICK c \in Channel : c \in promise
    BY <1>0, <1>1
  <2>2. j.kind = "backfill" /\ j.mode = "all"
    BY <1>0, <2>1, Owed DEF Backfills
  <2>3. k.kind = "backfill" /\ k.mode = "all" /\ k.pc # "members"
    BY <2>2 DEF SameList
  <2>. QED  BY <1>1, <2>3 DEF Backfills
<1>2. ASSUME NEW c \in Channel, c \in promise  PROVE Progress(k, c)'
  <2>1. Progress(j, c)
    BY <1>0, <1>2, Owed
  <2>2. j.pc \notin TeamStage /\ j.pc # "listTeams" /\ k.pc \notin TeamStage /\ k.pc \notin {"listTeams", "eachList", "page"}
    BY DEF TeamStage, AtRoom, Made
  <2>3. ToRooms(j, c)
    BY <2>1, <2>2 DEF Progress
  <2>4. Spaced(c)' = Spaced(c) /\ TeamOf(c)' = TeamOf(c) /\ PageOf(c)' = PageOf(c)
    BY <1>0, SameNames DEF Spaced
  <2>5. Ahead(k, c)' = Ahead(j, c) /\ (OnList(j, c) => OnList(k, c)')
    BY <2>2, <2>4 DEF Ahead, OnList, SameList
  <2>6. ToRooms(k, c)'
    BY <1>2, <2>2, <2>3, <2>4, <2>5 DEF ToRooms
  <2>. QED  BY <2>2, <2>6 DEF Progress
<1>. QED  BY <1>0, <1>1, <1>2, BStep

-----------------------------------------------------------------------------
(* The steps of a backfill at a room. *)

LEMMA RoomJob ==
    ASSUME IInv, BInv, NEW s \in Slot, NEW j, j = job[s], j.pc \in AtRoom, promise # {}
    PROVE  /\ j \in JobRecord /\ j.pc # "idle" /\ j.c \in Channel /\ j.t \in Team /\ Exists(j.c) /\ TeamOf(j.c) = j.t
           /\ j.kind = "backfill" /\ j.pc # "members"
           /\ j.pc = "team" => TeamWords[j.t] \o j.words = NameOf(j.c)
           /\ j.pc # "team" => /\ j.words = NameOf(j.c) /\ RoomAlias(j.words) = Address(j.c)
                               /\ Returned(j) = Stamped(j.c)
<1>1. j \in JobRecord /\ job[s] # Idle /\ JobOK(j) /\ j.pc # "idle"
  BY Mine DEF AtRoom, Made
<1>2. j.c \in Channel /\ j.t \in Team
  BY <1>1, JobFields
<1>3. Exists(j.c) /\ TeamOf(j.c) = j.t
  BY <1>1 DEF JobOK, Owner, TeamOf
<1>4. PICK c \in Channel : c \in promise
  BY DEF IInv, World, Types
<1>5. Backfills(j)
  BY <1>1, <1>4, Owed
<1>6. j.pc = "team" => j.words = channel[j.c].name
  BY <1>5 DEF Backfills, Wording
<1>7. j.pc # "team" => j.words = NameOf(j.c)
  BY <1>5 DEF Backfills, Wording, AtRoom, Made
<1>. QED  BY <1>1, <1>2, <1>3, <1>5, <1>6, <1>7 DEF Backfills, NameOf, TeamOf, Address, Returned, Stamped

LEMMA BGetTeam == ASSUME IInv, BInv, NEW s \in Slot, promise # {}, Fine, GetTeam(s) PROVE BInv'
<1>0. PICK j : j = job[s]
  OBVIOUS
<1>1. j.pc = "team" /\ j.pc \in AtRoom
  BY <1>0 DEF GetTeam, AtRoom
<1>2. /\ j \in JobRecord /\ j.c \in Channel /\ j.t \in Team
      /\ TeamWords[j.t] \o j.words = NameOf(j.c) /\ j.words \in Name
  <2>1. j.words \in Name
    BY <1>0, <1>1, Mine DEF JobOK
  <2>. QED  BY <1>0, <1>1, <2>1, RoomJob
<1>3. UNCHANGED <<mattermost, promise, teamKey, rooms, channel, channelKey, roomKey, children>>
  BY DEF GetTeam, Fine, kvstore, matrix, mattermost
<1>. DEFINE k == [j EXCEPT !.words = TeamWords[j.t] \o j.words, !.pc = "room"]
<1>4. k \in JobRecord /\ SameList(k, j) /\ k.pc = "room" /\ k.words = TeamWords[j.t] \o j.words /\ k.c = j.c
  BY <1>2, NamesAreWords DEF JobRecord, SameList
<1>5. Given(s, k)
  BY <1>0, Sound DEF GetTeam, Given
<1>. HIDE DEF k
<1>6. Wording(k)'
  BY <1>2, <1>3, <1>4, SameNames DEF Wording
<1>7. ASSUME NEW c \in Channel
      PROVE  /\ Fresh(c) => Fresh(c)'
             /\ Done(c) => Done(c)'
             /\ Working(j, c) => Working(k, c)'
  <2>1. Address(c)' = Address(c) /\ Stamped(c)' = Stamped(c) /\ TeamOf(c)' = TeamOf(c)
    BY <1>3, SameNames
  <2>2. Fresh(c)' = Fresh(c) /\ Done(c)' = Done(c)
    BY <1>3, <2>1 DEF Fresh, Done
  <2>. QED  BY <1>1, <1>4, <2>2 DEF Working
<1>. QED  BY <1>0, <1>1, <1>3, <1>4, <1>5, <1>6, <1>7, RoomStep DEF AtRoom

LEMMA BCreateRoom == ASSUME IInv, BInv, NEW s \in Slot, promise # {}, Fine, CreateRoom(s) PROVE BInv'
<1>0. PICK j : j = job[s]
  OBVIOUS
<1>1. j.pc = "room" /\ j.pc \in AtRoom
  BY <1>0 DEF CreateRoom, AtRoom
<1>2. /\ j \in JobRecord /\ j.pc # "idle" /\ j.c \in Channel /\ Exists(j.c) /\ j.kind = "backfill"
      /\ j.words = NameOf(j.c) /\ RoomAlias(j.words) = Address(j.c)
  BY <1>0, <1>1, RoomJob
<1>3. UNCHANGED <<mattermost, promise, teamKey, channel, channelKey, roomKey, children>>
  BY DEF CreateRoom, Fine, kvstore, mattermost
<1>4. \A c \in Channel : /\ Address(c)' = Address(c) /\ TeamOf(c)' = TeamOf(c) /\ Done(c)' = Done(c)
  BY <1>3, SameNames DEF Done
<1>. DEFINE a == Address(j.c)
            r == New(j.c, j.public)
<1>5. \/ a \in DOMAIN rooms /\ Return(s) /\ rooms' = rooms
      \/ a \notin DOMAIN rooms /\ Goto(s, "open") /\ rooms' = Put(rooms, a, r)
  BY <1>0, <1>2, Sound DEF CreateRoom
<1>. HIDE DEF r
<1>6. CASE a \in DOMAIN rooms /\ Return(s) /\ rooms' = rooms
  <2>1. PICK k \in JobRecord : Given(s, k) /\ SameList(k, j) /\ k.pc = "eachChannel"
    BY <1>0, <1>1, <1>2, <1>6, CameBack
  <2>2. Wording(k)'
    BY <2>1 DEF Wording
  <2>3. ASSUME NEW c \in Channel
        PROVE  (Fresh(c) => Fresh(c)') /\ ~Working(j, c)
    BY <1>1, <1>4, <1>6 DEF Fresh, Working
  <2>. QED  BY <1>0, <1>1, <1>3, <1>4, <2>1, <2>2, <2>3, RoomStep
<1>7. CASE a \notin DOMAIN rooms /\ Goto(s, "open") /\ rooms' = Put(rooms, a, r)
  <2>1. PICK k \in JobRecord : Given(s, k) /\ SameList(k, j) /\ k.pc = "open" /\ k.c = j.c /\ k.words = j.words
    BY <1>0, <1>2, <1>7, WentTo DEF Pcs, AtRoom, Made
  <2>2. Wording(k)'
    BY <1>2, <1>3, <2>1, SameNames DEF Wording
  <2>3. DOMAIN rooms' = DOMAIN rooms \cup {a}
    BY <1>7 DEF Put
  <2>4. ASSUME NEW c \in Channel, c \in promise
        PROVE  /\ Fresh(c) => Fresh(c)' \/ Working(k, c)'
               /\ Working(j, c) => Working(k, c)'
    <3>1. Sole(c)
      BY <1>0, <1>2, <2>4, Owed DEF Idle
    <3>2. Fresh(c) => Fresh(c)' \/ j.c = c
      BY <1>2, <1>4, <2>3, <3>1 DEF Fresh, Sole
    <3>. QED  BY <1>1, <2>1, <3>2 DEF Working
  <2>. QED  BY <1>0, <1>1, <1>3, <1>4, <2>1, <2>2, <2>4, RoomStep DEF AtRoom, Made
<1>. QED  BY <1>5, <1>6, <1>7

\* The steps after the room is made, which make no room.
LEMMA MadeStep ==
    ASSUME IInv, BInv, NEW s \in Slot, NEW j, j = job[s], j.pc \in Made, promise # {},
           NEW k \in JobRecord, Given(s, k), SameList(k, j),
           \/ k.pc \in Made \ {"members"} /\ k.c = j.c /\ k.words = j.words
           \/ k.pc = "eachChannel",
           UNCHANGED <<mattermost, promise, teamKey>>, DOMAIN rooms' = DOMAIN rooms,
           \A c \in Channel : Done(c) => Done(c)',
           \A c \in Channel : c \in promise /\ c = j.c /\ Working(j, c) => Working(k, c)' \/ Done(c)'
    PROVE  BInv'
<1>1. j.pc \in AtRoom /\ k.pc \in (AtRoom \ {"members"}) \cup {"eachChannel"} /\ j.pc # "team"
  BY DEF AtRoom, Made
<1>2. j.c \in Channel /\ j.words = NameOf(j.c)
  BY <1>1, RoomJob
<1>3. channel' = channel
  BY DEF mattermost
<1>4. Wording(k)'
  BY <1>2, <1>3, SameNames DEF Wording, Made
<1>5. \A c \in Channel : (Fresh(c) => Fresh(c)') /\ (Working(j, c) => c = j.c)
  BY <1>3, SameNames DEF Fresh, Working
<1>. QED  BY <1>1, <1>4, <1>5, RoomStep

LEMMA BOpen == ASSUME IInv, BInv, NEW s \in Slot, promise # {}, Fine, Open(s) PROVE BInv'
<1>0. PICK j : j = job[s]
  OBVIOUS
<1>1. j.pc = "open" /\ j.pc \in Made /\ j.pc \in AtRoom
  BY <1>0 DEF Open, AtRoom, Made
<1>2. j \in JobRecord /\ j.pc # "idle" /\ j.c \in Channel /\ j.kind = "backfill"
  BY <1>0, <1>1, RoomJob
<1>3. UNCHANGED <<mattermost, promise, teamKey, channel, channelKey, roomKey, children>>
  BY DEF Open, Fine, kvstore, mattermost
<1>4. DOMAIN rooms' = DOMAIN rooms /\ Goto(s, "forward")
  BY <1>0, <1>2, Sound DEF Open
<1>5. PICK k \in JobRecord : Given(s, k) /\ SameList(k, j) /\ k.pc = "forward" /\ k.c = j.c /\ k.words = j.words
  BY <1>0, <1>2, <1>4, WentTo DEF Pcs, AtRoom, Made
<1>6. \A c \in Channel : Done(c)' = Done(c) /\ (c = j.c => Working(k, c)')
  BY <1>3, <1>5, SameNames DEF Done, Working
<1>. QED  BY <1>0, <1>1, <1>3, <1>4, <1>5, <1>6, MadeStep DEF Made

LEMMA BStoreForward == ASSUME IInv, BInv, NEW s \in Slot, promise # {}, Fine, StoreForward(s) PROVE BInv'
<1>0. PICK j : j = job[s]
  OBVIOUS
<1>1. j.pc = "forward" /\ j.pc \in Made /\ j.pc \in AtRoom
  BY <1>0 DEF StoreForward, AtRoom, Made
<1>2. /\ j \in JobRecord /\ j.pc # "idle" /\ j.c \in Channel /\ j.kind = "backfill"
      /\ Returned(j) = Stamped(j.c)
  BY <1>0, <1>1, RoomJob
<1>3. UNCHANGED <<mattermost, promise, teamKey, channel, rooms, roomKey, children>>
  BY DEF StoreForward, Fine, mattermost, matrix
<1>4. channelKey' = [channelKey EXCEPT ![j.c] = Stamped(j.c)] /\ Goto(s, "reverse")
  BY <1>0, <1>2, Sound DEF StoreForward
<1>5. PICK k \in JobRecord : Given(s, k) /\ SameList(k, j) /\ k.pc = "reverse" /\ k.c = j.c /\ k.words = j.words
  BY <1>0, <1>2, <1>4, WentTo DEF Pcs, AtRoom, Made
<1>6. ASSUME NEW c \in Channel
      PROVE  /\ Done(c) => Done(c)'
             /\ c = j.c => Working(k, c)'
  <2>1. channelKey'[j.c] = Stamped(j.c) /\ (c # j.c => channelKey'[c] = channelKey[c])
    BY <1>2, <1>4 DEF IInv, World, Types
  <2>2. Stamped(c)' = Stamped(c) /\ TeamOf(c)' = TeamOf(c)
    BY <1>3, SameNames
  <2>. QED  BY <1>3, <1>5, <2>1, <2>2 DEF Done, Working
<1>. QED  BY <1>0, <1>1, <1>3, <1>5, <1>6, MadeStep DEF Made

LEMMA BStoreReverse == ASSUME IInv, BInv, NEW s \in Slot, promise # {}, Fine, StoreReverse(s) PROVE BInv'
<1>0. PICK j : j = job[s]
  OBVIOUS
<1>1. j.pc = "reverse" /\ j.pc \in Made /\ j.pc \in AtRoom
  BY <1>0 DEF StoreReverse, AtRoom, Made
<1>2. /\ j \in JobRecord /\ j.pc # "idle" /\ j.c \in Channel /\ j.kind = "backfill"
      /\ Returned(j) = Stamped(j.c)
  BY <1>0, <1>1, RoomJob
<1>3. UNCHANGED <<mattermost, promise, teamKey, channel, rooms, channelKey, children>>
  BY DEF StoreReverse, Fine, mattermost, matrix
<1>4. roomKey' = Put(roomKey, Stamped(j.c), j.c) /\ Goto(s, "find")
  BY <1>0, <1>2, Sound DEF StoreReverse
<1>5. PICK k \in JobRecord : Given(s, k) /\ SameList(k, j) /\ k.pc = "find" /\ k.c = j.c /\ k.words = j.words
  BY <1>0, <1>2, <1>4, WentTo DEF Pcs, AtRoom, Made
<1>6. DOMAIN roomKey' = DOMAIN roomKey \cup {Stamped(j.c)}
  BY <1>4 DEF Put
<1>7. \A c \in Channel : (Done(c) => Done(c)') /\ (c = j.c /\ Working(j, c) => Working(k, c)')
  BY <1>1, <1>3, <1>5, <1>6, SameNames DEF Done, Working
<1>. QED  BY <1>0, <1>1, <1>3, <1>5, <1>7, MadeStep DEF Made

LEMMA BFindSpace == ASSUME IInv, BInv, NEW s \in Slot, promise # {}, Fine, FindSpace(s) PROVE BInv'
<1>0. PICK j : j = job[s]
  OBVIOUS
<1>1. j.pc = "find" /\ j.pc \in Made /\ j.pc \in AtRoom
  BY <1>0 DEF FindSpace, AtRoom, Made
<1>2. j \in JobRecord /\ j.pc # "idle" /\ j.c \in Channel /\ j.kind = "backfill" /\ TeamOf(j.c) = j.t
  BY <1>0, <1>1, RoomJob
<1>3. UNCHANGED <<mattermost, promise, teamKey, channel, rooms, channelKey, roomKey, children>>
  BY DEF FindSpace, Fine, mattermost, matrix, kvstore
<1>4. (teamKey[j.t] = None /\ Return(s)) \/ Goto(s, "child")
  BY <1>0, Sound DEF FindSpace
<1>5. \A c \in Channel : Done(c)' = Done(c) /\ Stamped(c)' = Stamped(c)
  BY <1>3, SameNames DEF Done
<1>6. CASE teamKey[j.t] = None /\ Return(s)
  <2>1. PICK k \in JobRecord : Given(s, k) /\ SameList(k, j) /\ k.pc = "eachChannel"
    BY <1>0, <1>1, <1>2, <1>6, CameBack
  <2>2. ASSUME NEW c \in Channel, c \in promise, c = j.c  PROVE FALSE
    <3>1. Progress(j, c)
      BY <1>0, <1>2, <2>2, Owed DEF Idle
    <3>2. Spaced(c)
      BY <1>1, <3>1 DEF Progress, ToRooms, TeamStage
    <3>. QED  BY <1>2, <1>6, <2>2, <3>2 DEF Spaced
  <2>. QED  BY <1>0, <1>1, <1>3, <1>5, <2>1, <2>2, MadeStep
<1>7. CASE Goto(s, "child")
  <2>1. PICK k \in JobRecord : Given(s, k) /\ SameList(k, j) /\ k.pc = "child" /\ k.c = j.c /\ k.words = j.words
    BY <1>0, <1>2, <1>7, WentTo DEF Pcs, AtRoom, Made
  <2>2. \A c \in Channel : c = j.c /\ Working(j, c) => Working(k, c)'
    BY <1>1, <1>3, <1>5, <2>1 DEF Working
  <2>. QED  BY <1>0, <1>1, <1>3, <1>5, <2>1, <2>2, MadeStep DEF Made
<1>. QED  BY <1>4, <1>6, <1>7

LEMMA BAddSpaceChild == ASSUME IInv, BInv, NEW s \in Slot, promise # {}, Fine, AddSpaceChild(s) PROVE BInv'
<1>0. PICK j : j = job[s]
  OBVIOUS
<1>1. j.pc = "child" /\ j.pc \in Made /\ j.pc \in AtRoom
  BY <1>0 DEF AddSpaceChild, AtRoom, Made
<1>2. /\ j \in JobRecord /\ j.pc # "idle" /\ j.c \in Channel /\ j.kind = "backfill" /\ TeamOf(j.c) = j.t
      /\ Returned(j) = Stamped(j.c)
  BY <1>0, <1>1, RoomJob
<1>3. UNCHANGED <<mattermost, promise, teamKey, channel, rooms, channelKey, roomKey>>
  BY DEF AddSpaceChild, Fine, mattermost, kvstore
<1>4. children' = children \cup {<<teamKey[j.t], Stamped(j.c)>>} /\ Return(s)
  BY <1>0, <1>2, Sound DEF AddSpaceChild
<1>5. PICK k \in JobRecord : Given(s, k) /\ SameList(k, j) /\ k.pc = "eachChannel"
  BY <1>0, <1>1, <1>2, <1>4, CameBack
<1>6. ASSUME NEW c \in Channel
      PROVE  (Done(c) => Done(c)') /\ (c = j.c /\ Working(j, c) => Done(c)')
  <2>1. Stamped(c)' = Stamped(c) /\ TeamOf(c)' = TeamOf(c)
    BY <1>3, SameNames
  <2>. QED  BY <1>1, <1>2, <1>3, <1>4, <2>1 DEF Done, Working
<1>. QED  BY <1>0, <1>1, <1>3, <1>5, <1>6, MadeStep

-----------------------------------------------------------------------------
(* The steps of a backfill on its lists of teams and channels. *)

LEMMA ListJob ==
    ASSUME IInv, BInv, NEW s \in Slot, NEW j, j = job[s], j.pc # "idle", promise # {}
    PROVE  /\ j \in JobRecord /\ j.t \in Team /\ j.teams \subseteq Team /\ j.channels \subseteq Channel /\ j.page \in Nat
           /\ j.kind = "backfill" /\ j.mode = "all"
<1>1. j \in JobRecord /\ job[s] # Idle
  BY Mine
<1>2. PICK c \in Channel : c \in promise
  BY DEF IInv, World, Types
<1>3. Backfills(j)
  BY <1>1, <1>2, Owed
<1>. QED  BY <1>1, <1>3, JobFields DEF Backfills

LEMMA ListStep ==
    ASSUME IInv, BInv, NEW s \in Slot, NEW j, j = job[s], j.pc # "idle", promise # {},
           NEW k \in JobRecord, Given(s, k), k.kind = j.kind, k.mode = j.mode, k.pc \notin AtRoom,
           UNCHANGED <<mattermost, promise>>, \A t \in Team : teamKey[t] # None => teamKey'[t] # None,
           \A c \in Channel : /\ c \in promise /\ Sole(c) /\ (Spaced(c) \/ SoleSpace(c)) /\ Exists(c)
                              /\ TeamOf(c) \in Team /\ TeamOf(c) \in team /\ Progress(j, c)
                              => Progress(k, c)'
    PROVE  BInv'
<1>1. job[s] # Idle /\ j.kind = "backfill" /\ j.mode = "all"
  BY ListJob DEF Idle
<1>2. Backfills(k)'
  BY <1>1 DEF Backfills, Wording, AtRoom, Made
<1>3. ASSUME NEW c \in Channel, c \in promise  PROVE Progress(k, c)'
  BY <1>1, <1>3, Owed
<1>. QED  BY <1>1, <1>2, <1>3, BStep

LEMMA BListTeams == ASSUME IInv, BInv, NEW s \in Slot, promise # {}, Fine, ListTeams(s) PROVE BInv'
<1>0. PICK j : j = job[s]
  OBVIOUS
<1>1. PICK next : /\ \/ j.pc = "teams" /\ next = "eachTeam"
                     \/ j.pc = "listTeams" /\ next = "eachList"
                  /\ job' = [job EXCEPT ![s].teams = team, ![s].pc = next]
  BY <1>0, Sound DEF ListTeams
<1>2. j \in JobRecord /\ team \subseteq Team
  BY <1>0, <1>1, ListJob DEF IInv, World, Types
<1>3. UNCHANGED <<mattermost, promise, team, channel, rooms, children, channelKey, roomKey, teamKey>>
  BY DEF ListTeams, Fine, mattermost, kvstore, matrix
<1>4. PICK k \in JobRecord : Given(s, k) /\ k.kind = j.kind /\ k.mode = j.mode /\ k.pc = next /\ k.teams = team
  <2>. DEFINE k == [j EXCEPT !.teams = team, !.pc = next]
  <2>1. k \in JobRecord /\ k.kind = j.kind /\ k.mode = j.mode /\ k.pc = next /\ k.teams = team
    BY <1>1, <1>2 DEF JobRecord
  <2>2. Given(s, k)
    BY <1>0, <1>1 DEF Given
  <2>. HIDE DEF k
  <2>. QED  BY <2>1, <2>2
<1>6. ASSUME NEW c \in Channel, TeamOf(c) \in team, Progress(j, c)  PROVE Progress(k, c)'
  <2>1. /\ Fresh(c)' = Fresh(c) /\ Spaced(c)' = Spaced(c) /\ Spaceless(c)' = Spaceless(c) /\ Done(c)' = Done(c)
        /\ TeamOf(c)' = TeamOf(c)
    BY <1>3, SameNames DEF Fresh, Spaced, Spaceless, Done
  <2>2. Ahead(k, c)'
    BY <1>3, <1>4, <1>6, <2>1 DEF Ahead
  <2>3. CASE j.pc = "teams"
    BY <1>1, <1>4, <1>6, <2>1, <2>2, <2>3 DEF Progress, ToSpaces, TeamStage
  <2>4. CASE j.pc = "listTeams"
    <3>1. Spaced(c) /\ (Done(c) \/ Fresh(c))
      BY <1>6, <2>4 DEF Progress, ToRooms, TeamStage, Working
    <3>. QED  BY <1>1, <1>4, <2>1, <2>2, <2>4, <3>1 DEF Progress, ToRooms, TeamStage
  <2>. QED  BY <1>1, <2>3, <2>4
<1>. QED  BY <1>0, <1>1, <1>3, <1>4, <1>6, ListStep DEF AtRoom, Made

\* A backfill of everything goes on to the channels when the teams are done.
LEMMA BSyncTeam == ASSUME IInv, BInv, NEW s \in Slot, promise # {}, Fine, SyncTeam(s) PROVE BInv'
<1>0. PICK j : j = job[s]
  OBVIOUS
<1>1. j.pc = "eachTeam"
  BY <1>0 DEF SyncTeam
<1>2. j \in JobRecord /\ j.teams \subseteq Team /\ j.mode = "all"
  BY <1>0, <1>1, ListJob
<1>3. UNCHANGED <<mattermost, promise, team, channel, rooms, children, channelKey, roomKey, teamKey>>
  BY DEF SyncTeam, Fine, mattermost, kvstore, matrix
<1>4. \A c \in Channel : /\ Fresh(c)' = Fresh(c) /\ Spaced(c)' = Spaced(c) /\ Spaceless(c)' = Spaceless(c)
                         /\ TeamOf(c)' = TeamOf(c)
  BY <1>3, SameNames DEF Fresh, Spaced, Spaceless
<1>5. CASE j.teams = {}
  <2>1. Goto(s, "listTeams")
    BY <1>0, <1>2, <1>5, Sound DEF SyncTeam
  <2>2. PICK k \in JobRecord : Given(s, k) /\ SameList(k, j) /\ k.pc = "listTeams"
    BY <1>0, <1>1, <2>1, WentTo DEF Pcs
  <2>3. ASSUME NEW c \in Channel, Progress(j, c)  PROVE Progress(k, c)'
    <3>1. Fresh(c) /\ Spaced(c)
      BY <1>1, <1>5, <2>3 DEF Progress, ToSpaces, TeamStage, Ahead
    <3>. QED  BY <1>4, <2>2, <3>1 DEF Progress, ToRooms, TeamStage
  <2>. QED  BY <1>0, <1>1, <1>3, <2>2, <2>3, ListStep DEF SameList, AtRoom, Made
<1>6. CASE j.teams # {}
  <2>1. PICK t \in j.teams : job' = [job EXCEPT ![s].teams = @ \ {t}, ![s].t = t, ![s].pc = "space"]
    <3>. DEFINE t == CHOOSE u \in j.teams : TRUE
    <3>1. t \in j.teams /\ job' = [job EXCEPT ![s].teams = @ \ {t}, ![s].t = t, ![s].pc = "space"]
      BY <1>0, <1>6, Sound DEF SyncTeam
    <3>. HIDE DEF t
    <3>. QED  BY <3>1
  <2>. DEFINE k == [j EXCEPT !.teams = @ \ {t}, !.t = t, !.pc = "space"]
  <2>2. /\ k \in JobRecord /\ k.kind = j.kind /\ k.mode = j.mode /\ k.pc = "space" /\ k.t = t
        /\ k.teams = j.teams \ {t}
    BY <1>2 DEF JobRecord
  <2>3. Given(s, k)
    BY <1>0, <2>1 DEF Given
  <2>. HIDE DEF k
  <2>4. ASSUME NEW c \in Channel, Progress(j, c)  PROVE Progress(k, c)'
    <3>1. ToSpaces(j, c)
      BY <1>1, <2>4 DEF Progress, TeamStage
    <3>2. Ahead(j, c) => Ahead(k, c)' \/ k.t = TeamOf(c)'
      BY <1>4, <2>2 DEF Ahead
    <3>. QED  BY <1>1, <1>4, <2>2, <3>1, <3>2 DEF Progress, ToSpaces, TeamStage
  <2>. QED  BY <1>0, <1>1, <1>3, <2>2, <2>3, <2>4, ListStep DEF AtRoom, Made
<1>. QED  BY <1>5, <1>6

LEMMA BCreateSpace == ASSUME IInv, BInv, NEW s \in Slot, promise # {}, Fine, CreateSpace(s) PROVE BInv'
<1>0. PICK j : j = job[s]
  OBVIOUS
<1>1. j.pc = "space"
  BY <1>0 DEF CreateSpace
<1>2. j \in JobRecord /\ j.t \in Team /\ j.kind = "backfill"
  BY <1>0, <1>1, ListJob
<1>3. UNCHANGED <<mattermost, promise, channel, teamKey>>
  BY DEF CreateSpace, Fine, mattermost, kvstore
<1>4. \A c \in Channel : Address(c)' = Address(c) /\ Spaced(c)' = Spaced(c) /\ TeamOf(c)' = TeamOf(c)
  BY <1>3, SameNames DEF Spaced
<1>. DEFINE a == SpaceAlias(j.t)
            r == Joined(New(j.t, TRUE))
<1>5. \/ a \in DOMAIN rooms /\ Return(s) /\ rooms' = rooms
      \/ a \notin DOMAIN rooms /\ Goto(s, "spaceKey") /\ rooms' = Put(rooms, a, r)
  BY <1>0, Sound DEF CreateSpace
<1>. HIDE DEF r
<1>6. CASE a \in DOMAIN rooms /\ Return(s) /\ rooms' = rooms
  <2>1. PICK k \in JobRecord : /\ Given(s, k) /\ k.pc = "eachTeam" /\ k.kind = j.kind /\ k.mode = j.mode
                               /\ k.teams = j.teams
    BY <1>0, <1>1, <1>2, <1>6, CameBack
  <2>2. ASSUME NEW c \in Channel, Progress(j, c)  PROVE Progress(k, c)'
    <3>1. Fresh(c) /\ (Spaced(c) \/ (Spaceless(c) /\ Ahead(j, c)))
      BY <1>1, <1>6, <2>2 DEF Progress, ToSpaces, TeamStage, Spaceless
    <3>2. Fresh(c)' /\ (Spaced(c)' \/ (Spaceless(c)' /\ Ahead(k, c)'))
      BY <1>4, <1>6, <2>1, <3>1 DEF Fresh, Spaceless, Ahead
    <3>. QED  BY <2>1, <3>2 DEF Progress, ToSpaces, TeamStage
  <2>. QED  BY <1>0, <1>1, <1>3, <2>1, <2>2, ListStep DEF AtRoom, Made
<1>7. CASE a \notin DOMAIN rooms /\ Goto(s, "spaceKey") /\ rooms' = Put(rooms, a, r)
  <2>1. PICK k \in JobRecord : Given(s, k) /\ SameList(k, j) /\ k.pc = "spaceKey"
    BY <1>0, <1>1, <1>7, WentTo DEF Pcs
  <2>2. DOMAIN rooms' = DOMAIN rooms \cup {a}
    BY <1>7 DEF Put
  <2>3. ASSUME NEW c \in Channel, Sole(c), Spaced(c) \/ SoleSpace(c), Progress(j, c)  PROVE Progress(k, c)'
    <3>1. Fresh(c) /\ (Spaced(c) \/ (Spaceless(c) /\ (Ahead(j, c) \/ j.t = TeamOf(c))))
      BY <1>1, <2>3 DEF Progress, ToSpaces, TeamStage
    <3>2. Fresh(c)'
      BY <1>2, <1>4, <2>2, <2>3, <3>1 DEF Fresh, Sole
    <3>3. Spaceless(c) => Spaced(c) \/ Spaceless(c)' \/ j.t = TeamOf(c)
      BY <1>2, <1>4, <2>2, <2>3 DEF Spaceless, SoleSpace
    <3>4. Ahead(k, c)' = Ahead(j, c) /\ k.t = j.t
      BY <1>4, <2>1 DEF Ahead, SameList
    <3>. QED  BY <1>4, <2>1, <3>1, <3>2, <3>3, <3>4 DEF Progress, ToSpaces, TeamStage
  <2>. QED  BY <1>0, <1>1, <1>3, <2>1, <2>3, ListStep DEF AtRoom, Made, SameList
<1>. QED  BY <1>5, <1>6, <1>7

LEMMA BStoreTeam == ASSUME IInv, BInv, NEW s \in Slot, promise # {}, Fine, StoreTeam(s) PROVE BInv'
<1>0. PICK j : j = job[s]
  OBVIOUS
<1>1. j.pc = "spaceKey"
  BY <1>0 DEF StoreTeam
<1>2. j \in JobRecord /\ j.t \in Team /\ j.kind = "backfill"
  BY <1>0, <1>1, ListJob
<1>3. UNCHANGED <<mattermost, promise, channel, rooms>>
  BY DEF StoreTeam, Fine, mattermost, matrix
<1>4. teamKey' = [teamKey EXCEPT ![j.t] = SpaceAlias(j.t)] /\ Return(s)
  BY <1>0, Sound DEF StoreTeam
<1>5. teamKey'[j.t] # None /\ \A t \in Team : teamKey[t] # None => teamKey'[t] # None
  BY <1>2, <1>4, AliasFacts DEF IInv, World, Types
<1>6. PICK k \in JobRecord : /\ Given(s, k) /\ k.pc = "eachTeam" /\ k.kind = j.kind /\ k.mode = j.mode
                             /\ k.teams = j.teams
  BY <1>0, <1>1, <1>2, <1>4, CameBack
<1>7. ASSUME NEW c \in Channel, TeamOf(c) \in Team, Progress(j, c)  PROVE Progress(k, c)'
  <2>1. Fresh(c) /\ (Spaced(c) \/ (Spaceless(c) /\ Ahead(j, c)) \/ j.t = TeamOf(c))
    BY <1>1, <1>7 DEF Progress, ToSpaces, TeamStage
  <2>2. Fresh(c)' = Fresh(c) /\ Spaceless(c)' = Spaceless(c) /\ TeamOf(c)' = TeamOf(c)
    BY <1>3, SameNames DEF Fresh, Spaceless
  <2>3. Spaced(c) \/ j.t = TeamOf(c) => Spaced(c)'
    BY <1>5, <1>7, <2>2 DEF Spaced
  <2>4. Ahead(j, c) => Ahead(k, c)'
    BY <1>6, <2>2 DEF Ahead
  <2>. QED  BY <1>6, <2>1, <2>2, <2>3, <2>4 DEF Progress, ToSpaces, TeamStage
<1>. QED  BY <1>0, <1>1, <1>3, <1>5, <1>6, <1>7, ListStep DEF AtRoom, Made

\* A backfill that ends has kept its promise.
LEMMA BNextTeam == ASSUME IInv, BInv, NEW s \in Slot, promise # {}, NextTeam(s) PROVE BInv'
<1>0. PICK j : j = job[s]
  OBVIOUS
<1>1. j.pc = "eachList" /\ job[s] # Idle
  <2>1. j.pc = "eachList"
    BY <1>0 DEF NextTeam
  <2>. QED  BY <1>0, <2>1 DEF Idle
<1>2. j \in JobRecord /\ j.teams \subseteq Team
  BY <1>0, <1>1, ListJob
<1>3. UNCHANGED <<mattermost, promise, team, channel, rooms, children, channelKey, roomKey, teamKey>>
  BY DEF NextTeam, mattermost, kvstore, matrix, history
<1>4. \A c \in Channel : /\ Fresh(c)' = Fresh(c) /\ Spaced(c)' = Spaced(c) /\ Done(c)' = Done(c)
                         /\ TeamOf(c)' = TeamOf(c) /\ PageOf(c)' = PageOf(c)
                         /\ Sole(c)' = Sole(c) /\ SoleSpace(c)' = SoleSpace(c)
  BY <1>3, SameNames DEF Fresh, Spaced, Done
<1>5. ASSUME NEW c \in Channel, Progress(j, c)
      PROVE  Spaced(c) /\ (Done(c) \/ (Fresh(c) /\ Ahead(j, c)))
  BY <1>1, <1>5 DEF Progress, ToRooms, TeamStage, Working
<1>6. CASE j.teams = {}
  <2>1. job' = [job EXCEPT ![s] = Idle]
    BY <1>0, <1>6 DEF NextTeam
  <2>2. job'[s] = Idle /\ \A o \in Slot \ {s} : job'[o] = job[o]
    BY <2>1, JobMoves
  <2>3. ASSUME NEW c \in Channel, c \in promise  PROVE Promised(c)'
    <3>1. Promised(c) /\ Progress(j, c)
      BY <1>0, <1>1, <2>3, Owed DEF BInv
    <3>2. Done(c)'
      BY <1>4, <1>5, <1>6, <3>1 DEF Ahead
    <3>3. \A o \in Slot : job'[o] = Idle
      BY <1>1, <2>2, <3>1 DEF Promised
    <3>. QED  BY <1>4, <3>1, <3>2, <3>3 DEF Promised
  <2>4. Housed'
    BY <1>3 DEF BInv, Housed, Exists
  <2>5. promise' = promise /\ promise \subseteq Channel
    BY <1>3 DEF IInv, World, Types
  <2>. QED  BY <2>3, <2>4, <2>5 DEF BInv
<1>7. CASE j.teams # {}
  <2>1. PICK t \in j.teams :
           job' = [job EXCEPT ![s].teams = @ \ {t}, ![s].t = t, ![s].page = 0, ![s].pc = "page"]
    <3>. DEFINE t == CHOOSE u \in j.teams : TRUE
    <3>1. t \in j.teams
          /\ job' = [job EXCEPT ![s].teams = @ \ {t}, ![s].t = t, ![s].page = 0, ![s].pc = "page"]
      BY <1>0, <1>7 DEF NextTeam
    <3>. HIDE DEF t
    <3>. QED  BY <3>1
  <2>. DEFINE k == [j EXCEPT !.teams = @ \ {t}, !.t = t, !.page = 0, !.pc = "page"]
  <2>2. /\ k \in JobRecord /\ k.kind = j.kind /\ k.mode = j.mode /\ k.pc = "page" /\ k.t = t /\ k.page = 0
        /\ k.teams = j.teams \ {t}
    BY <1>2 DEF JobRecord
  <2>3. Given(s, k)
    BY <1>0, <2>1 DEF Given
  <2>. HIDE DEF k
  <2>4. ASSUME NEW c \in Channel, Progress(j, c)  PROVE Progress(k, c)'
    <3>1. Ahead(j, c) => Ahead(k, c)' \/ k.t = TeamOf(c)'
      BY <1>4, <2>2 DEF Ahead
    <3>2. PageOf(c) >= 0
      <4>1. IsFiniteSet(Below(Public(TeamOf(c)), c))
        BY TeamSpacesAssumption, FS_Subset DEF Below, Public
      <4>. QED  BY <4>1, FS_CardinalityType, TeamSpacesAssumption, Division DEF PageOf, Page
    <3>3. k.t = TeamOf(c)' => OnList(k, c)'
      BY <1>4, <2>2, <3>2 DEF OnList
    <3>. QED  BY <1>4, <1>5, <2>2, <2>4, <3>1, <3>3 DEF Progress, ToRooms, TeamStage
  <2>. QED  BY <1>0, <1>1, <1>3, <2>2, <2>3, <2>4, ListStep DEF AtRoom, Made
<1>. QED  BY <1>6, <1>7

\* As long as a promised channel is on a page to come, no page before is empty.
LEMMA BListChannels == ASSUME IInv, BInv, NEW s \in Slot, promise # {}, Fine, ListChannels(s) PROVE BInv'
<1>0. PICK j : j = job[s]
  OBVIOUS
<1>1. j.pc = "page"
  BY <1>0 DEF ListChannels
<1>2. j \in JobRecord /\ j.page \in Nat
  BY <1>0, <1>1, ListJob
<1>3. UNCHANGED <<mattermost, promise, team, channel, rooms, children, channelKey, roomKey, teamKey>>
  BY DEF ListChannels, Fine, mattermost, kvstore, matrix
<1>4. \A c \in Channel : /\ Fresh(c)' = Fresh(c) /\ Spaced(c)' = Spaced(c) /\ Done(c)' = Done(c)
                         /\ TeamOf(c)' = TeamOf(c) /\ PageOf(c)' = PageOf(c)
  BY <1>3, SameNames DEF Fresh, Spaced, Done
<1>5. PICK found, pc :
          /\ found = {c \in Public(j.t) : Page(Public(j.t), c) = j.page}
          /\ pc = IF found = {} THEN "eachList" ELSE "eachChannel"
          /\ job' = [job EXCEPT ![s].channels = found, ![s].page = @ + 1, ![s].pc = pc]
  <2>. DEFINE public == {c \in Channel : Live(c) /\ ~channel[c].private /\ channel[c].team = job[s].t}
              all == {c \in public : Cardinality({d \in public : d < c}) \div PageSize = job[s].page}
              next == IF all = {} THEN "eachList" ELSE "eachChannel"
  <2>1. job' = [job EXCEPT ![s].channels = all, ![s].page = @ + 1, ![s].pc = next]
    BY Sound DEF ListChannels
  <2>2. all = {c \in Public(j.t) : Page(Public(j.t), c) = j.page}
    BY <1>0 DEF Public, Page, Below
  <2>. HIDE DEF all
  <2>. QED  BY <2>1, <2>2
<1>6. found \subseteq Channel /\ j.page + 1 \in Nat /\ pc \in {"eachList", "eachChannel"}
  <2>1. Public(j.t) \subseteq Channel
    BY DEF Public
  <2>2. found \subseteq Public(j.t) /\ pc \in {"eachList", "eachChannel"}
    BY <1>5, Zenon
  <2>. QED  BY <1>2, <2>1, <2>2
<1>. DEFINE k == [j EXCEPT !.channels = found, !.page = @ + 1, !.pc = pc]
<1>7. /\ k \in JobRecord /\ k.kind = j.kind /\ k.mode = j.mode /\ k.pc = pc /\ k.t = j.t /\ k.page = j.page + 1
      /\ k.teams = j.teams /\ k.channels = found
  BY <1>2, <1>6 DEF JobRecord
<1>8. Given(s, k)
  BY <1>0, <1>5 DEF Given
<1>. HIDE DEF k
<1>9. ASSUME NEW c \in Channel, Sole(c), TeamOf(c) = j.t, PageOf(c) >= j.page
      PROVE  found # {} /\ (c \in found \/ PageOf(c) >= j.page + 1)
  <2>0. PICK P : P = Public(j.t)
    OBVIOUS
  <2>1. P \subseteq Nat /\ IsFiniteSet(P) /\ c \in P
    BY <1>9, <2>0, TeamSpacesAssumption, FS_Subset DEF Public, Sole, TeamOf
  <2>2. PageOf(c) = Page(P, c)
    BY <1>9, <2>0 DEF PageOf
  <2>3. PageOf(c) \in Nat
    <3>1. IsFiniteSet(Below(P, c))
      BY <2>1, FS_Subset DEF Below
    <3>. QED  BY <2>2, <3>1, FS_CardinalityType, TeamSpacesAssumption, Division DEF Page
  <2>4. PICK d \in P : Page(P, d) = j.page
    <3>1. Page(P, c) >= j.page
      BY <1>9, <2>2
    <3>. QED  BY <1>2, <2>1, <3>1, NextPage
  <2>5. d \in found
    BY <1>5, <2>0, <2>4
  <2>6. PageOf(c) = j.page => c \in found
    BY <1>5, <2>0, <2>1, <2>2
  <2>. QED  BY <1>2, <1>9, <2>3, <2>5, <2>6
<1>10. ASSUME NEW c \in Channel, Sole(c), Progress(j, c)  PROVE Progress(k, c)'
  <2>1. Spaced(c) /\ (Done(c) \/ (Fresh(c) /\ (Ahead(j, c) \/ OnList(j, c))))
    BY <1>1, <1>10 DEF Progress, ToRooms, TeamStage, Working
  <2>2. Ahead(j, c) => Ahead(k, c)'
    BY <1>4, <1>7 DEF Ahead
  <2>3. OnList(j, c) => OnList(k, c)' /\ k.pc = "eachChannel"
    BY <1>1, <1>4, <1>5, <1>7, <1>9, <1>10 DEF OnList
  <2>4. k.pc \notin TeamStage
    BY <1>6, <1>7 DEF TeamStage
  <2>. QED  BY <1>4, <2>1, <2>2, <2>3, <2>4 DEF Progress, ToRooms
<1>. QED  BY <1>0, <1>1, <1>3, <1>6, <1>7, <1>8, <1>10, ListStep DEF AtRoom, Made

LEMMA BSyncChannel == ASSUME IInv, BInv, NEW s \in Slot, promise # {}, Fine, SyncChannel(s) PROVE BInv'
<1>0. PICK j : j = job[s]
  OBVIOUS
<1>1. j.pc = "eachChannel" /\ job[s] # Idle
  <2>1. j.pc = "eachChannel"
    BY <1>0 DEF SyncChannel
  <2>. QED  BY <1>0, <2>1 DEF Idle
<1>2. j \in JobRecord /\ j.channels \subseteq Channel /\ j.kind = "backfill" /\ j.mode = "all"
  BY <1>0, <1>1, ListJob
<1>3. UNCHANGED <<mattermost, promise, team, channel, rooms, children, channelKey, roomKey, teamKey>>
  BY DEF SyncChannel, Fine, mattermost, kvstore, matrix
<1>4. \A c \in Channel : /\ Fresh(c)' = Fresh(c) /\ Spaced(c)' = Spaced(c) /\ Done(c)' = Done(c)
                         /\ TeamOf(c)' = TeamOf(c) /\ PageOf(c)' = PageOf(c)
  BY <1>3, SameNames DEF Fresh, Spaced, Done
<1>5. ASSUME NEW c \in Channel, Progress(j, c)
      PROVE  Spaced(c) /\ (Done(c) \/ (Fresh(c) /\ (Ahead(j, c) \/ OnList(j, c))))
  BY <1>1, <1>5 DEF Progress, ToRooms, TeamStage, Working
<1>6. CASE j.channels = {}
  <2>1. Goto(s, "page")
    BY <1>0, <1>6 DEF SyncChannel
  <2>2. PICK k \in JobRecord : Given(s, k) /\ SameList(k, j) /\ k.pc = "page"
    BY <1>0, <1>1, <2>1, WentTo DEF Pcs
  <2>3. ASSUME NEW c \in Channel, Progress(j, c)  PROVE Progress(k, c)'
    <3>1. (Ahead(j, c) => Ahead(k, c)') /\ (OnList(j, c) => OnList(k, c)')
      BY <1>4, <1>6, <2>2 DEF Ahead, OnList, SameList
    <3>. QED  BY <1>4, <1>5, <2>2, <2>3, <3>1 DEF Progress, ToRooms, TeamStage
  <2>. QED  BY <1>0, <1>1, <1>3, <2>2, <2>3, ListStep DEF SameList, AtRoom, Made
<1>7. CASE j.channels # {}
  <2>1. PICK d \in j.channels :
           job' = [job EXCEPT ![s].channels = @ \ {d}, ![s].c = d, ![s].pc = "team",
                              ![s].words = channel[d].name, ![s].public = ~channel[d].private]
    BY <1>0, <1>7, Sound DEF SyncChannel
  <2>2. d \in Channel /\ channel[d].name \in Words /\ (~channel[d].private) \in BOOLEAN
    <3>1. Exists(d)
      BY <1>0, <1>1, <2>1, Mine DEF JobOK
    <3>. QED  BY <1>2, <3>1, ChannelFields, NamesAreWords DEF IInv, World
  <2>3. PICK k \in JobRecord :
           /\ Given(s, k) /\ k.kind = j.kind /\ k.mode = j.mode /\ k.pc = "team" /\ k.c = d
           /\ k.words = channel[d].name /\ k.channels = j.channels \ {d}
           /\ k.t = j.t /\ k.teams = j.teams /\ k.page = j.page
    <3>. DEFINE k == [j EXCEPT !.channels = @ \ {d}, !.c = d, !.pc = "team",
                               !.words = channel[d].name, !.public = ~channel[d].private]
    <3>1. /\ k \in JobRecord /\ k.kind = j.kind /\ k.mode = j.mode /\ k.pc = "team" /\ k.c = d
          /\ k.words = channel[d].name /\ k.channels = j.channels \ {d}
          /\ k.t = j.t /\ k.teams = j.teams /\ k.page = j.page
      BY <1>2, <2>2 DEF JobRecord
    <3>2. Given(s, k)
      BY <1>0, <2>1 DEF Given
    <3>. HIDE DEF k
    <3>. QED  BY <3>1, <3>2
  <2>4. Backfills(k)'
    BY <1>2, <1>3, <2>3 DEF Backfills, Wording
  <2>5. ASSUME NEW c \in Channel, c \in promise  PROVE Progress(k, c)'
    <3>1. Progress(j, c)
      BY <1>0, <1>1, <2>5, Owed
    <3>2. Ahead(j, c) => Ahead(k, c)'
      BY <1>4, <2>3 DEF Ahead
    <3>3. OnList(j, c) => OnList(k, c)' \/ c = d
      BY <1>4, <2>3 DEF OnList
    <3>4. Fresh(c) /\ c = d => Working(k, c)'
      BY <1>4, <2>3 DEF Working
    <3>. QED  BY <1>4, <1>5, <2>3, <3>1, <3>2, <3>3, <3>4 DEF Progress, ToRooms, TeamStage
  <2>. QED  BY <1>1, <1>3, <2>3, <2>4, <2>5, BStep
<1>. QED  BY <1>6, <1>7

-----------------------------------------------------------------------------
(* A promise is made when nothing else is at work; all else withdraws it.  *)

\* An alias that one channel or team only asks for.
LEMMA AloneMeans ==
    ASSUME Types, NEW a, Alone(a), NEW x,
           NEW S, S = {t \in Team : SpaceAlias(t) = a} \cup {c \in Channel : Exists(c) /\ RoomAlias(NameOf(c)) = a},
           x \in S
    PROVE  /\ a \notin DOMAIN rooms
           /\ \A t \in Team : SpaceAlias(t) = a => t = x
           /\ \A c \in Channel : Exists(c) /\ Address(c) = a => c = x
<1>1. a \notin DOMAIN rooms /\ Cardinality(S) = 1
  BY DEF Alone
<1>2. IsFiniteSet(S)
  <2>1. IsFiniteSet(Team \cup Channel)
    BY TeamSpacesAssumption, FS_Union
  <2>. QED  BY <2>1, FS_Subset
<1>3. PICK y : S = {y}
  BY <1>1, <1>2, FS_Singleton
<1>4. \A z \in S : z = x
  BY <1>3
<1>. QED  BY <1>1, <1>4 DEF Address

LEMMA BBackfillCommand == ASSUME IInv, BInv, NEW s \in Slot, BackfillCommand(s) PROVE BInv'
<1>1. UNCHANGED <<team, channel, rooms, teamKey>>
  BY DEF BackfillCommand, mattermost, matrix, kvstore
<1>2. Housed'
  BY <1>1 DEF BInv, Housed, Exists
<1>3. ASSUME NEW c \in Channel, c \in promise'  PROVE Promised(c)'
  <2>1. /\ \A o \in Slot : job[o] = Idle
        /\ Live(c) /\ ~channel[c].private /\ Alone(Address(c)) /\ (Spaced(c) \/ Alone(SpaceAlias(TeamOf(c))))
        /\ Begin(s, "teams", "backfill", AnyTeam, AnyChannel, AnyName, TRUE, "all")
    BY <1>3 DEF BackfillCommand, Address, TeamOf, Spaced
  <2>2. Types /\ Exists(c) /\ TeamOf(c) \in Team
    BY <2>1, ChannelFields DEF IInv, World, Live, TeamOf
  <2>3. Sole(c) /\ Fresh(c)
    <3>1. PICK a : a = Address(c)
      OBVIOUS
    <3>2. PICK S : S = {t \in Team : SpaceAlias(t) = a} \cup {d \in Channel : Exists(d) /\ RoomAlias(NameOf(d)) = a}
      OBVIOUS
    <3>3. c \in S /\ Alone(a)
      BY <2>1, <2>2, <3>1, <3>2 DEF Address
    <3>4. /\ a \notin DOMAIN rooms
          /\ \A t \in Team : SpaceAlias(t) = a => t = c
          /\ \A d \in Channel : Exists(d) /\ Address(d) = a => d = c
      BY <2>2, <3>2, <3>3, AloneMeans
    <3>5. c \notin Team
      BY TeamSpacesAssumption
    <3>. QED  BY <2>1, <3>1, <3>4, <3>5 DEF Sole, Fresh
  <2>4. Spaced(c) \/ (SoleSpace(c) /\ Spaceless(c))
    <3>. SUFFICES ASSUME ~Spaced(c)  PROVE SoleSpace(c) /\ Spaceless(c)
      OBVIOUS
    <3>1. PICK a, t : t = TeamOf(c) /\ a = SpaceAlias(t)
      OBVIOUS
    <3>2. PICK S : S = {u \in Team : SpaceAlias(u) = a} \cup {d \in Channel : Exists(d) /\ RoomAlias(NameOf(d)) = a}
      OBVIOUS
    <3>3. t \in S /\ Alone(a)
      BY <2>1, <2>2, <3>1, <3>2
    <3>4. /\ a \notin DOMAIN rooms
          /\ \A u \in Team : SpaceAlias(u) = a => u = t
          /\ \A d \in Channel : Exists(d) /\ Address(d) = a => d = t
      BY <2>2, <3>2, <3>3, AloneMeans
    <3>5. t \notin Channel
      BY <2>2, <3>1, TeamSpacesAssumption
    <3>. QED  BY <3>1, <3>4, <3>5 DEF SoleSpace, Spaceless
  <2>5. PICK k : k = [pc |-> "teams", kind |-> "backfill", t |-> AnyTeam, c |-> AnyChannel, words |-> AnyName,
                      public |-> TRUE, offset |-> 0, mode |-> "all", teams |-> {}, channels |-> {}, page |-> 0]
    OBVIOUS
  <2>6. job' = [job EXCEPT ![s] = k]
    BY <2>1, <2>5 DEF Begin
  <2>7. job'[s] = k /\ k # Idle /\ \A o \in Slot \ {s} : job'[o] = Idle
    <3>1. k.pc = "teams" /\ Idle.pc = "idle"
      BY <2>5 DEF Idle
    <3>2. job'[s] = k /\ \A o \in Slot \ {s} : job'[o] = job[o]
      BY <2>6, JobMoves
    <3>. QED  BY <2>1, <3>1, <3>2
  <2>8. k.pc = "teams" /\ k.kind = "backfill" /\ k.mode = "all"
    BY <2>5
  <2>9. Backfills(k)'
    BY <2>8 DEF Backfills, Wording
  <2>10. Sole(c)' /\ (Spaced(c) \/ SoleSpace(c))' /\ Progress(k, c)'
    <3>1. /\ Sole(c)' = Sole(c) /\ SoleSpace(c)' = SoleSpace(c) /\ Fresh(c)' = Fresh(c)
          /\ Spaced(c)' = Spaced(c) /\ Spaceless(c)' = Spaceless(c)
      BY <1>1, SameNames DEF Fresh, Spaced, Spaceless
    <3>. QED  BY <2>3, <2>4, <2>8, <3>1 DEF Progress, ToSpaces, TeamStage
  <2>11. Backfills(job[s])' /\ Progress(job[s], c)'
    BY <2>7, <2>9, <2>10 DEF Backfills, Wording, Progress, ToSpaces, ToRooms, Ahead, OnList, Working
  <2>12. ~AtRest'
    BY <2>7 DEF AtRest
  <2>13. ASSUME NEW o \in Slot, job'[o] # Idle
         PROVE  /\ \A q \in Slot \ {o} : job'[q] = Idle
                /\ Backfills(job[o])' /\ Progress(job[o], c)'
    <3>1. o = s
      BY <2>7, <2>13
    <3>. QED  BY <2>7, <2>11, <3>1
  <2>. QED  BY <2>10, <2>12, <2>13 DEF Promised
<1>4. promise' \subseteq Channel
  BY DEF BackfillCommand
<1>. QED  BY <1>2, <1>3, <1>4 DEF BInv

LEMMA BOthers ==
    ASSUME IInv, BInv,
           \/ \E s \in Slot, t \in Team : CreateTeam(s, t)
           \/ \E s \in Slot, c \in Channel : CreateChannel(s, c) \/ CreateCommand(s, c)
           \/ \E c \in Channel : Change(c)
           \/ Crash
    PROVE  BInv'
<1>. SUFFICES Housed' /\ promise' = {}
  BY DEF BInv
<1>0. Housed /\ DOMAIN channel = Channel
  BY DEF BInv, IInv, World, Types
<1>1. ASSUME NEW s \in Slot, NEW t \in Team, CreateTeam(s, t)  PROVE Housed' /\ promise' = {}
  BY <1>0, <1>1 DEF CreateTeam, Housed, Exists
<1>2. ASSUME NEW s \in Slot, NEW c \in Channel, CreateChannel(s, c)  PROVE Housed' /\ promise' = {}
  <2>1. PICK t, r : t \in team /\ r.team = t /\ channel' = [channel EXCEPT ![c] = r] /\ promise' = {} /\ team' = team
    <3>1. PICK t \in team, n \in Name, private \in BOOLEAN :
             channel' = [channel EXCEPT ![c] = [team |-> t, name |-> n, private |-> private, archived |-> FALSE]]
      BY <1>2 DEF CreateChannel
    <3>. QED  BY <1>2, <3>1 DEF CreateChannel
  <2>. QED  BY <1>0, <2>1 DEF Housed, Exists
<1>3. ASSUME NEW s \in Slot, NEW c \in Channel, CreateCommand(s, c)  PROVE Housed' /\ promise' = {}
  BY <1>0, <1>3 DEF CreateCommand, mattermost, Housed, Exists
<1>4. ASSUME NEW c \in Channel, Change(c)  PROVE Housed' /\ promise' = {}
  <2>1. Exists(c) /\ promise' = {} /\ team' = team
    BY <1>4 DEF Change, Live
  <2>2. channel[c] \in ChannelRecord
    BY <2>1, ChannelFields DEF IInv, World
  <2>3. channel'[c].team = channel[c].team /\ \A d \in Channel \ {c} : channel'[d] = channel[d]
    <3>1. CASE channel' = [channel EXCEPT ![c].archived = TRUE]
      BY <1>0, <2>2, <3>1 DEF ChannelRecord
    <3>2. ASSUME NEW n \in Name, channel' = [channel EXCEPT ![c].name = n]
          PROVE  channel'[c].team = channel[c].team /\ \A d \in Channel \ {c} : channel'[d] = channel[d]
      BY <1>0, <2>2, <3>2 DEF ChannelRecord
    <3>. QED  BY <1>4, <3>1, <3>2 DEF Change
  <2>. QED  BY <1>0, <2>1, <2>3 DEF Housed, Exists
<1>5. CASE Crash
  BY <1>0, <1>5 DEF Crash, Fault, mattermost, Housed, Exists
<1>. QED  BY <1>1, <1>2, <1>3, <1>4, <1>5

LEMMA StepPromise ==
    ASSUME IInv, NEW s \in Slot, Step(s)
    PROVE  UNCHANGED mattermost /\ (promise' = {} \/ Fine)
<1>1. CASE NextTeam(s)
  BY <1>1 DEF NextTeam, history, Fine
<1>2. CASE CreateSpace(s) \/ StoreTeam(s) \/ Open(s) \/ CreateRoom(s)
  BY <1>2 DEF CreateSpace, StoreTeam, Open, CreateRoom, Fault
<1>3. CASE SyncMembers(s) \/ StoreForward(s) \/ StoreReverse(s) \/ AddSpaceChild(s)
  BY <1>3 DEF SyncMembers, StoreForward, StoreReverse, AddSpaceChild, Fault
<1>4. CASE GetTeam(s) \/ FindSpace(s) \/ ListTeams(s)
  BY <1>4 DEF GetTeam, FindSpace, ListTeams, Fault
<1>5. CASE SyncTeam(s)
  BY <1>5 DEF SyncTeam, Fault
<1>6. CASE ListChannels(s)
  BY <1>6 DEF ListChannels, Fault
<1>7. CASE SyncChannel(s)
  BY <1>7 DEF SyncChannel, Fault
<1>. QED  BY <1>1, <1>2, <1>3, <1>4, <1>5, <1>6, <1>7 DEF Step

LEMMA NextBInv == ASSUME IInv, BInv, [Next]_vars PROVE BInv'
<1>1. ASSUME NEW s \in Slot, Step(s)  PROVE BInv'
  <2>1. CASE promise' = {}
    BY <1>1, <2>1, StepPromise, Unpromised
  <2>2. CASE promise' # {}
    <3>1. Fine /\ promise # {}
      BY <1>1, <2>2, StepPromise DEF Fine
    <3>2. ~SyncMembers(s)
      <4>1. SUFFICES ASSUME job[s].pc = "members"  PROVE FALSE
        BY DEF SyncMembers
      <4>. QED  BY <3>1, <4>1, RoomJob DEF AtRoom, Made
    <3>. QED  BY <1>1, <3>1, <3>2, BGetTeam, BCreateRoom, BOpen, BStoreForward, BStoreReverse, BFindSpace, BAddSpaceChild,
                 BListTeams, BSyncTeam, BCreateSpace, BStoreTeam, BNextTeam, BListChannels, BSyncChannel DEF Step
  <2>. QED  BY <2>1, <2>2
<1>2. CASE UNCHANGED vars
  <2>1. UNCHANGED <<team, channel, rooms, children, channelKey, roomKey, teamKey, job, promise>>
    BY <1>2 DEF vars, mattermost, matrix, kvstore, history
  <2>2. Housed'
    BY <2>1 DEF BInv, Housed, Exists
  <2>3. ASSUME NEW c \in promise  PROVE Promised(c)'
    <3>1. /\ Sole(c)' = Sole(c) /\ SoleSpace(c)' = SoleSpace(c) /\ Fresh(c)' = Fresh(c)
          /\ Spaced(c)' = Spaced(c) /\ Spaceless(c)' = Spaceless(c) /\ Done(c)' = Done(c)
          /\ TeamOf(c)' = TeamOf(c) /\ PageOf(c)' = PageOf(c) /\ Address(c)' = Address(c) /\ Stamped(c)' = Stamped(c)
      BY <2>1, SameNames DEF Fresh, Spaced, Spaceless, Done
    <3>2. ASSUME NEW s \in Slot
          PROVE  Backfills(job[s])' = Backfills(job[s]) /\ Progress(job[s], c)' = Progress(job[s], c)
      <4>1. Backfills(job[s])' = Backfills(job[s])
        BY <2>1, SameNames DEF Backfills, Wording
      <4>2. Progress(job[s], c)' = Progress(job[s], c)
        BY <2>1, <3>1 DEF Progress, ToSpaces, ToRooms, Ahead, OnList, Working
      <4>. QED  BY <4>1, <4>2
    <3>3. Promised(c)
      BY DEF BInv
    <3>. QED  BY <2>1, <3>1, <3>2, <3>3 DEF Promised, AtRest
  <2>. QED  BY <2>1, <2>2, <2>3 DEF BInv
<1>. QED  BY <1>1, <1>2, BBackfillCommand, BOthers DEF Next

\* No room is forgotten when no call fails, and a backfill that nothing
\* disturbs gives every promised channel a room in the space of its team, for
\* any pages of the listing.
THEOREM TeamSpacesSettled == Spec => []Settled
<1>1. Init => NInv /\ BInv
  <2>. SUFFICES ASSUME Init  PROVE NInv /\ BInv
    OBVIOUS
  <2>1. rooms = <<>> /\ promise = {}
    BY DEF Init
  <2>2. ASSUME NEW c \in Channel, Exists(c)  PROVE channel[c].team \in team
    <3>1. PICK old : team \in (IF old = {} THEN {{}, Team} ELSE {Team}) /\ (Exists(c) => c \in old)
      BY DEF Init
    <3>2. channel[c] \in ChannelRecord
      BY <2>2 DEF Init, Exists
    <3>. QED  BY <2>2, <3>1, <3>2 DEF ChannelRecord
  <2>3. DOMAIN rooms = {}
    BY <2>1
  <2>. QED  BY <2>1, <2>2, <2>3 DEF NInv, BInv, Housed
<1>2. IInv /\ NInv /\ BInv /\ [Next]_vars => NInv' /\ BInv'
  BY NextNInv, NextBInv
<1>3. IInv /\ NInv /\ BInv => Settled
  <2>. SUFFICES ASSUME IInv, NInv, BInv, AtRest
                PROVE  /\ faults = 0 => \A a \in DOMAIN rooms :
                            LET of == rooms[a].of
                            IN  IF of \in Team THEN teamKey[of] = a
                                ELSE channelKey[of] # None /\ \E i \in DOMAIN roomKey : i.alias = a /\ roomKey[i] = of
                       /\ \A c \in promise : /\ channelKey[c] = Stamped(c) /\ channelKey[c] \in DOMAIN roomKey
                                             /\ <<teamKey[channel[c].team], channelKey[c]>> \in children
    BY DEF Settled, NoOrphans, BackfillCompletes, Stamped, Address
  <2>1. ASSUME faults = 0, NEW a \in DOMAIN rooms
        PROVE  LET of == rooms[a].of
               IN  IF of \in Team THEN teamKey[of] = a
                   ELSE channelKey[of] # None /\ \E i \in DOMAIN roomKey : i.alias = a /\ roomKey[i] = of
    <3>1. Known(a)
      BY <2>1 DEF NInv
    <3>2. \A s \in Slot : job[s].pc = "idle"
      BY DEF AtRest, Idle
    <3>3. \A i \in DOMAIN roomKey : rooms[i.alias].of = roomKey[i]
      BY DEF IInv, World, LeadsHome, LeadsTo
    <3>. QED  BY <3>1, <3>2, <3>3
              DEF Known, KnownSpace, KnownRoom, Storing, Forwarding, Forwards, Reversed, Reversing, Reverses
  <2>2. ASSUME NEW c \in promise
        PROVE  /\ channelKey[c] = Stamped(c) /\ channelKey[c] \in DOMAIN roomKey
               /\ <<teamKey[channel[c].team], channelKey[c]>> \in children
    <3>1. Done(c)
      BY DEF BInv, Promised
    <3>. QED  BY <3>1 DEF Done, TeamOf
  <2>. QED  BY <2>1, <2>2
<1>. QED  BY <1>1, <1>2, <1>3, Invariant, PTL DEF Spec

=============================================================================
