-------------------------- MODULE GhostUsersProofs --------------------------
(***************************************************************************)
(* Proofs about GhostUsers, for any users, goroutines, rooms and bounds:   *)
(* types, SpeakerIsMember, IdentityKept and ProfileSettles.  What a job    *)
(* knows of the world (JobOK) outlives the steps of all the others         *)
(* (StepJobs); so an action only has to be followed in the job that takes  *)
(* it.  ProfileSettles rests on a second invariant, PInv, of the runs in   *)
(* which no call has failed.                                               *)
(***************************************************************************)
EXTENDS GhostUsers, FiniteSetTheorems, TLAPS

\* One who has spoken as u has joined the room, or was removed from it.
Vouched(u) == \E i \in spoke[u] : membership[<<u, i>>] = "joined" \/ <<u, i>> \in removed

\* The places of a job: those after it has chosen its identity, and the others.
Acting == {"member", "memberKey", "memberFill", "rule", "try", "invite", "join", "record", "send",
           "mirrorKey", "mirrorRegister", "mirrorStore"}
Place == Acting \cup {"identity", "lookup", "fill", "read", "image", "register", "name", "avatar", "store"}

JobOK(j) ==
    /\ j.id = "ghost" => j.u \in registered
    /\ j.pc = "fill" => j.id \in {"ghost", "own"}
    /\ j.pc \in {"read", "register", "store"} => Creation(j)
    /\ j.pc = "name" /\ ~Creation(j) => j.id = "ghost" /\ j.kind = "update"
    /\ j.pc \in {"image", "avatar"} /\ ~Creation(j) => j.id \in {"ghost", "own"}
    /\ j.pc \in {"name", "avatar", "store"} /\ Creation(j) => j.u \in registered
    /\ j.pc \in Acting => j.id \in spoke[j.u]
    /\ j.pc \in {"record", "memberFill", "send"} => Vouched(j.u)
    /\ Creates(j) => j.u \notin kept

JobType == job \in [Slot -> JobRecord \cup {Idle}]
Types ==
    /\ user \in [User -> Profile] /\ profile \in [User -> Profile]
    /\ room \in Room
    /\ registered \subseteq User /\ mirrored \subseteq User /\ mirrorKey \subseteq User
    /\ membership \in [User \X Identity -> {None, "invited", "joined", "banned"}]
    /\ ghostKey \in [User -> {"ghost", "own", None}] /\ ghostCache \in [User -> {"ghost", "own", None}]
    /\ roomKey \subseteq User /\ roomCache \subseteq User
    /\ spoke \in [User -> SUBSET Identity] /\ kept \subseteq User /\ untidy \subseteq User
    /\ removed \subseteq User \X Identity
    /\ jobs \in 0..MaxJob /\ faults \in Nat
Unregistered ==
    \A u \in User : u \notin registered =>
        profile[u] = [name |-> 0, avatar |-> 0] /\ membership[<<u, "ghost">>] \in {None, "invited"}
Stored == \A u \in User : "ghost" \in {ghostKey[u], ghostCache[u]} => u \in registered
Mapped == \A u \in kept : ghostKey[u] = "own"
Recorded == \A u \in roomKey \cup roomCache : Vouched(u)
World == Types /\ Unregistered /\ Stored /\ Mapped /\ Recorded
Jobs == \A s \in Slot : job[s] # Idle => JobOK(job[s])

IInv == JobType /\ Jobs /\ World

-----------------------------------------------------------------------------
(* How the job of a slot changes. *)

\* Slot s has come to the place pc, and no other slot has changed.
Stays(s) == JobType' /\ \A t \in Slot \ {s} : job'[t] = job[t]
Comes(s, pc) ==
    /\ Stays(s) /\ job'[s] \in JobRecord
    /\ job'[s].pc = pc /\ job'[s].kind = job[s].kind /\ job'[s].u = job[s].u /\ job'[s].id = job[s].id

LEMMA Fields ==
    ASSUME NEW j \in JobRecord
    PROVE  /\ j # Idle /\ j.pc \in Place /\ j.kind \in Kinds /\ j.u \in User /\ j.id \in Identity \cup {None}
           /\ j.name \in Nat /\ j.avatar \in Nat /\ j.given \in Nat
BY DEF JobRecord, Idle, Place, Acting

LEMMA Mine ==
    ASSUME IInv, NEW s \in Slot, job[s].pc \in Place
    PROVE  job[s] \in JobRecord /\ JobOK(job[s]) /\ job[s].u \in User
<1>1. job[s] \in JobRecord \/ job[s] = Idle
  BY DEF IInv, JobType
<1>2. Idle.pc = "idle"
  BY DEF Idle
<1>3. job[s] # Idle
  BY <1>2 DEF Place, Acting
<1>. QED  BY <1>1, <1>3, Fields DEF IInv, Jobs

LEMMA Moved ==
    ASSUME NEW j \in JobRecord, NEW pc \in Place
    PROVE  LET k == [j EXCEPT !.pc = pc]
           IN  /\ k \in JobRecord
               /\ k.pc = pc /\ k.kind = j.kind /\ k.u = j.u /\ k.id = j.id
BY DEF JobRecord, Place, Acting

LEMMA Replaced ==
    ASSUME JobType, NEW s \in Slot, NEW k \in JobRecord \cup {Idle}, job' = [job EXCEPT ![s] = k]
    PROVE  Stays(s) /\ job'[s] = k
BY DEF JobType, Stays

LEMMA GotoFacts ==
    ASSUME IInv, NEW s \in Slot, job[s].pc \in Place, NEW pc \in Place, Goto(s, pc)
    PROVE  Comes(s, pc)
<1>. DEFINE k == [job[s] EXCEPT !.pc = pc]
<1>1. job' = [job EXCEPT ![s] = k]
  BY DEF Goto
<1>2. /\ k \in JobRecord
      /\ k.pc = pc /\ k.kind = job[s].kind /\ k.u = job[s].u /\ k.id = job[s].id
  BY Moved, Mine
<1>. HIDE DEF k
<1>3. job'[s] = k /\ Stays(s)
  BY <1>1, <1>2, Replaced DEF IInv
<1>. QED  BY <1>2, <1>3 DEF Comes

LEMMA EndFacts ==
    ASSUME IInv, NEW s \in Slot, End(s)
    PROVE  Stays(s) /\ job'[s] = Idle
BY DEF End, JobType, IInv, Stays

-----------------------------------------------------------------------------
(* What every step but MapUser leaves the jobs of other slots. *)

Keeps == /\ registered \subseteq registered'
         /\ \A u \in User : spoke[u] \subseteq spoke'[u] /\ (Vouched(u) => Vouched(u)')
         /\ kept' \subseteq kept

LEMMA StepJobs ==
    ASSUME IInv, World', NEW s \in Slot, Keeps, Stays(s), job'[s] # Idle => JobOK(job[s])'
    PROVE  IInv'
<1>1. ASSUME NEW t \in Slot \ {s}, job'[t] # Idle  PROVE JobOK(job[t])'
  <2>1. job[t] \in JobRecord /\ job'[t] = job[t] /\ JobOK(job[t])
    BY <1>1 DEF JobType, Jobs, IInv, Stays
  <2>2. job[t].u \in User
    BY <2>1, Fields
  <2>. QED  BY <2>1, <2>2 DEF JobOK, Keeps, Creates
<1>. QED  BY <1>1 DEF Jobs, IInv, Stays

\* A step that changes nothing but a job.
Quiet == UNCHANGED <<world, history>> /\ faults' \in {faults, faults + 1}

LEMMA QuietSteps == ASSUME IInv, Quiet PROVE World' /\ Keeps
BY DEF Quiet, world, history, matrix, kvstore, caches, IInv, World, Types, Unregistered, Stored, Mapped, Recorded,
       Keeps, Vouched

\* A job that goes from one place to another keeps what it knows, if it knows
\* what it has to know there.
LEMMA JobMoved ==
    ASSUME IInv, NEW s \in Slot, job[s].pc \in Place, NEW pc \in Place, Comes(s, pc), Keeps,
           pc = "fill" => job[s].id \in {"ghost", "own"},
           pc \in {"read", "register", "store"} => Creation(job[s]),
           pc = "name" => Creation(job[s]),
           pc \in {"image", "avatar"} /\ ~Creation(job[s]) => job[s].id \in {"ghost", "own"},
           pc \in {"name", "avatar", "store"} /\ Creation(job[s]) => job[s].u \in registered',
           pc \in Acting => job[s].pc \in Acting,
           pc \in {"record", "memberFill", "send"} => Vouched(job[s].u)',
           Creates(job'[s]) => Creates(job[s]) \/ job[s].u \notin kept
    PROVE  JobOK(job[s])'
<1>1. job[s] \in JobRecord /\ JobOK(job[s]) /\ job[s].u \in User
  BY Mine
<1>2. Creation(job'[s]) <=> Creation(job[s])
  BY DEF Comes, Creation
<1>3. job[s].id = "ghost" => job[s].u \in registered'
  BY <1>1 DEF JobOK, Keeps
<1>4. pc \in Acting => job[s].id \in spoke'[job[s].u]
  BY <1>1 DEF JobOK, Keeps
<1>5. Creates(job'[s]) => job[s].u \notin kept'
  BY <1>1 DEF JobOK, Keeps
<1>. QED  BY <1>2, <1>3, <1>4, <1>5 DEF JobOK, Comes, Creates, Creation

-----------------------------------------------------------------------------
(* One lemma for each action: ensureGhostUserInRoom and its parts first. *)

\* The end of a job disturbs nothing, whatever the step did before.
LEMMA Ended ==
    ASSUME IInv, World', NEW s \in Slot, Keeps, End(s)
    PROVE  IInv'
BY EndFacts, StepJobs

LEMMA MemberInCacheStep == ASSUME IInv, NEW s \in Slot, MemberInCache(s) PROVE IInv'
<1>. DEFINE pc == IF job[s].u \in roomCache THEN "send" ELSE "memberKey"
<1>1. job[s].pc = "member" /\ Goto(s, pc) /\ Quiet
  BY DEF MemberInCache, Quiet, IInv
<1>2. pc \in {"send", "memberKey"} /\ (pc = "send" => job[s].u \in roomCache)
  OBVIOUS
<1>. HIDE DEF pc
<1>3. job[s].pc \in Place /\ pc \in Place /\ Comes(s, pc)
  BY <1>1, <1>2, GotoFacts DEF Place, Acting
<1>4. World' /\ Keeps
  BY <1>1, QuietSteps
<1>5. pc = "send" => Vouched(job[s].u)'
  BY <1>2, <1>3, <1>4, Mine DEF Keeps, IInv, World, Recorded, Vouched, Comes
<1>6. JobOK(job[s])'
  BY <1>1, <1>2, <1>3, <1>4, <1>5, JobMoved DEF Acting, Comes, Creates
<1>. QED  BY <1>3, <1>4, <1>6, StepJobs DEF Comes

LEMMA MemberInStoreStep == ASSUME IInv, NEW s \in Slot, MemberInStore(s) PROVE IInv'
<1>1. job[s].pc = "memberKey" /\ Quiet
  BY DEF MemberInStore, Quiet, IInv, Fault
<1>2. PICK pc \in {"memberFill", "rule"} : Goto(s, pc) /\ (pc = "memberFill" => job[s].u \in roomKey)
  BY DEF MemberInStore
<1>3. job[s].pc \in Place /\ pc \in Place /\ Comes(s, pc)
  BY <1>1, <1>2, GotoFacts DEF Place, Acting
<1>4. World' /\ Keeps
  BY <1>1, QuietSteps
<1>5. pc = "memberFill" => Vouched(job[s].u)'
  BY <1>2, <1>3, <1>4, Mine DEF Keeps, IInv, World, Recorded, Vouched, Comes
<1>6. JobOK(job[s])'
  BY <1>1, <1>2, <1>3, <1>4, <1>5, JobMoved DEF Acting, Comes, Creates
<1>. QED  BY <1>3, <1>4, <1>6, StepJobs DEF Comes

LEMMA MemberFillStep == ASSUME IInv, NEW s \in Slot, MemberFill(s) PROVE IInv'
<1>1. job[s].pc = "memberFill" /\ Goto(s, "send")
  BY DEF MemberFill
<1>2. job[s].pc \in Place /\ Comes(s, "send")
  BY <1>1, GotoFacts DEF Place, Acting
<1>3. job[s].u \in User /\ Vouched(job[s].u)
  BY <1>1, <1>2, Mine DEF JobOK
<1>4. World' /\ Keeps
  BY <1>3 DEF MemberFill, history, matrix, kvstore, IInv, World, Types, Unregistered, Stored, Mapped, Recorded,
              Keeps, Vouched
<1>5. JobOK(job[s])'
  BY <1>1, <1>2, <1>3, <1>4, JobMoved DEF Keeps, Place, Acting, Comes, Creates
<1>. QED  BY <1>2, <1>4, <1>5, StepJobs DEF Comes

LEMMA AskRuleStep == ASSUME IInv, NEW s \in Slot, AskRule(s) PROVE IInv'
<1>1. job[s].pc = "rule" /\ Quiet
  BY DEF AskRule, Quiet, IInv, Fault
<1>2. End(s) \/ \E pc \in {"join", "invite", "try"} : Goto(s, pc)
  BY DEF AskRule
<1>3. World' /\ Keeps
  BY <1>1, QuietSteps
<1>4. ASSUME NEW pc \in {"join", "invite", "try"}, Goto(s, pc)  PROVE IInv'
  <2>1. job[s].pc \in Place /\ pc \in Place /\ Comes(s, pc)
    BY <1>1, <1>4, GotoFacts DEF Place, Acting
  <2>2. JobOK(job[s])'
    BY <1>1, <1>3, <2>1, JobMoved DEF Acting, Comes, Creates
  <2>. QED  BY <1>3, <2>1, <2>2, StepJobs DEF Comes
<1>. QED  BY <1>2, <1>3, <1>4, Ended

\* Standing changes where one identity stands, and never that of a member.
LEMMA StandingFacts ==
    ASSUME IInv, NEW u \in User, NEW i \in Identity, NEW m \in {"invited", "joined"},
           m = "joined" /\ i = "ghost" => u \in registered,
           membership' \in {membership, Standing(<<u, i>>, m)},
           UNCHANGED <<user, room, registered, mirrored, profile, kvstore, caches, history>>,
           faults' \in {faults, faults + 1}
    PROVE  World' /\ Keeps /\ (membership' = Standing(<<u, i>>, "joined") => membership'[<<u, i>>] = "joined")
<1>1. /\ membership' \in [User \X Identity -> {None, "invited", "joined", "banned"}]
      /\ \A v \in User, k \in Identity :
            \/ membership'[<<v, k>>] = membership[<<v, k>>]
            \/ v = u /\ k = i /\ membership'[<<v, k>>] = m
      /\ \A v \in User, k \in Identity : membership[<<v, k>>] = "joined" => membership'[<<v, k>>] = "joined"
      /\ membership' = Standing(<<u, i>>, "joined") => membership'[<<u, i>>] = "joined"
  BY DEF IInv, World, Types, Standing
<1>2. \A v \in User : Vouched(v) => Vouched(v)'
  BY <1>1 DEF Vouched, history, IInv, World, Types
<1>3. Types' /\ Stored' /\ Mapped' /\ Recorded'
  BY <1>1, <1>2 DEF IInv, World, Types, Stored, Mapped, Recorded, history, kvstore, caches
<1>4. Unregistered'
  <2>1. UNCHANGED <<registered, profile>> /\ "ghost" \in Identity
    BY DEF Identity
  <2>2. ASSUME NEW v \in User, v \notin registered
        PROVE  profile[v] = [name |-> 0, avatar |-> 0] /\ membership'[<<v, "ghost">>] \in {None, "invited"}
    BY <1>1, <2>1, <2>2 DEF IInv, World, Unregistered
  <2>. QED  BY <2>1, <2>2 DEF Unregistered
<1>. QED  BY <1>1, <1>2, <1>3, <1>4 DEF World, Keeps, history

LEMMA InviteStep == ASSUME IInv, NEW s \in Slot, Invite(s) PROVE IInv'
<1>1. job[s].pc = "invite" /\ job[s].pc \in Place
  BY DEF Invite, Place, Acting
<1>2. job[s].u \in User /\ job[s].id \in Identity
  BY <1>1, Mine DEF JobOK, Acting, IInv, World, Types
<1>3. World' /\ Keeps
  <2>1. membership' \in {membership, Standing(<<job[s].u, job[s].id>>, "invited")}
    BY DEF Invite, Me
  <2>2. faults' \in {faults, faults + 1}
    BY DEF Invite, Fault
  <2>. QED  BY <1>2, <2>1, <2>2, StandingFacts DEF Invite
<1>4. End(s) \/ Goto(s, "join")
  BY DEF Invite
<1>5. CASE Goto(s, "join")
  <2>1. Comes(s, "join")
    BY <1>1, <1>5, GotoFacts DEF Place, Acting
  <2>2. JobOK(job[s])'
    BY <1>1, <1>3, <2>1, JobMoved DEF Place, Acting, Comes, Creates
  <2>. QED  BY <1>3, <2>1, <2>2, StepJobs DEF Comes
<1>. QED  BY <1>3, <1>4, <1>5, Ended

LEMMA JoinStep == ASSUME IInv, NEW s \in Slot, Join(s) PROVE IInv'
<1>1. job[s].pc \in {"try", "join"} /\ job[s].pc \in Place
  BY DEF Join, Place, Acting
<1>2. job[s].u \in User /\ job[s].id \in Identity /\ job[s].id \in spoke[job[s].u]
  BY <1>1, Mine DEF JobOK, Acting, IInv, World, Types
<1>3. /\ MayJoin(Me(s)) /\ job[s].id = "ghost" => job[s].u \in registered
      /\ ~MayJoin(Me(s)) => membership' = membership
      /\ membership' \in {membership, Standing(<<job[s].u, job[s].id>>, "joined")}
      /\ faults' \in {faults, faults + 1}
  BY DEF Join, Me, Fault, MayJoin
<1>4. /\ World' /\ Keeps
      /\ membership' = Standing(Me(s), "joined") => membership'[Me(s)] = "joined"
  <2>1. CASE MayJoin(Me(s))
    BY <1>2, <1>3, <2>1, StandingFacts DEF Join, Me
  <2>2. CASE ~MayJoin(Me(s))
    <3>1. World' /\ Keeps
      BY <1>2, <1>3, <2>2, StandingFacts DEF Join
    <3>. QED  BY <1>2, <1>3, <2>2, <3>1, StandingFacts DEF Join, Me
  <2>. QED  BY <2>1, <2>2
<1>5. \/ End(s)
      \/ Goto(s, "record") /\ membership' = Standing(Me(s), "joined")
      \/ Goto(s, "invite")
  BY DEF Join, Fallback
<1>6. ASSUME NEW pc \in {"record", "invite"}, Goto(s, pc),
             pc = "record" => membership' = Standing(Me(s), "joined")
      PROVE  IInv'
  <2>1. pc \in Place /\ Comes(s, pc)
    BY <1>1, <1>6, GotoFacts DEF Place, Acting
  <2>2. pc = "record" => Vouched(job[s].u)'
    BY <1>2, <1>4, <1>6, <2>1 DEF Vouched, Me, Keeps, Comes
  <2>3. JobOK(job[s])'
    BY <1>1, <1>4, <2>1, <2>2, JobMoved DEF Acting, Comes, Creates
  <2>. QED  BY <1>4, <2>1, <2>3, StepJobs DEF Comes
<1>. QED  BY <1>4, <1>5, <1>6, Ended

LEMMA RecordStep == ASSUME IInv, NEW s \in Slot, Record(s) PROVE IInv'
<1>1. job[s].pc = "record" /\ Goto(s, "memberFill")
  BY DEF Record
<1>2. job[s].pc \in Place /\ Comes(s, "memberFill")
  BY <1>1, GotoFacts DEF Place, Acting
<1>3. job[s].u \in User /\ Vouched(job[s].u)
  BY <1>1, <1>2, Mine DEF JobOK
<1>4. World' /\ Keeps
  BY <1>3 DEF Record, Fault, history, matrix, caches, IInv, World, Types, Unregistered, Stored, Mapped, Recorded,
              Keeps, Vouched
<1>5. JobOK(job[s])'
  BY <1>1, <1>2, <1>3, <1>4, JobMoved DEF Keeps, Place, Acting, Comes, Creates
<1>. QED  BY <1>2, <1>4, <1>5, StepJobs DEF Comes

LEMMA SendStep == ASSUME IInv, NEW s \in Slot, Send(s) PROVE IInv'
<1>1. Quiet /\ End(s)
  BY DEF Send, Quiet, IInv
<1>. QED  BY <1>1, QuietSteps, Ended

-----------------------------------------------------------------------------
(* Mirror mode. *)

LEMMA LookForMirrorStep == ASSUME IInv, NEW s \in Slot, LookForMirror(s) PROVE IInv'
<1>1. job[s].pc = "mirrorKey" /\ Quiet
  BY DEF LookForMirror, Quiet, IInv, Fault
<1>2. End(s) \/ \E pc \in {"member", "mirrorRegister"} : Goto(s, pc)
  BY DEF LookForMirror
<1>3. World' /\ Keeps
  BY <1>1, QuietSteps
<1>4. ASSUME NEW pc \in {"member", "mirrorRegister"}, Goto(s, pc)  PROVE IInv'
  <2>1. job[s].pc \in Place /\ pc \in Place /\ Comes(s, pc)
    BY <1>1, <1>4, GotoFacts DEF Place, Acting
  <2>2. JobOK(job[s])'
    BY <1>1, <1>3, <2>1, JobMoved DEF Acting, Comes, Creates
  <2>. QED  BY <1>3, <2>1, <2>2, StepJobs DEF Comes
<1>. QED  BY <1>2, <1>3, <1>4, Ended

LEMMA RegisterMirrorStep == ASSUME IInv, NEW s \in Slot, RegisterMirror(s) PROVE IInv'
<1>1. job[s].pc = "mirrorRegister" /\ job[s].pc \in Place
  BY DEF RegisterMirror, Place, Acting
<1>2. PICK pc \in {"mirrorStore", "rule"} : Goto(s, pc)
  BY DEF RegisterMirror
<1>3. job[s].u \in User
  BY <1>1, Mine
<1>4. World' /\ Keeps
  BY <1>3 DEF RegisterMirror, Fault, history, kvstore, caches, IInv, World, Types, Unregistered, Stored, Mapped,
              Recorded, Keeps, Vouched
<1>5. pc \in Place /\ Comes(s, pc)
  BY <1>1, <1>2, GotoFacts DEF Place, Acting
<1>6. JobOK(job[s])'
  BY <1>1, <1>4, <1>5, JobMoved DEF Acting, Comes, Creates
<1>. QED  BY <1>4, <1>5, <1>6, StepJobs DEF Comes

LEMMA StoreMirrorStep == ASSUME IInv, NEW s \in Slot, StoreMirror(s) PROVE IInv'
<1>1. job[s].pc = "mirrorStore" /\ Goto(s, "member") /\ job[s].pc \in Place
  BY DEF StoreMirror, Place, Acting
<1>2. job[s].u \in User
  BY <1>1, Mine
<1>3. World' /\ Keeps
  <2>1. /\ UNCHANGED <<user, room, matrix, ghostKey, roomKey, caches, history>>
        /\ mirrorKey' \subseteq User /\ faults' \in Nat
    BY <1>2 DEF StoreMirror, Fault, IInv, World, Types
  <2>. QED  BY <2>1 DEF history, matrix, caches, IInv, World, Types, Unregistered, Stored, Mapped, Recorded,
                        Keeps, Vouched
<1>4. Comes(s, "member")
  BY <1>1, GotoFacts DEF Place, Acting
<1>5. JobOK(job[s])'
  BY <1>1, <1>3, <1>4, JobMoved DEF Place, Acting, Comes, Creates
<1>. QED  BY <1>3, <1>4, <1>5, StepJobs DEF Comes

-----------------------------------------------------------------------------
(* CreateOrGetGhostUser and SyncUserToMatrix. *)

\* The record of a job that goes on as id.
GoesOn(j, id, pc) == [j EXCEPT !.id = id, !.pc = pc]

LEMMA GoesOnFacts ==
    ASSUME NEW j \in JobRecord, NEW id \in Identity, NEW pc \in Place
    PROVE  /\ GoesOn(j, id, pc) \in JobRecord
           /\ GoesOn(j, id, pc).pc = pc /\ GoesOn(j, id, pc).id = id
           /\ GoesOn(j, id, pc).u = j.u /\ GoesOn(j, id, pc).kind = j.kind /\ GoesOn(j, id, pc).name = j.name
<1>1. /\ GoesOn(j, id, pc).pc = pc /\ GoesOn(j, id, pc).id = id
      /\ GoesOn(j, id, pc).u = j.u /\ GoesOn(j, id, pc).kind = j.kind /\ GoesOn(j, id, pc).name = j.name
  BY DEF JobRecord, GoesOn
<1>2. GoesOn(j, id, pc) \in JobRecord
  BY DEF JobRecord, Place, Acting, GoesOn
<1>. QED  BY <1>1, <1>2

\* A job that has found its identity.
LEMMA ContinueFacts ==
    ASSUME IInv, NEW s \in Slot, job[s].pc \in {"identity", "lookup", "fill"}, NEW id \in {"ghost", "own"},
           Continue(s, id)
    PROVE  /\ Stays(s)
           /\ \/ job'[s] = Idle
              \/ /\ job'[s] \in JobRecord /\ job'[s].u = job[s].u
                 /\ \/ job'[s].pc = "identity" /\ job'[s].id = None
                    \/ job'[s].pc \in {"member", "rule"} /\ job'[s].id = id
                    \/ job'[s].pc = "image" /\ job'[s].id = id /\ job'[s].kind = "image"
                    \/ job'[s].pc = "name" /\ job'[s].id = id /\ job'[s].kind = "update" /\ id = "ghost"
<1>. DEFINE j == job[s]
            Found(pc) == GoesOn(j, id, pc)
            Anew == [j EXCEPT !.pc = "identity", !.kind = "update", !.id = None, !.name = j.given,
                              !.given = 0, !.avatar = 0]
<1>1. j \in JobRecord
  BY Mine DEF Place, Acting
<1>2. ASSUME NEW pc \in Place
      PROVE  /\ Found(pc) \in JobRecord
             /\ Found(pc).pc = pc /\ Found(pc).id = id /\ Found(pc).u = j.u /\ Found(pc).kind = j.kind
  <2>1. j \in JobRecord /\ id \in Identity
    BY <1>1 DEF Identity
  <2>. QED  BY <2>1, GoesOnFacts
<1>3. /\ Anew \in JobRecord
      /\ Anew.pc = "identity" /\ Anew.id = None /\ Anew.u = j.u
  BY <1>1 DEF JobRecord, Place, Acting, Identity, Kinds
<1>4. \/ job' = [job EXCEPT ![s] = Idle]
      \/ job' = [job EXCEPT ![s] = Anew]
      \/ job' = [job EXCEPT ![s] = Found("member")]
      \/ job' = [job EXCEPT ![s] = Found("rule")]
      \/ job' = [job EXCEPT ![s] = Found("image")] /\ j.kind = "image"
      \/ job' = [job EXCEPT ![s] = Found("name")] /\ j.kind = "update" /\ id = "ghost"
  <2>1. CASE j.kind = "post"
    BY <2>1 DEF Continue, GoesOn
  <2>2. CASE j.kind = "join"
    BY <2>2 DEF Continue, GoesOn
  <2>3. CASE j.kind = "image"
    BY <2>3 DEF Continue, GoesOn
  <2>4. CASE j.kind = "sync"
    BY <2>4 DEF Continue, GoesOn
  <2>5. CASE j.kind = "update" /\ id = "ghost"
    BY <2>5 DEF Continue, GoesOn
  <2>6. CASE j.kind \notin {"post", "join", "image", "sync"} /\ ~(j.kind = "update" /\ id = "ghost")
    BY <2>6 DEF Continue, GoesOn
  <2>. QED  BY <2>1, <2>2, <2>3, <2>4, <2>5, <2>6
<1>5. {"member", "rule", "image", "name"} \subseteq Place
  BY DEF Place, Acting
<1>. HIDE DEF Found, Anew
<1>6. ASSUME NEW k \in JobRecord \cup {Idle}, job' = [job EXCEPT ![s] = k]  PROVE Stays(s) /\ job'[s] = k
  BY <1>6, Replaced DEF IInv
<1>7. Idle \in JobRecord \cup {Idle}
  OBVIOUS
<1>. QED  BY <1>2, <1>3, <1>4, <1>5, <1>6, <1>7

LEMMA ContinueStep ==
    ASSUME IInv, NEW s \in Slot, job[s].pc \in {"identity", "lookup", "fill"}, NEW id \in {"ghost", "own"},
           id = "ghost" => job[s].u \in registered,
           Continue(s, id), UNCHANGED <<user, room, matrix, kvstore, roomCache>>, faults' = faults,
           ghostCache' \in [User -> {"ghost", "own", None}],
           \A u \in User : ghostCache'[u] = ghostCache[u] \/ (u = job[s].u /\ ghostCache'[u] = id)
    PROVE  IInv'
<1>1. job[s].u \in User
  BY Mine DEF Place, Acting
<1>2. /\ spoke' = [spoke EXCEPT ![job[s].u] = @ \cup {id}]
      /\ UNCHANGED <<jobs, kept, removed, untidy>>
  BY DEF Continue
<1>3. /\ spoke' \in [User -> SUBSET Identity]
      /\ \A u \in User : spoke[u] \subseteq spoke'[u]
      /\ id \in spoke'[job[s].u]
  BY <1>1, <1>2 DEF IInv, World, Types, Identity
<1>4. World' /\ Keeps
  BY <1>2, <1>3 DEF matrix, kvstore, IInv, World, Types, Unregistered, Stored, Mapped, Recorded, Keeps, Vouched
<1>5. job'[s] # Idle => JobOK(job[s])'
  BY <1>3, <1>4, ContinueFacts DEF JobOK, Acting, Creates, Creation, Keeps, None
<1>. QED  BY <1>4, <1>5, ContinueFacts, StepJobs

LEMMA LookInCacheStep == ASSUME IInv, NEW s \in Slot, LookInCache(s) PROVE IInv'
<1>. DEFINE known == ghostCache[job[s].u]
<1>1. job[s].pc = "identity" /\ job[s].pc \in Place /\ job[s].u \in User
  BY Mine DEF LookInCache, Place, Acting
<1>2. CASE known = None
  <2>1. Goto(s, "lookup") /\ Quiet
    BY <1>2 DEF LookInCache, Quiet, IInv
  <2>2. World' /\ Keeps /\ Comes(s, "lookup")
    BY <1>1, <2>1, QuietSteps, GotoFacts DEF Place, Acting
  <2>3. JobOK(job[s])'
    BY <1>1, <2>2, JobMoved DEF Place, Acting, Comes, Creates
  <2>. QED  BY <2>2, <2>3, StepJobs DEF Comes
<1>3. CASE known # None
  <2>1. known \in {"ghost", "own"} /\ (known = "ghost" => job[s].u \in registered)
    BY <1>1, <1>3 DEF IInv, World, Types, Stored
  <2>2. Continue(s, known) /\ UNCHANGED <<user, room, matrix, kvstore, roomCache, ghostCache, faults>>
    BY <1>3 DEF LookInCache, world, caches
  <2>. QED  BY <1>1, <2>1, <2>2, ContinueStep DEF IInv, World, Types
<1>. QED  BY <1>2, <1>3

LEMMA FillCacheStep == ASSUME IInv, NEW s \in Slot, FillCache(s) PROVE IInv'
<1>1. job[s].pc = "fill" /\ job[s].pc \in Place /\ Continue(s, job[s].id)
  BY DEF FillCache, Place, Acting
<1>2. /\ job[s].u \in User /\ job[s].id \in {"ghost", "own"}
      /\ job[s].id = "ghost" => job[s].u \in registered
  BY <1>1, Mine DEF JobOK
<1>3. /\ ghostCache' \in [User -> {"ghost", "own", None}]
      /\ \A u \in User : ghostCache'[u] = ghostCache[u] \/ (u = job[s].u /\ ghostCache'[u] = job[s].id)
  BY <1>2 DEF FillCache, IInv, World, Types
<1>. QED  BY <1>1, <1>2, <1>3, ContinueStep DEF FillCache

\* A step that makes the job k of slot s from its job.
LEMMA JobReplaced ==
    ASSUME IInv, World', Keeps, NEW s \in Slot, NEW k \in JobRecord, job' = [job EXCEPT ![s] = k],
           k.u = job[s].u, k.kind = job[s].kind, job[s].pc \in Place,
           k.id = "ghost" => k.u \in registered',
           k.pc = "fill" => k.id \in {"ghost", "own"},
           k.pc \in {"read", "register", "store"} => Creation(k),
           k.pc = "name" => Creation(k),
           k.pc \in {"image", "avatar"} /\ ~Creation(k) => k.id \in {"ghost", "own"},
           k.pc \in {"name", "avatar", "store"} /\ Creation(k) => k.u \in registered',
           k.pc \notin Acting,
           Creates(k) => Creates(job[s]) \/ job[s].u \notin kept'
    PROVE  IInv'
<1>1. Stays(s) /\ job'[s] = k
  BY Replaced DEF IInv
<1>2. Creates(k) => k.u \notin kept'
  BY Mine DEF JobOK, Keeps
<1>3. JobOK(job[s])'
  BY <1>1, <1>2 DEF JobOK, Acting, Creates, Creation
<1>. QED  BY <1>1, <1>3, StepJobs

LEMMA LookInStoreStep == ASSUME IInv, NEW s \in Slot, LookInStore(s) PROVE IInv'
<1>. DEFINE j == job[s]
            known == ghostKey[job[s].u]
            Unknown == IF Creation(j) THEN Goto(s, "read") ELSE End(s)
<1>1. j.pc = "lookup" /\ j.pc \in Place /\ j.u \in User /\ j \in JobRecord
  BY Mine DEF LookInStore, Place, Acting
<1>2. known \in {"ghost", "own", None} /\ (known = "ghost" => j.u \in registered)
  BY <1>1 DEF IInv, World, Types, Stored
\* Nobody is found, or the read has failed.
<1>3. ASSUME Unknown, World', Keeps, j.u \notin kept'  PROVE IInv'
  <2>1. CASE Creation(j)
    <3>1. Comes(s, "read")
      BY <1>1, <1>3, <2>1, GotoFacts DEF Place, Acting
    <3>2. JobOK(job[s])'
      BY <1>1, <1>3, <2>1, <3>1, Mine DEF JobOK, Comes, Acting, Creates, Creation, Keeps
    <3>. QED  BY <1>3, <3>1, <3>2, StepJobs DEF Comes
  <2>2. CASE ~Creation(j)
    BY <1>3, <2>2, Ended
  <2>. QED  BY <2>1, <2>2
<1>4. CASE known = None /\ Unknown /\ UNCHANGED history /\ UNCHANGED faults
  <2>1. Quiet /\ UNCHANGED kept
    BY <1>4 DEF LookInStore, Quiet, IInv, history
  <2>2. j.u \notin kept'
    BY <1>2, <1>4, <2>1 DEF IInv, World, Mapped, None
  <2>. QED  BY <1>3, <1>4, <2>1, <2>2, QuietSteps
<1>5. CASE Fault /\ Unknown /\ kept' = kept \ {j.u} /\ UNCHANGED <<jobs, spoke, removed, untidy>>
  <2>1. World' /\ Keeps
    BY <1>5 DEF LookInStore, Fault, world, matrix, kvstore, caches, IInv, World, Types, Unregistered, Stored,
                Mapped, Recorded, Keeps, Vouched
  <2>. QED  BY <1>3, <1>5, <2>1
<1>6. CASE known # None /\ j.kind = "image" /\ Continue(s, known) /\ UNCHANGED faults
  <2>1. UNCHANGED <<user, room, matrix, kvstore, roomCache, ghostCache>>
    BY DEF LookInStore, world, caches
  <2>. QED  BY <1>1, <1>2, <1>6, <2>1, ContinueStep DEF IInv, World, Types
<1>7. CASE known # None /\ job' = [job EXCEPT ![s].id = known, ![s].pc = "fill"] /\ UNCHANGED <<history, faults>>
  <2>. DEFINE k == [j EXCEPT !.id = known, !.pc = "fill"]
  <2>1. job' = [job EXCEPT ![s] = k]
    BY <1>7
  <2>2. /\ k \in JobRecord
        /\ k.pc = "fill" /\ k.id = known /\ k.u = j.u /\ k.kind = j.kind
    BY <1>1, <1>2, <1>7 DEF JobRecord, Identity
  <2>. HIDE DEF k
  <2>3. Quiet
    BY <1>7 DEF LookInStore, Quiet, IInv
  <2>4. World' /\ Keeps
    BY <2>3, QuietSteps
  <2>5. ~Creates(k) /\ k.pc \notin Acting
    BY <2>2 DEF Creates, Acting
  <2>6. k.id = "ghost" => k.u \in registered'
    BY <1>2, <2>2, <2>4 DEF Keeps
  <2>. QED  BY <1>1, <1>2, <1>7, <2>1, <2>2, <2>4, <2>5, <2>6, JobReplaced
<1>. QED  BY <1>4, <1>5, <1>6, <1>7 DEF LookInStore

LEMMA ReadUserStep == ASSUME IInv, NEW s \in Slot, ReadUser(s) PROVE IInv'
<1>. DEFINE j == job[s]
            k == [j EXCEPT !.name = user[j.u].name, !.pc = "image"]
<1>1. j.pc = "read" /\ j.pc \in Place /\ j \in JobRecord /\ JobOK(j) /\ j.u \in User
  BY Mine DEF ReadUser, Place, Acting
<1>2. user[j.u].name \in Nat
  BY <1>1 DEF IInv, World, Types, Profile
<1>3. /\ k \in JobRecord
      /\ k.pc = "image" /\ k.id = j.id /\ k.u = j.u /\ k.kind = j.kind
  BY <1>1, <1>2 DEF JobRecord
<1>4. End(s) \/ job' = [job EXCEPT ![s] = k]
  BY DEF ReadUser
<1>. HIDE DEF k
<1>5. Quiet
  BY DEF ReadUser, Quiet, IInv, Fault
<1>6. World' /\ Keeps
  BY <1>5, QuietSteps
<1>7. CASE job' = [job EXCEPT ![s] = k]
  <2>1. Creates(j) /\ Creation(k) /\ k.pc \notin Acting
    BY <1>1, <1>3, Fields DEF Creates, JobOK, Creation, Acting
  <2>2. k.id = "ghost" => k.u \in registered'
    BY <1>1, <1>3, <1>6 DEF JobOK, Keeps
  <2>. QED  BY <1>1, <1>3, <1>6, <1>7, <2>1, <2>2, JobReplaced
<1>. QED  BY <1>4, <1>6, <1>7, Ended

LEMMA ReadImageStep == ASSUME IInv, NEW s \in Slot, ReadImage(s) PROVE IInv'
<1>. DEFINE j == job[s]
            k(avatar) == [j EXCEPT !.avatar = avatar, !.pc = IF Creation(j) THEN "register" ELSE "avatar"]
<1>1. j.pc = "image" /\ j.pc \in Place /\ j \in JobRecord /\ JobOK(j) /\ j.u \in User
  BY Mine DEF ReadImage, Place, Acting
<1>2. user[j.u].avatar \in Nat /\ 0 \in Nat
  BY <1>1 DEF IInv, World, Types, Profile
<1>3. ASSUME NEW avatar \in Nat
      PROVE  /\ k(avatar) \in JobRecord
             /\ k(avatar).pc = IF Creation(j) THEN "register" ELSE "avatar"
             /\ k(avatar).id = j.id /\ k(avatar).u = j.u /\ k(avatar).kind = j.kind
  BY <1>1 DEF JobRecord
<1>4. End(s) \/ \E avatar \in Nat : job' = [job EXCEPT ![s] = k(avatar)]
  BY <1>2 DEF ReadImage
<1>. HIDE DEF k
<1>5. Quiet
  BY DEF ReadImage, Quiet, IInv, Fault
<1>6. World' /\ Keeps
  BY <1>5, QuietSteps
<1>7. ASSUME NEW avatar \in Nat, job' = [job EXCEPT ![s] = k(avatar)]  PROVE IInv'
  <2>. DEFINE l == k(avatar)
  <2>1. /\ l \in JobRecord /\ l.id = j.id /\ l.u = j.u /\ l.kind = j.kind
        /\ l.pc = IF Creation(j) THEN "register" ELSE "avatar"
        /\ Creation(l) <=> Creation(j)
    BY <1>3 DEF Creation
  <2>2. /\ l.pc \notin Acting
        /\ Creates(l) => Creates(j)
    BY <1>1, <2>1, Fields DEF Creates, Acting
  <2>3. l.id = "ghost" => l.u \in registered'
    BY <1>1, <1>6, <2>1 DEF JobOK, Keeps
  <2>4. ~Creation(l) => l.id \in {"ghost", "own"}
    BY <1>1, <2>1 DEF JobOK
  <2>5. job' = [job EXCEPT ![s] = l]
    BY <1>7
  <2>. HIDE DEF l
  <2>. QED  BY <1>1, <1>6, <2>1, <2>2, <2>3, <2>4, <2>5, JobReplaced
<1>. QED  BY <1>4, <1>6, <1>7, Ended

LEMMA RegisterStep == ASSUME IInv, NEW s \in Slot, Register(s) PROVE IInv'
<1>1. job[s].pc = "register" /\ job[s].pc \in Place /\ job[s].u \in User /\ Creation(job[s])
  BY Mine DEF Register, Place, Acting, JobOK
<1>2. /\ registered' \in {registered, registered \cup {job[s].u}}
      /\ faults' \in {faults, faults + 1}
      /\ UNCHANGED <<user, room, mirrored, profile, membership, kvstore, caches, history>>
  BY DEF Register, Fault
<1>3. World' /\ Keeps
  BY <1>1, <1>2 DEF history, kvstore, caches, IInv, World, Types, Unregistered, Stored, Mapped, Recorded,
                    Keeps, Vouched
<1>4. CASE registered' = registered \cup {job[s].u} /\ Goto(s, "name")
  <2>1. Comes(s, "name")
    BY <1>1, <1>4, GotoFacts DEF Place, Acting
  <2>2. "name" \in Place /\ "name" \notin Acting /\ Creates(job[s])
    BY <1>1, Mine, Fields DEF Place, Acting, Creates
  <2>3. JobOK(job[s])'
    BY <1>1, <1>3, <1>4, <2>1, <2>2, JobMoved
  <2>. QED  BY <1>3, <2>1, <2>3, StepJobs DEF Comes
<1>5. CASE End(s)
  BY <1>3, <1>5, Ended
<1>. QED  BY <1>4, <1>5 DEF Register

\* A profile changes, of a registered ghost only.
LEMMA ProfileWorld ==
    ASSUME IInv, NEW u \in User, u \in registered, NEW n \in Nat,
           profile' \in {profile, [profile EXCEPT ![u].name = n], [profile EXCEPT ![u].avatar = n]},
           faults' \in {faults, faults + 1},
           UNCHANGED <<user, room, registered, mirrored, membership, kvstore, caches, history>>
    PROVE  World' /\ Keeps
<1>1. profile' \in [User -> Profile] /\ \A v \in User \ {u} : profile'[v] = profile[v]
  BY DEF IInv, World, Types, Profile
<1>2. Types' /\ Unregistered'
  BY <1>1 DEF history, kvstore, caches, IInv, World, Types, Unregistered
<1>. QED  BY <1>2 DEF history, kvstore, caches, IInv, World, Stored, Mapped, Recorded, Keeps, Vouched

LEMMA SetDisplayNameStep == ASSUME IInv, NEW s \in Slot, SetDisplayName(s) PROVE IInv'
<1>. DEFINE j == job[s]
<1>1. j.pc = "name" /\ j.pc \in Place /\ j \in JobRecord /\ JobOK(j) /\ j.u \in User
  BY Mine DEF SetDisplayName, Place, Acting
<1>2. j.u \in registered /\ j.name \in Nat
  BY <1>1, Fields DEF JobOK
<1>3. PICK pc \in {"image", "store", "avatar"} :
        Goto(s, pc) /\ (pc \in {"store", "avatar"} => j.kind # "update") /\ (j.kind = "update" => pc = "image")
  BY DEF SetDisplayName
<1>4. World' /\ Keeps
  <2>1. profile' \in {profile, [profile EXCEPT ![j.u].name = j.name]} /\ faults' \in {faults, faults + 1}
    BY DEF SetDisplayName, Fault
  <2>2. UNCHANGED <<user, room, registered, mirrored, membership, kvstore, caches, history>>
    BY DEF SetDisplayName
  <2>. QED  BY <1>1, <1>2, <2>1, <2>2, ProfileWorld
<1>5. pc \in Place /\ pc \notin Acting /\ Comes(s, pc)
  BY <1>1, <1>3, GotoFacts DEF Place, Acting
<1>6. pc \in {"store", "avatar"} => Creation(j)
  BY <1>1, <1>3 DEF Creation, JobOK
<1>7. pc \in {"image", "avatar"} /\ ~Creation(j) => j.id \in {"ghost", "own"}
  BY <1>1 DEF JobOK
<1>8. Creates(job'[s]) => Creates(j)
  BY <1>1, <1>3, <1>5, <1>6, Fields DEF Comes, Creates, Creation
<1>9. j.u \in registered'
  BY <1>2, <1>4 DEF Keeps
<1>10. JobOK(job[s])'
  BY <1>1, <1>3, <1>4, <1>5, <1>6, <1>7, <1>8, <1>9, JobMoved DEF Acting
<1>. QED  BY <1>4, <1>5, <1>10, StepJobs DEF Comes

LEMMA SetAvatarStep == ASSUME IInv, NEW s \in Slot, SetAvatar(s) PROVE IInv'
<1>. DEFINE j == job[s]
<1>1. j.pc = "avatar" /\ j.pc \in Place /\ j \in JobRecord /\ JobOK(j) /\ j.u \in User
  BY Mine DEF SetAvatar, Place, Acting
<1>2. (j.id # "own" => j.u \in registered) /\ j.avatar \in Nat
  BY <1>1, Fields DEF JobOK
<1>3. World' /\ Keeps
  <2>1. /\ profile' \in {profile, [profile EXCEPT ![j.u].avatar = j.avatar]} /\ faults' \in {faults, faults + 1}
        /\ j.id = "own" => profile' = profile
    BY DEF SetAvatar, Fault
  <2>2. UNCHANGED <<user, room, registered, mirrored, membership, kvstore, caches, history>>
    BY DEF SetAvatar
  <2>3. CASE j.id # "own"
    BY <1>1, <1>2, <2>1, <2>2, <2>3, ProfileWorld
  <2>4. CASE j.id = "own"
    BY <2>1, <2>2, <2>4 DEF history, kvstore, caches, IInv, World, Types, Unregistered, Stored, Mapped, Recorded,
                            Keeps, Vouched
  <2>. QED  BY <2>3, <2>4
<1>4. CASE Creation(j) /\ Goto(s, "store")
  <2>1. Comes(s, "store") /\ "store" \in Place /\ "store" \notin Acting
    BY <1>1, <1>4, GotoFacts DEF Place, Acting
  <2>2. Creates(j) /\ j.u \in registered'
    BY <1>1, <1>3, <1>4, Fields DEF Creates, JobOK, Keeps
  <2>3. JobOK(job[s])'
    BY <1>1, <1>3, <1>4, <2>1, <2>2, JobMoved
  <2>. QED  BY <1>3, <2>1, <2>3, StepJobs DEF Comes
<1>5. CASE End(s)
  BY <1>3, <1>5, Ended
<1>. QED  BY <1>4, <1>5 DEF SetAvatar

LEMMA StoreStep == ASSUME IInv, NEW s \in Slot, Store(s) PROVE IInv'
<1>. DEFINE j == job[s]
            k == [j EXCEPT !.id = "ghost", !.pc = "fill"]
<1>1. j.pc = "store" /\ j.pc \in Place /\ j \in JobRecord /\ JobOK(j) /\ j.u \in User
  BY Mine DEF Store, Place, Acting
<1>2. Creates(j) /\ j.u \in registered /\ j.u \notin kept
  BY <1>1, Fields DEF Creates, JobOK
<1>3. /\ k \in JobRecord
      /\ k.pc = "fill" /\ k.id = "ghost" /\ k.u = j.u /\ k.kind = j.kind
  BY <1>1 DEF JobRecord, Identity
<1>4. job' = [job EXCEPT ![s] = k]
  BY DEF Store
<1>. HIDE DEF k
<1>5. World' /\ Keeps
  <2>1. /\ ghostKey' \in {ghostKey, [ghostKey EXCEPT ![j.u] = "ghost"]} /\ faults' \in {faults, faults + 1}
        /\ UNCHANGED <<user, room, matrix, mirrorKey, roomKey, caches, history>>
    BY DEF Store, Fault
  <2>. QED  BY <1>1, <1>2, <2>1 DEF matrix, history, caches, IInv, World, Types, Unregistered, Stored, Mapped,
                                    Recorded, Keeps, Vouched
<1>6. ~Creates(k) /\ k.pc \notin Acting
  BY <1>3 DEF Creates, Acting
<1>7. k.u \in registered'
  BY <1>2, <1>3, <1>5 DEF Keeps
<1>. QED  BY <1>1, <1>3, <1>4, <1>5, <1>6, <1>7, JobReplaced

-----------------------------------------------------------------------------
(* The start of a job. *)

LEMMA BeginFacts ==
    ASSUME IInv, NEW s \in Slot, NEW u \in User, NEW kind \in Kinds, NEW pc \in Place,
           NEW id \in Identity \cup {None}, NEW name \in Nat, Begin(s, u, kind, pc, id, name)
    PROVE  /\ Stays(s) /\ jobs' \in 0..MaxJob
           /\ job'[s].pc = pc /\ job'[s].kind = kind /\ job'[s].u = u /\ job'[s].id = id
<1>. DEFINE given == IF kind = "sync" THEN user[u].name ELSE 0
            k == [pc |-> pc, kind |-> kind, u |-> u, id |-> id, name |-> name, avatar |-> 0, given |-> given]
<1>1. given \in Nat
  BY DEF IInv, World, Types, Profile
<1>. HIDE DEF given
<1>2. k \in JobRecord
  BY <1>1 DEF JobRecord, Place, Acting
<1>3. job' = [job EXCEPT ![s] = k]
  BY DEF Begin, given
<1>4. Stays(s) /\ job'[s] = k
  BY <1>2, <1>3, Replaced DEF IInv
<1>5. jobs' \in 0..MaxJob
  BY GhostUsersAssumption DEF Begin, IInv, World, Types
<1>. QED  BY <1>4, <1>5

LEMMA BeginStep ==
    ASSUME IInv, NEW s \in Slot, NEW u \in User, NEW kind \in Kinds, NEW pc \in Place,
           NEW id \in Identity \cup {None}, NEW name \in Nat, Begin(s, u, kind, pc, id, name),
           \/ pc \in {"identity", "lookup"} /\ id = None /\ spoke' = spoke
           \/ pc \in {"mirrorKey", "mirrorRegister"} /\ id = "mirrored"
              /\ spoke' = [spoke EXCEPT ![u] = @ \cup {"mirrored"}],
           user' \in [User -> Profile], untidy' \subseteq User,
           UNCHANGED <<room, matrix, kvstore, caches, kept, removed, faults>>
    PROVE  IInv'
<1>1. /\ Stays(s) /\ jobs' \in 0..MaxJob
      /\ job'[s].pc = pc /\ job'[s].kind = kind /\ job'[s].u = u /\ job'[s].id = id
  BY BeginFacts
<1>2. /\ spoke' \in [User -> SUBSET Identity]
      /\ \A v \in User : spoke[v] \subseteq spoke'[v]
      /\ id = None \/ (id = "mirrored" /\ id \in spoke'[u])
  BY DEF IInv, World, Types, Identity
<1>3. World' /\ Keeps
  <2>1. Types' /\ Unregistered' /\ Stored' /\ Mapped'
    BY <1>1, <1>2 DEF matrix, kvstore, caches, IInv, World, Types, Unregistered, Stored, Mapped
  <2>2. Keeps
    BY <1>2 DEF matrix, Keeps, Vouched
  <2>3. Recorded'
    BY <2>2 DEF kvstore, caches, IInv, World, Types, Recorded, Keeps
  <2>. QED  BY <2>1, <2>2, <2>3 DEF World
<1>4. JobOK(job[s])'
  BY <1>1, <1>2 DEF JobOK, Acting, Creates, None
<1>. QED  BY <1>1, <1>3, <1>4, StepJobs

LEMMA StartStep == ASSUME IInv, NEW s \in Slot, NEW u \in User, Start(s, u) PROVE IInv'
<1>1. PICK kind \in {"post", "join", "create", "sync"} : Begin(s, u, kind, "identity", None, 0)
  BY DEF Start
<1>2. /\ user' \in [User -> Profile] /\ untidy' \subseteq User /\ spoke' = spoke
      /\ UNCHANGED <<room, matrix, kvstore, caches, kept, removed, faults>>
  BY DEF Start, IInv, World, Types
<1>3. kind \in Kinds /\ "identity" \in Place /\ None \in Identity \cup {None} /\ 0 \in Nat
  BY DEF Kinds, Place
<1>. QED  BY <1>1, <1>2, <1>3, BeginStep

LEMMA StartMirroredStep == ASSUME IInv, NEW s \in Slot, NEW u \in User, StartMirrored(s, u) PROVE IInv'
<1>1. PICK kind \in {"post", "join"}, pc \in {"mirrorKey", "mirrorRegister"} : Begin(s, u, kind, pc, "mirrored", 0)
  BY DEF StartMirrored
<1>2. /\ user' \in [User -> Profile] /\ untidy' \subseteq User
      /\ spoke' = [spoke EXCEPT ![u] = @ \cup {"mirrored"}]
      /\ UNCHANGED <<room, matrix, kvstore, caches, kept, removed, faults>>
  BY DEF StartMirrored, IInv, World, Types
<1>3. kind \in Kinds /\ pc \in Place /\ "mirrored" \in Identity \cup {None} /\ 0 \in Nat
  BY DEF Kinds, Place, Acting, Identity
<1>. QED  BY <1>1, <1>2, <1>3, BeginStep

LEMMA ChangeNameStep == ASSUME IInv, NEW s \in Slot, NEW u \in User, ChangeName(s, u) PROVE IInv'
<1>1. Begin(s, u, "update", "identity", None, user[u].name + 1)
  BY DEF ChangeName
<1>2. /\ user' \in [User -> Profile] /\ untidy' \subseteq User /\ spoke' = spoke
      /\ UNCHANGED <<room, matrix, kvstore, caches, kept, removed, faults>>
  BY DEF ChangeName, Changed, IInv, World, Types, Profile
<1>3. "update" \in Kinds /\ "identity" \in Place /\ None \in Identity \cup {None} /\ user[u].name + 1 \in Nat
  BY DEF Kinds, Place, IInv, World, Types, Profile
<1>. QED  BY <1>1, <1>2, <1>3, BeginStep

LEMMA ChangeAvatarStep == ASSUME IInv, NEW s \in Slot, NEW u \in User, ChangeAvatar(s, u) PROVE IInv'
<1>1. Begin(s, u, "image", "lookup", None, 0)
  BY DEF ChangeAvatar
<1>2. /\ user' \in [User -> Profile] /\ untidy' \subseteq User /\ spoke' = spoke
      /\ UNCHANGED <<room, matrix, kvstore, caches, kept, removed, faults>>
  BY DEF ChangeAvatar, Changed, IInv, World, Types, Profile
<1>3. "image" \in Kinds /\ "lookup" \in Place /\ None \in Identity \cup {None} /\ 0 \in Nat
  BY DEF Kinds, Place
<1>. QED  BY <1>1, <1>2, <1>3, BeginStep

-----------------------------------------------------------------------------
(* The steps of no job. *)

\* The mapping of a user that no job is about to create is kept.
LEMMA MapUserStep == ASSUME IInv, NEW u \in User, MapUser(u) PROVE IInv'
<1>1. /\ ghostKey' = [ghostKey EXCEPT ![u] = "own"] /\ kept' \subseteq kept \cup {u}
      /\ UNCHANGED <<user, room, matrix, mirrorKey, roomKey, caches, job, jobs, spoke, removed, untidy, faults>>
  BY DEF MapUser
<1>2. World'
  BY <1>1 DEF matrix, caches, IInv, World, Types, Unregistered, Stored, Mapped, Recorded, Vouched
<1>3. ASSUME NEW s \in Slot, job[s] # Idle  PROVE JobOK(job[s])'
  <2>1. job[s] \in JobRecord /\ JobOK(job[s]) /\ job[s].u \in User
    BY <1>3, Fields DEF IInv, JobType, Jobs
  <2>2. Creates(job[s]) => job[s].u \notin kept'
    <3>1. CASE job[s].u = u
      BY <1>3, <3>1 DEF MapUser, Active
    <3>2. CASE job[s].u # u
      BY <1>1, <2>1, <3>2 DEF JobOK
    <3>. QED  BY <3>1, <3>2
  <2>. QED  BY <1>1, <2>1, <2>2 DEF JobOK, matrix, Vouched, Creates
<1>. QED  BY <1>1, <1>2, <1>3 DEF IInv, Jobs, JobType

\* The jobs stay or end.
LEMMA JobsStay ==
    ASSUME IInv, World', Keeps, job' \in {job, [s \in Slot |-> Idle]}
    PROVE  IInv'
<1>1. CASE job' = [s \in Slot |-> Idle]
  BY <1>1 DEF IInv, JobType, Jobs
<1>2. CASE job' = job
  <2>1. ASSUME NEW s \in Slot, job[s] # Idle  PROVE JobOK(job[s])'
    <3>1. job[s] \in JobRecord /\ JobOK(job[s]) /\ job[s].u \in User
      BY <2>1, Fields DEF IInv, JobType, Jobs
    <3>. QED  BY <1>2, <3>1 DEF JobOK, Keeps, Creates
  <2>. QED  BY <1>2, <2>1 DEF IInv, JobType, Jobs
<1>. QED  BY <1>1, <1>2

LEMMA RemoveStep == ASSUME IInv, NEW i \in User \X Identity, Remove(i) PROVE IInv'
<1>1. PICK m \in {None, "banned"} : membership' = [membership EXCEPT ![i] = m]
  BY DEF Remove
<1>2. /\ membership[i] = "joined" /\ removed' = removed \cup {i}
      /\ UNCHANGED <<user, room, registered, mirrored, profile, kvstore, caches, job, jobs, spoke, kept,
                     untidy, faults>>
  BY DEF Remove
<1>3. /\ membership' \in [User \X Identity -> {None, "invited", "joined", "banned"}]
      /\ \A k \in User \X Identity : membership'[k] = membership[k] \/ (k = i /\ k \in removed')
  BY <1>1, <1>2 DEF IInv, World, Types
<1>4. Types'
  BY <1>2, <1>3 DEF kvstore, caches, IInv, World, Types
<1>5. Unregistered'
  BY <1>1, <1>2 DEF IInv, World, Types, Unregistered, None, Identity
<1>6. \A u \in User : Vouched(u) => Vouched(u)'
  BY <1>2, <1>3 DEF Vouched, IInv, World, Types
<1>7. Recorded'
  BY <1>2, <1>6 DEF kvstore, caches, IInv, World, Types, Recorded
<1>8. Keeps /\ Stored' /\ Mapped'
  BY <1>2, <1>6 DEF Keeps, kvstore, caches, IInv, World, Stored, Mapped
<1>. QED  BY <1>2, <1>4, <1>5, <1>7, <1>8, JobsStay DEF World

LEMMA ForgetStep == ASSUME IInv, NEW u \in User, Forget(u) PROVE IInv'
<1>1. /\ ghostCache' \in {ghostCache, [ghostCache EXCEPT ![u] = None]} /\ roomCache' \subseteq roomCache
      /\ UNCHANGED <<user, room, matrix, kvstore, job, history, faults>>
  BY DEF Forget
<1>2. World' /\ Keeps
  BY <1>1 DEF matrix, kvstore, history, IInv, World, Types, Unregistered, Stored, Mapped, Recorded, Keeps, Vouched,
              None
<1>. QED  BY <1>1, <1>2, JobsStay

LEMMA CrashStep == ASSUME IInv, Crash PROVE IInv'
<1>1. /\ ghostCache' = [u \in User |-> None] /\ roomCache' = {} /\ faults' = faults + 1
      /\ job' = [s \in Slot |-> Idle]
      /\ UNCHANGED <<user, room, matrix, kvstore, history>>
  BY DEF Crash, Fault
<1>2. World' /\ Keeps
  BY <1>1 DEF matrix, kvstore, history, IInv, World, Types, Unregistered, Stored, Mapped, Recorded, Keeps, Vouched,
              None
<1>. QED  BY <1>1, <1>2, JobsStay

LEMMA StutterStep == ASSUME IInv, UNCHANGED vars PROVE IInv'
<1>1. Quiet /\ UNCHANGED job
  BY DEF vars, Quiet, world, IInv
<1>. QED  BY <1>1, QuietSteps, JobsStay

-----------------------------------------------------------------------------
(* The invariant. *)

LEMMA InitIInv == ASSUME Init PROVE IInv
<1>1. JobType /\ Jobs
  BY DEF Init, JobType, Jobs
<1>2. Types
  BY GhostUsersAssumption DEF Init, Types, Profile, None, Identity
<1>3. Unregistered /\ Stored /\ Mapped /\ Recorded
  BY DEF Init, Unregistered, Stored, Mapped, Recorded, None, Identity
<1>. QED  BY <1>1, <1>2, <1>3 DEF IInv, World

LEMMA NextIInv == ASSUME IInv, [Next]_vars PROVE IInv'
<1>1. ASSUME NEW s \in Slot, Step(s)  PROVE IInv'
  BY <1>1, LookInCacheStep, LookInStoreStep, FillCacheStep, ReadUserStep, ReadImageStep, RegisterStep,
     SetDisplayNameStep, SetAvatarStep, StoreStep, LookForMirrorStep, RegisterMirrorStep, StoreMirrorStep,
     MemberInCacheStep, MemberInStoreStep, MemberFillStep, AskRuleStep, InviteStep, JoinStep, RecordStep, SendStep
  DEF Step
<1>2. ASSUME NEW s \in Slot, NEW u \in User,
             Start(s, u) \/ StartMirrored(s, u) \/ ChangeName(s, u) \/ ChangeAvatar(s, u)
      PROVE  IInv'
  BY <1>2, StartStep, StartMirroredStep, ChangeNameStep, ChangeAvatarStep
<1>3. ASSUME NEW u \in User, MapUser(u) \/ Forget(u)  PROVE IInv'
  BY <1>3, MapUserStep, ForgetStep
<1>. QED  BY <1>1, <1>2, <1>3, RemoveStep, CrashStep, StutterStep DEF Next

-----------------------------------------------------------------------------
(* The bound on mishaps. *)

Counted == IsFiniteSet(removed) /\ faults + Cardinality(removed) <= MaxMishap

LEMMA Mishaps ==
    ASSUME [Next]_vars
    PROVE  \/ removed' = removed /\ (faults' = faults \/ Fault)
           \/ Mishap /\ faults' = faults /\ \E i \in User \X Identity : removed' = removed \cup {i}
<1>1. ASSUME NEW s \in Slot, Step(s)  PROVE removed' = removed /\ (faults' = faults \/ Fault)
  <2>1. CASE LookInCache(s) \/ LookInStore(s) \/ FillCache(s) \/ LookForMirror(s)
    BY <2>1 DEF LookInCache, LookInStore, FillCache, LookForMirror, Continue, history
  <2>2. CASE ReadUser(s) \/ ReadImage(s) \/ Register(s) \/ SetDisplayName(s) \/ SetAvatar(s) \/ Store(s)
    BY <2>2 DEF ReadUser, ReadImage, Register, SetDisplayName, SetAvatar, Store, history
  <2>3. CASE RegisterMirror(s) \/ StoreMirror(s) \/ MemberInCache(s) \/ MemberInStore(s) \/ MemberFill(s)
    BY <2>3 DEF RegisterMirror, StoreMirror, MemberInCache, MemberInStore, MemberFill, history
  <2>4. CASE AskRule(s) \/ Invite(s) \/ Join(s) \/ Record(s) \/ Send(s)
    BY <2>4 DEF AskRule, Invite, Join, Record, Send, history
  <2>. QED  BY <1>1, <2>1, <2>2, <2>3, <2>4 DEF Step
<1>2. ASSUME NEW s \in Slot, NEW u \in User,
             Start(s, u) \/ StartMirrored(s, u) \/ ChangeName(s, u) \/ ChangeAvatar(s, u)
      PROVE  removed' = removed /\ faults' = faults
  BY <1>2 DEF Start, StartMirrored, ChangeName, ChangeAvatar, Changed
<1>3. ASSUME NEW u \in User, MapUser(u) \/ Forget(u)  PROVE removed' = removed /\ faults' = faults
  BY <1>3 DEF MapUser, Forget, history
<1>4. ASSUME NEW i \in User \X Identity, Remove(i)  PROVE Mishap /\ faults' = faults /\ removed' = removed \cup {i}
  BY <1>4 DEF Remove
<1>5. CASE Crash
  BY <1>5 DEF Crash, history
<1>6. CASE UNCHANGED vars
  BY <1>6 DEF vars, history
<1>. QED  BY <1>1, <1>2, <1>3, <1>4, <1>5, <1>6 DEF Next

LEMMA NextCounted == ASSUME IInv, Counted, [Next]_vars PROVE Counted'
<1>1. faults \in Nat /\ MaxMishap \in Nat /\ Cardinality(removed) \in Nat
  BY GhostUsersAssumption, FS_CardinalityType DEF IInv, World, Types, Counted
<1>2. CASE removed' = removed /\ (faults' = faults \/ Fault)
  BY <1>1, <1>2 DEF Counted, Fault, Mishap
<1>3. ASSUME Mishap, faults' = faults, NEW i \in User \X Identity, removed' = removed \cup {i}  PROVE Counted'
  <2>1. IsFiniteSet(removed') /\ Cardinality(removed') \in {Cardinality(removed), Cardinality(removed) + 1}
    BY <1>3, FS_AddElement DEF Counted
  <2>. QED  BY <1>1, <1>3, <2>1 DEF Counted, Mishap
<1>. QED  BY <1>2, <1>3, Mishaps

LEMMA Invariant == Spec => [](IInv /\ Counted)
<1>1. Init => IInv /\ Counted
  BY InitIInv, FS_EmptySet, GhostUsersAssumption DEF Init, Counted
<1>2. IInv /\ Counted /\ [Next]_vars => (IInv /\ Counted)'
  BY NextIInv, NextCounted
<1>. QED  BY <1>1, <1>2, PTL DEF Spec

-----------------------------------------------------------------------------
(* The theorems. *)

\* The caches, the store, the homeserver's accounts and profiles, and the
\* jobs of all goroutines have their types; a ghost has a profile or a place
\* in the room, beyond an invitation, only if it is registered.
THEOREM GhostUsersTypeOK == Spec => []TypeOK
<1>1. IInv /\ Counted => TypeOK
  BY DEF IInv, JobType, World, Types, Unregistered, Counted, TypeOK, Identity
<1>. QED  BY <1>1, Invariant, PTL

\* An identity that a goroutine believes to be a member of the room is one
\* when it speaks, unless it was removed or shares its record with another
\* identity of the same user.
THEOREM GhostUsersSpeakerIsMember == Spec => []SpeakerIsMember
<1>1. ASSUME IInv, NEW s \in Slot, job[s].pc = "send"
      PROVE  membership[Me(s)] = "joined" \/ Me(s) \in removed \/ Cardinality(spoke[job[s].u]) > 1
  <2>1. job[s].u \in User /\ job[s].id \in spoke[job[s].u] /\ Vouched(job[s].u)
    BY <1>1, Mine DEF Place, Acting, JobOK
  <2>2. PICK i \in spoke[job[s].u] : membership[<<job[s].u, i>>] = "joined" \/ <<job[s].u, i>> \in removed
    BY <2>1 DEF Vouched
  <2>3. CASE i = job[s].id
    BY <2>2, <2>3 DEF Me
  <2>4. CASE i # job[s].id
    <3>1. IsFiniteSet({"ghost"} \cup {"own"})
      BY FS_Singleton, FS_AddElement
    <3>2. IsFiniteSet(({"ghost"} \cup {"own"}) \cup {"mirrored"})
      BY <3>1, FS_AddElement
    <3>3. Identity = ({"ghost"} \cup {"own"}) \cup {"mirrored"} /\ spoke[job[s].u] \in SUBSET Identity
      BY <1>1, <2>1 DEF IInv, World, Types, Identity
    <3>4. IsFiniteSet(spoke[job[s].u])
      BY <3>2, <3>3, FS_Subset
    <3>5. Cardinality(spoke[job[s].u]) \in Nat /\ Cardinality(spoke[job[s].u]) \notin {0, 1}
      BY <2>1, <2>4, <3>4, FS_CardinalityType, FS_EmptySet, FS_Singleton
    <3>. QED  BY <3>5
  <2>. QED  BY <2>3, <2>4
<1>2. IInv => SpeakerIsMember
  BY <1>1 DEF SpeakerIsMember
<1>. QED  BY <1>2, Invariant, PTL

\* A ghost that is stored or cached is registered, whichever calls failed and
\* however the goroutines overlapped; and an administrator's mapping is not
\* overwritten by a creation that has looked after it was made.
THEOREM GhostUsersIdentityKept == Spec => []IdentityKept
<1>1. IInv => IdentityKept
  BY DEF IInv, World, Stored, Mapped, IdentityKept
<1>. QED  BY <1>1, Invariant, PTL
-----------------------------------------------------------------------------
(* ProfileSettles.  As long as no call has failed, what the jobs of a tidy *)
(* user have read of it is still so (Fresh), whoever is registered is      *)
(* stored or about to be (Awaited), and a name or an avatar that a ghost   *)
(* does not have yet is still to be set by a job (NameKept, AvatarKept).   *)

\* The jobs of a user that are going to set the name, to set the avatar and to
\* store the ghost of it.
NameComes(j, u) == /\ j # Idle /\ j.u = u
                   /\ \/ Creation(j) /\ j.pc = "name"
                      \/ j.kind = "update" /\ j.pc \in {"identity", "lookup", "fill", "name"}
AvatarComes(j, u) == /\ j # Idle /\ j.u = u
                     /\ \/ Creation(j) /\ j.pc \in {"name", "avatar"}
                        \/ j.kind = "update" /\ j.pc \in {"identity", "lookup", "fill", "name", "image", "avatar"}
                        \/ j.kind = "image" /\ j.pc \in {"lookup", "image", "avatar"}
StoreComes(j, u) == j # Idle /\ j.u = u /\ Creation(j) /\ j.pc \in {"name", "avatar", "store"}

Named(u) == profile[u].name = user[u].name
Pictured(u) == profile[u].avatar = user[u].avatar
NameKept(u) == Named(u) \/ \E s \in Slot : NameComes(job[s], u)
AvatarKept(u) == Pictured(u) \/ \E s \in Slot : AvatarComes(job[s], u)
Kept(u) == spoke[u] \subseteq {"ghost"} => NameKept(u) /\ AvatarKept(u)
Awaited(u) == ghostKey[u] # None \/ \E s \in Slot : StoreComes(job[s], u)

Fresh(j) ==
    /\ j.kind = "update" => j.name = user[j.u].name
    /\ j.kind = "sync" => j.given = user[j.u].name
    /\ Creation(j) /\ j.pc \in {"image", "register", "name", "avatar", "store"} => j.name = user[j.u].name
    /\ Creation(j) /\ j.pc \in {"register", "name", "avatar", "store"} => j.avatar = user[j.u].avatar
    /\ j.pc = "avatar" => j.avatar = user[j.u].avatar
    /\ Creation(j) /\ j.pc \in {"avatar", "store"} => Named(j.u)
    /\ j.pc = "store" => Pictured(j.u)
    /\ j.pc \in {"identity", "lookup", "read", "register", "store"} => j.id = None
    /\ Creation(j) /\ j.pc \in {"image", "name", "avatar"} => j.id = None
    /\ ~Creation(j) /\ j.pc \in {"name", "image", "avatar"} => j.id \in spoke[j.u]

FreshJobs == \A s \in Slot : job[s] # Idle /\ job[s].u \notin untidy => Fresh(job[s])
Promises == (\A u \in registered : Awaited(u)) /\ (\A u \in registered \ untidy : Kept(u))
HasImage == \A u \in User : user[u].avatar # 0
PInv == HasImage /\ (faults = 0 => FreshJobs /\ Promises)

\* What is due to a user, as long as it is not given another identity.
LEMMA StepPInv ==
    ASSUME IInv, IInv', PInv, faults = 0, NEW s \in Slot, NEW u \in User,
           Stays(s), job[s] # Idle => job[s].u = u, job'[s] # Idle => job'[s].u = u,
           UNCHANGED <<user, untidy>>, registered \subseteq registered', registered' \subseteq registered \cup {u},
           \A v \in User : spoke[v] \subseteq spoke'[v] /\ (ghostKey[v] # None => ghostKey'[v] # None),
           \A v \in User \ untidy : (Named(v) => Named(v)') /\ (Pictured(v) => Pictured(v)'),
           job'[s] # Idle /\ u \notin untidy => Fresh(job[s])',
           StoreComes(job[s], u) \/ u \notin registered => (u \in registered' => Awaited(u)'),
           u \in registered' \ untidy /\ spoke'[u] \subseteq {"ghost"} =>
               /\ NameComes(job[s], u) \/ u \notin registered => NameKept(u)'
               /\ AvatarComes(job[s], u) \/ u \notin registered => AvatarKept(u)'
    PROVE  PInv'
<1>. USE DEF PInv
<1>1. HasImage'
  BY DEF HasImage
<1>2. ASSUME NEW t \in Slot, job'[t] # Idle, job'[t].u \notin untidy'  PROVE Fresh(job[t])'
  <2>1. CASE t = s
    BY <1>2, <2>1
  <2>2. CASE t # s
    <3>1. job'[t] = job[t] /\ job[t] # Idle /\ job[t].u \in User
      BY <1>2, <2>2, Fields DEF Stays, IInv, JobType
    <3>2. Fresh(job[t])
      BY <1>2, <3>1 DEF FreshJobs
    <3>. QED  BY <1>2, <3>1, <3>2 DEF Fresh, Creation
  <2>. QED  BY <2>1, <2>2
<1>3. ASSUME NEW t \in Slot \ {s}  PROVE job'[t] = job[t]
  BY <1>3 DEF Stays
<1>4. ASSUME NEW v \in registered'  PROVE Awaited(v)'
  <2>1. v \in User /\ v \in registered \cup {u}
    BY <1>4 DEF IInv, World, Types
  <2>2. CASE v = u /\ (StoreComes(job[s], u) \/ u \notin registered)
    BY <1>4, <2>2
  <2>3. CASE v \in registered /\ ~StoreComes(job[s], v)
    <3>1. Awaited(v)
      BY <2>3 DEF Promises
    <3>2. ASSUME NEW t \in Slot, StoreComes(job[t], v)  PROVE StoreComes(job'[t], v)
      BY <1>3, <2>3, <3>2
    <3>. QED  BY <2>1, <3>1, <3>2 DEF Awaited
  <2>. QED  BY <2>1, <2>2, <2>3 DEF StoreComes
<1>5. ASSUME NEW v \in registered' \ untidy', spoke'[v] \subseteq {"ghost"}  PROVE NameKept(v)' /\ AvatarKept(v)'
  <2>1. v \in User \ untidy /\ v \in registered \cup {u} /\ spoke[v] \subseteq {"ghost"}
    BY <1>5 DEF IInv, World, Types
  <2>2. v \in registered => NameKept(v) /\ AvatarKept(v)
    BY <2>1 DEF Promises, Kept
  <2>3. NameKept(v)'
    <3>1. CASE v = u /\ (NameComes(job[s], u) \/ u \notin registered)
      BY <1>5, <3>1
    <3>2. CASE v \in registered /\ ~NameComes(job[s], v)
      <4>1. ASSUME NEW t \in Slot, NameComes(job[t], v)  PROVE NameComes(job'[t], v)
        BY <1>3, <3>2, <4>1
      <4>. QED  BY <2>1, <2>2, <3>2, <4>1 DEF NameKept
    <3>. QED  BY <2>1, <3>1, <3>2 DEF NameComes
  <2>4. AvatarKept(v)'
    <3>1. CASE v = u /\ (AvatarComes(job[s], u) \/ u \notin registered)
      BY <1>5, <3>1
    <3>2. CASE v \in registered /\ ~AvatarComes(job[s], v)
      <4>1. ASSUME NEW t \in Slot, AvatarComes(job[t], v)  PROVE AvatarComes(job'[t], v)
        BY <1>3, <3>2, <4>1
      <4>. QED  BY <2>1, <2>2, <3>2, <4>1 DEF AvatarKept
    <3>. QED  BY <2>1, <3>1, <3>2 DEF AvatarComes
  <2>. QED  BY <2>3, <2>4
<1>. QED  BY <1>1, <1>2, <1>4, <1>5 DEF FreshJobs, Promises, Kept

\* A job that comes to pc, as it is.
Goes(s, pc) ==
    /\ Comes(s, pc) /\ job'[s] # Idle
    /\ job'[s].name = job[s].name /\ job'[s].avatar = job[s].avatar /\ job'[s].given = job[s].given

LEMMA GoesFacts ==
    ASSUME IInv, NEW s \in Slot, job[s].pc \in Place, NEW pc \in Place, Goto(s, pc)
    PROVE  Goes(s, pc)
<1>. DEFINE k == [job[s] EXCEPT !.pc = pc]
<1>1. job' = [job EXCEPT ![s] = k] /\ job[s] \in JobRecord
  BY Mine DEF Goto
<1>2. k \in JobRecord /\ k.name = job[s].name /\ k.avatar = job[s].avatar /\ k.given = job[s].given
  BY <1>1, Moved DEF JobRecord
<1>. HIDE DEF k
<1>3. job'[s] = k /\ Comes(s, pc)
  BY <1>1, <1>2, Replaced, GotoFacts DEF IInv
<1>. QED  BY <1>2, <1>3, Fields DEF Goes

\* What a step of a job that speaks, joins or mirrors leaves to the others.
LEMMA ActingPInv ==
    ASSUME IInv, IInv', PInv, faults = 0, NEW s \in Slot, job[s].pc \in Acting,
           End(s) \/ \E pc \in Acting : Goto(s, pc),
           UNCHANGED <<user, registered, profile, ghostKey, spoke, untidy>>
    PROVE  PInv'
<1>0. PICK u \in User : u = job[s].u
  BY Mine DEF Place
<1>1. job[s].pc \in Place /\ job[s] # Idle
  BY Mine, Fields DEF Place
<1>2. ~StoreComes(job[s], u) /\ ~NameComes(job[s], u) /\ ~AvatarComes(job[s], u)
  BY DEF Acting, StoreComes, NameComes, AvatarComes
<1>3. Stays(s) /\ (job'[s] = Idle \/ \E pc \in Acting : Goes(s, pc))
  BY <1>1, EndFacts, GoesFacts DEF Goes, Comes, Place
<1>4. job'[s] # Idle => job'[s].u = u
  BY <1>0, <1>3 DEF Goes, Comes
<1>5. ASSUME job'[s] # Idle, u \notin untidy  PROVE Fresh(job[s])'
  <2>1. Fresh(job[s])
    BY <1>0, <1>1, <1>5 DEF PInv, FreshJobs
  <2>2. PICK pc \in Acting : Goes(s, pc)
    BY <1>3, <1>5
  <2>3. pc \notin {"identity", "lookup", "read", "image", "register", "name", "avatar", "store"}
    BY DEF Acting
  <2>. QED  BY <1>0, <2>1, <2>2, <2>3 DEF Fresh, Goes, Comes, Creation
<1>6. u \in registered' => u \in registered
  OBVIOUS
<1>7. \A v \in User : (Named(v) => Named(v)') /\ (Pictured(v) => Pictured(v)')
  BY DEF Named, Pictured
<1>. QED  BY <1>0, <1>1, <1>2, <1>3, <1>4, <1>5, <1>6, <1>7, StepPInv

LEMMA NoFault == ASSUME faults = 0, faults' = 0 PROVE ~Fault
BY DEF Fault

LEMMA ActingSteps ==
    ASSUME IInv, IInv', PInv, faults = 0, faults' = 0, NEW s \in Slot,
           \/ LookForMirror(s) \/ RegisterMirror(s) \/ StoreMirror(s) \/ MemberInCache(s) \/ MemberInStore(s)
           \/ MemberFill(s) \/ AskRule(s) \/ Invite(s) \/ Join(s) \/ Record(s) \/ Send(s)
    PROVE  PInv'
<1>1. /\ job[s].pc \in Acting
      /\ End(s) \/ \E pc \in Acting : Goto(s, pc)
  <2>1. CASE LookForMirror(s) \/ RegisterMirror(s) \/ StoreMirror(s)
    BY <2>1 DEF LookForMirror, RegisterMirror, StoreMirror, Acting
  <2>2. CASE MemberInCache(s) \/ MemberInStore(s) \/ MemberFill(s) \/ AskRule(s)
    BY <2>2 DEF MemberInCache, MemberInStore, MemberFill, AskRule, Acting
  <2>3. CASE Invite(s) \/ Join(s) \/ Record(s) \/ Send(s)
    BY <2>3 DEF Invite, Join, Fallback, Record, Send, Acting
  <2>. QED  BY <2>1, <2>2, <2>3
<1>2. UNCHANGED <<user, registered, profile, ghostKey, spoke, untidy>>
  BY DEF LookForMirror, RegisterMirror, StoreMirror, MemberInCache, MemberInStore, MemberFill, AskRule, Invite, Join,
         Record, Send, world, history, matrix, kvstore
<1>. QED  BY <1>1, <1>2, ActingPInv

\* A job that has found its identity: an update and an image hook go on with
\* what is due, if the user speaks as its ghost.
LEMMA ContinueGoes ==
    ASSUME IInv, NEW s \in Slot, job[s].pc \in {"identity", "lookup", "fill"}, NEW id \in {"ghost", "own"},
           Continue(s, id)
    PROVE  /\ job'[s] # Idle =>
              \/ /\ job'[s].kind = "update" /\ job[s].kind = "sync" /\ job'[s].pc = "identity" /\ job'[s].id = None
                 /\ job'[s].name = job[s].given
              \/ job'[s].kind \in {"post", "join"} /\ job'[s].pc \in {"member", "rule"}
              \/ /\ job'[s].kind = "image" /\ job[s].kind = "image" /\ job'[s].pc = "image" /\ job'[s].id = id
              \/ /\ job'[s].kind = "update" /\ job[s].kind = "update" /\ job'[s].pc = "name" /\ job'[s].id = id
                 /\ job'[s].name = job[s].name
           /\ job[s].kind = "update" /\ id = "ghost" => /\ job'[s] # Idle /\ job'[s].u = job[s].u
                                                        /\ job'[s].kind = "update" /\ job'[s].pc = "name"
           /\ job[s].kind = "image" => /\ job'[s] # Idle /\ job'[s].u = job[s].u
                                       /\ job'[s].kind = "image" /\ job'[s].pc = "image"
<1>. DEFINE j == job[s]
            Found(pc) == GoesOn(j, id, pc)
            Anew == [j EXCEPT !.pc = "identity", !.kind = "update", !.id = None, !.name = j.given,
                              !.given = 0, !.avatar = 0]
<1>1. j \in JobRecord
  BY Mine DEF Place, Acting
<1>2. ASSUME NEW pc \in Place
      PROVE  /\ Found(pc) \in JobRecord
             /\ Found(pc).pc = pc /\ Found(pc).id = id /\ Found(pc).u = j.u /\ Found(pc).kind = j.kind
             /\ Found(pc).name = j.name
  <2>1. j \in JobRecord /\ id \in Identity
    BY <1>1 DEF Identity
  <2>. QED  BY <2>1, GoesOnFacts
<1>3. /\ Anew \in JobRecord
      /\ Anew.pc = "identity" /\ Anew.id = None /\ Anew.kind = "update" /\ Anew.name = j.given
  BY <1>1 DEF JobRecord, Place, Acting, Identity, Kinds
<1>4. \/ job' = [job EXCEPT ![s] = Idle] /\ j.kind # "image" /\ ~(j.kind = "update" /\ id = "ghost")
      \/ job' = [job EXCEPT ![s] = Anew] /\ j.kind = "sync"
      \/ job' = [job EXCEPT ![s] = Found("member")] /\ j.kind = "post"
      \/ job' = [job EXCEPT ![s] = Found("rule")] /\ j.kind = "join"
      \/ job' = [job EXCEPT ![s] = Found("image")] /\ j.kind = "image"
      \/ job' = [job EXCEPT ![s] = Found("name")] /\ j.kind = "update" /\ id = "ghost"
  <2>1. CASE j.kind = "post"
    BY <2>1 DEF Continue, GoesOn
  <2>2. CASE j.kind = "join"
    BY <2>2 DEF Continue, GoesOn
  <2>3. CASE j.kind = "image"
    BY <2>3 DEF Continue, GoesOn
  <2>4. CASE j.kind = "sync"
    BY <2>4 DEF Continue, GoesOn
  <2>5. CASE j.kind = "update" /\ id = "ghost"
    BY <2>5 DEF Continue, GoesOn
  <2>6. CASE j.kind \notin {"post", "join", "image", "sync"} /\ ~(j.kind = "update" /\ id = "ghost")
    BY <2>6 DEF Continue, GoesOn
  <2>. QED  BY <2>1, <2>2, <2>3, <2>4, <2>5, <2>6
<1>5. {"member", "rule", "image", "name"} \subseteq Place
  BY DEF Place, Acting
<1>. HIDE DEF Found, Anew
<1>6. ASSUME NEW k \in JobRecord \cup {Idle}, job' = [job EXCEPT ![s] = k]  PROVE job'[s] = k
  BY <1>6, Replaced DEF IInv
<1>7. Idle \in JobRecord \cup {Idle}
  OBVIOUS
<1>8. \A k \in JobRecord : k # Idle
  BY Fields
<1>. QED  BY <1>2, <1>3, <1>4, <1>5, <1>6, <1>7, <1>8

LEMMA ContinuePInv ==
    ASSUME IInv, IInv', PInv, faults = 0, NEW s \in Slot, job[s].pc \in {"identity", "lookup", "fill"},
           NEW id \in {"ghost", "own"}, Continue(s, id), UNCHANGED <<user, registered, profile, ghostKey>>
    PROVE  PInv'
<1>0. PICK u \in User : u = job[s].u
  BY Mine DEF Place, Acting
<1>1. job[s].pc \in Place /\ job[s] # Idle
  BY Mine, Fields DEF Place, Acting
<1>2. /\ spoke' = [spoke EXCEPT ![u] = @ \cup {id}]
      /\ untidy' = untidy
  BY <1>0 DEF Continue
<1>3. (\A v \in User : spoke[v] \subseteq spoke'[v]) /\ id \in spoke'[u]
  BY <1>2 DEF IInv, World, Types
<1>4. Stays(s) /\ (job'[s] # Idle => job'[s].u = u)
  BY <1>0, ContinueFacts
<1>5. ~StoreComes(job[s], u)
  BY DEF StoreComes
<1>6. ASSUME job'[s] # Idle, u \notin untidy  PROVE Fresh(job[s])'
  <2>1. Fresh(job[s])
    BY <1>0, <1>1, <1>6 DEF PInv, FreshJobs
  <2>. QED  BY <1>0, <1>3, <1>4, <1>6, <2>1, ContinueGoes DEF Fresh, Creation
<1>7. ASSUME spoke'[u] \subseteq {"ghost"}
      PROVE  /\ NameComes(job[s], u) => NameComes(job'[s], u)
             /\ AvatarComes(job[s], u) => AvatarComes(job'[s], u)
  BY <1>0, <1>3, <1>7, ContinueGoes DEF NameComes, AvatarComes, Creation
<1>8. \A v \in User : (Named(v) => Named(v)') /\ (Pictured(v) => Pictured(v)')
  BY DEF Named, Pictured
<1>9. ASSUME u \in registered' \ untidy, spoke'[u] \subseteq {"ghost"}
      PROVE  /\ NameComes(job[s], u) \/ u \notin registered => NameKept(u)'
             /\ AvatarComes(job[s], u) \/ u \notin registered => AvatarKept(u)'
  BY <1>7, <1>9 DEF NameKept, AvatarKept
<1>. QED  BY <1>0, <1>1, <1>2, <1>3, <1>4, <1>5, <1>6, <1>8, <1>9, StepPInv

LEMMA LookInCachePInv ==
    ASSUME IInv, IInv', PInv, faults = 0, NEW s \in Slot, LookInCache(s)
    PROVE  PInv'
<1>0. PICK u \in User : u = job[s].u
  BY Mine DEF LookInCache, Place, Acting
<1>1. job[s].pc = "identity" /\ job[s].pc \in Place /\ job[s] # Idle
  BY Mine, Fields DEF LookInCache, Place, Acting
<1>2. CASE ghostCache[u] = None
  <2>1. Goes(s, "lookup") /\ UNCHANGED <<user, registered, profile, ghostKey, spoke, untidy>>
    BY <1>0, <1>1, <1>2, GoesFacts DEF LookInCache, world, history, matrix, kvstore, Place, Acting
  <2>2. Stays(s) /\ (job'[s] # Idle => job'[s].u = u)
    BY <1>0, <2>1 DEF Goes, Comes
  <2>3. ~StoreComes(job[s], u)
    BY <1>1 DEF StoreComes
  <2>4. ASSUME u \notin untidy  PROVE Fresh(job[s])'
    <3>1. Fresh(job[s])
      BY <1>0, <1>1, <2>4 DEF PInv, FreshJobs
    <3>. QED  BY <1>0, <1>1, <2>1, <3>1 DEF Fresh, Goes, Comes, Creation
  <2>5. /\ NameComes(job[s], u) => NameComes(job'[s], u)
        /\ AvatarComes(job[s], u) => AvatarComes(job'[s], u)
    BY <1>0, <1>1, <2>1 DEF NameComes, AvatarComes, Goes, Comes, Creation
  <2>6. \A v \in User : (Named(v) => Named(v)') /\ (Pictured(v) => Pictured(v)')
    BY <2>1 DEF Named, Pictured
  <2>7. u \in registered' \ untidy /\ spoke'[u] \subseteq {"ghost"} =>
           /\ NameComes(job[s], u) \/ u \notin registered => NameKept(u)'
           /\ AvatarComes(job[s], u) \/ u \notin registered => AvatarKept(u)'
    BY <2>1, <2>5 DEF NameKept, AvatarKept
  <2>. QED  BY <1>0, <1>1, <2>1, <2>2, <2>3, <2>4, <2>6, <2>7, StepPInv
<1>3. CASE ghostCache[u] # None
  <2>1. PICK id \in {"ghost", "own"} : id = ghostCache[u]
    BY <1>3 DEF IInv, World, Types
  <2>2. Continue(s, id) /\ UNCHANGED <<user, registered, profile, ghostKey>>
    BY <1>0, <1>3, <2>1 DEF LookInCache, world, matrix, kvstore
  <2>. QED  BY <1>1, <2>2, ContinuePInv
<1>. QED  BY <1>2, <1>3

LEMMA FillCachePInv ==
    ASSUME IInv, IInv', PInv, faults = 0, NEW s \in Slot, FillCache(s)
    PROVE  PInv'
<1>1. job[s].pc = "fill" /\ Continue(s, job[s].id) /\ UNCHANGED <<user, registered, profile, ghostKey>>
  BY DEF FillCache, matrix, kvstore
<1>2. PICK id \in {"ghost", "own"} : id = job[s].id
  BY <1>1, Mine DEF JobOK, Place, Acting
<1>. QED  BY <1>1, <1>2, ContinuePInv

\* A key that is not found is that of a ghost which is about to be stored, and
\* whose creation sets what an update or an image hook that ends here does not.
LEMMA LookInStorePInv ==
    ASSUME IInv, IInv', PInv, faults = 0, faults' = 0, NEW s \in Slot, LookInStore(s)
    PROVE  PInv'
<1>0. PICK u \in User : u = job[s].u
  BY Mine DEF LookInStore, Place, Acting
<1>1. job[s].pc = "lookup" /\ job[s].pc \in Place /\ job[s] \in JobRecord /\ job[s] # Idle
  BY Mine, Fields DEF LookInStore, Place, Acting
<1>2. UNCHANGED <<user, registered, profile, ghostKey>>
  BY DEF LookInStore, world, matrix, kvstore
<1>3. ~StoreComes(job[s], u) /\ \A v \in User : (Named(v) => Named(v)') /\ (Pictured(v) => Pictured(v)')
  BY <1>1, <1>2 DEF StoreComes, Named, Pictured
<1>4. u \notin untidy => Fresh(job[s])
  BY <1>0, <1>1 DEF PInv, FreshJobs
<1>5. CASE ghostKey[u] = None
  <2>1. /\ IF Creation(job[s]) THEN Goto(s, "read") ELSE End(s)
        /\ UNCHANGED <<spoke, untidy>>
    BY <1>0, <1>5, NoFault DEF LookInStore, history
  <2>2. Stays(s) /\ (job'[s] = Idle \/ (Goes(s, "read") /\ Creation(job[s])))
    BY <1>1, <2>1, GoesFacts, EndFacts DEF Goes, Comes, Place
  <2>3. job'[s] # Idle => job'[s].u = u
    BY <1>0, <2>2 DEF Goes, Comes
  <2>4. ASSUME job'[s] # Idle, u \notin untidy  PROVE Fresh(job[s])'
    BY <1>0, <1>1, <1>2, <1>4, <2>2, <2>4 DEF Fresh, Goes, Comes, Creation
  <2>5. ASSUME u \in registered' \ untidy  PROVE NameKept(u)' /\ AvatarKept(u)'
    <3>1. PICK t \in Slot : StoreComes(job[t], u)
      BY <1>2, <1>5, <2>5 DEF PInv, Promises, Awaited
    <3>2. t # s /\ job'[t] = job[t]
      BY <1>3, <2>2, <3>1 DEF Stays
    <3>3. Fresh(job[t])
      BY <2>5, <3>1 DEF PInv, FreshJobs, StoreComes
    <3>4. NameComes(job[t], u) \/ Named(u)
      BY <3>1, <3>3 DEF StoreComes, NameComes, Fresh
    <3>5. AvatarComes(job[t], u) \/ Pictured(u)
      BY <3>1, <3>3 DEF StoreComes, AvatarComes, Fresh
    <3>. QED  BY <1>3, <3>2, <3>4, <3>5 DEF NameKept, AvatarKept
  <2>. QED  BY <1>0, <1>1, <1>2, <1>3, <2>1, <2>2, <2>3, <2>4, <2>5, StepPInv
<1>6. CASE ghostKey[u] # None /\ job[s].kind = "image"
  <2>1. PICK id \in {"ghost", "own"} : id = ghostKey[u]
    BY <1>6 DEF IInv, World, Types
  <2>2. Continue(s, id)
    BY <1>0, <1>6, <2>1, NoFault DEF LookInStore
  <2>. QED  BY <1>1, <1>2, <2>2, ContinuePInv
<1>7. CASE ghostKey[u] # None /\ job[s].kind # "image"
  <2>. DEFINE k == [job[s] EXCEPT !.id = ghostKey[u], !.pc = "fill"]
  <2>1. job' = [job EXCEPT ![s] = k] /\ UNCHANGED <<spoke, untidy>>
    BY <1>0, <1>7, NoFault DEF LookInStore, history
  <2>2. ghostKey[u] \in Identity
    BY <1>7 DEF IInv, World, Types, Identity
  <2>3. /\ k \in JobRecord
        /\ k.pc = "fill" /\ k.u = u /\ k.kind = job[s].kind /\ k.name = job[s].name /\ k.given = job[s].given
    BY <1>0, <1>1, <2>2 DEF JobRecord
  <2>. HIDE DEF k
  <2>4. Stays(s) /\ job'[s] = k /\ k # Idle
    BY <2>1, <2>3, Replaced, Fields DEF IInv
  <2>5. u \notin untidy => Fresh(job[s])'
    BY <1>0, <1>1, <1>2, <1>4, <2>3, <2>4 DEF Fresh, Creation
  <2>6. /\ NameComes(job[s], u) => NameComes(job'[s], u)
        /\ AvatarComes(job[s], u) => AvatarComes(job'[s], u)
    BY <1>1, <1>7, <2>3, <2>4 DEF NameComes, AvatarComes, Creation
  <2>7. u \in registered' \ untidy /\ spoke'[u] \subseteq {"ghost"} =>
           /\ NameComes(job[s], u) \/ u \notin registered => NameKept(u)'
           /\ AvatarComes(job[s], u) \/ u \notin registered => AvatarKept(u)'
    BY <1>2, <2>6 DEF NameKept, AvatarKept
  <2>. QED  BY <1>0, <1>1, <1>2, <1>3, <2>1, <2>3, <2>4, <2>5, <2>7, StepPInv
<1>. QED  BY <1>5, <1>6, <1>7

LEMMA ReadUserPInv ==
    ASSUME IInv, IInv', PInv, faults = 0, faults' = 0, NEW s \in Slot, ReadUser(s)
    PROVE  PInv'
<1>0. PICK u \in User : u = job[s].u
  BY Mine DEF ReadUser, Place, Acting
<1>. DEFINE k == [job[s] EXCEPT !.name = user[u].name, !.pc = "image"]
<1>1. /\ job[s].pc = "read" /\ job[s] \in JobRecord /\ job[s] # Idle /\ Creation(job[s])
      /\ user[u].name \in Nat
  BY Mine, Fields DEF ReadUser, Place, Acting, JobOK, IInv, World, Types, Profile
<1>2. job' = [job EXCEPT ![s] = k] /\ UNCHANGED <<user, registered, profile, ghostKey, spoke, untidy>>
  BY <1>0, NoFault DEF ReadUser, world, history, matrix, kvstore
<1>3. /\ k \in JobRecord
      /\ k.pc = "image" /\ k.u = u /\ k.kind = job[s].kind /\ k.id = job[s].id
      /\ k.name = user[u].name /\ k.given = job[s].given
  BY <1>0, <1>1 DEF JobRecord
<1>. HIDE DEF k
<1>4. Stays(s) /\ job'[s] = k /\ k # Idle
  BY <1>2, <1>3, Replaced, Fields DEF IInv
<1>5. ASSUME u \notin untidy  PROVE Fresh(job[s])'
  <2>1. Fresh(job[s])
    BY <1>0, <1>1, <1>5 DEF PInv, FreshJobs
  <2>. QED  BY <1>0, <1>1, <1>2, <1>3, <1>4, <2>1 DEF Fresh, Creation
<1>6. ~StoreComes(job[s], u) /\ ~NameComes(job[s], u) /\ ~AvatarComes(job[s], u)
  BY <1>1 DEF StoreComes, NameComes, AvatarComes
<1>7. \A v \in User : (Named(v) => Named(v)') /\ (Pictured(v) => Pictured(v)')
  BY <1>2 DEF Named, Pictured
<1>. QED  BY <1>0, <1>1, <1>2, <1>3, <1>4, <1>5, <1>6, <1>7, StepPInv

LEMMA ReadImagePInv ==
    ASSUME IInv, IInv', PInv, faults = 0, faults' = 0, NEW s \in Slot, ReadImage(s)
    PROVE  PInv'
<1>0. PICK u \in User : u = job[s].u
  BY Mine DEF ReadImage, Place, Acting
<1>. DEFINE pc == IF Creation(job[s]) THEN "register" ELSE "avatar"
            k == [job[s] EXCEPT !.avatar = user[u].avatar, !.pc = pc]
<1>1. job[s].pc = "image" /\ job[s] \in JobRecord /\ job[s] # Idle /\ user[u].avatar \in Nat
  BY Mine, Fields DEF ReadImage, Place, Acting, IInv, World, Types, Profile
<1>2. job' = [job EXCEPT ![s] = k] /\ UNCHANGED <<user, registered, profile, ghostKey, spoke, untidy>>
  BY <1>0, NoFault DEF ReadImage, world, history, matrix, kvstore
<1>3. /\ k \in JobRecord
      /\ k.pc = pc /\ k.u = u /\ k.kind = job[s].kind /\ k.id = job[s].id
      /\ k.name = job[s].name /\ k.given = job[s].given /\ k.avatar = user[u].avatar
  BY <1>0, <1>1 DEF JobRecord
<1>4. (pc = "register" /\ Creation(job[s])) \/ (pc = "avatar" /\ ~Creation(job[s]))
  OBVIOUS
<1>. HIDE DEF k, pc
<1>5. Stays(s) /\ job'[s] = k /\ k # Idle
  BY <1>2, <1>3, Replaced, Fields DEF IInv
<1>6. ASSUME u \notin untidy  PROVE Fresh(job[s])'
  <2>1. Fresh(job[s])
    BY <1>0, <1>1, <1>6 DEF PInv, FreshJobs
  <2>. QED  BY <1>0, <1>1, <1>2, <1>3, <1>4, <1>5, <2>1 DEF Fresh, Creation
<1>7. ~StoreComes(job[s], u) /\ ~NameComes(job[s], u) /\ (AvatarComes(job[s], u) => AvatarComes(job'[s], u))
  BY <1>0, <1>1, <1>3, <1>4, <1>5 DEF StoreComes, NameComes, AvatarComes, Creation
<1>8. \A v \in User : (Named(v) => Named(v)') /\ (Pictured(v) => Pictured(v)')
  BY <1>2 DEF Named, Pictured
<1>9. AvatarComes(job[s], u) => AvatarKept(u)'
  BY <1>7 DEF AvatarKept
<1>. QED  BY <1>0, <1>1, <1>2, <1>3, <1>5, <1>6, <1>7, <1>8, <1>9, StepPInv

\* The ghost is registered: its name and its avatar are set next.
LEMMA RegisterPInv ==
    ASSUME IInv, IInv', PInv, faults = 0, faults' = 0, NEW s \in Slot, Register(s)
    PROVE  PInv'
<1>0. PICK u \in User : u = job[s].u
  BY Mine DEF Register, Place, Acting
<1>1. job[s].pc = "register" /\ job[s].pc \in Place /\ job[s] # Idle /\ Creation(job[s])
  BY Mine, Fields DEF Register, Place, Acting, JobOK
<1>2. /\ registered' = registered \cup {u} /\ Goto(s, "name")
      /\ UNCHANGED <<user, profile, ghostKey, spoke, untidy>>
  BY <1>0, NoFault DEF Register, history, kvstore
<1>3. Goes(s, "name")
  BY <1>1, <1>2, GoesFacts DEF Place
<1>4. Stays(s) /\ job'[s].u = u /\ Creation(job'[s])
  BY <1>0, <1>1, <1>3 DEF Goes, Comes, Creation
<1>5. StoreComes(job'[s], u) /\ NameComes(job'[s], u) /\ AvatarComes(job'[s], u)
  BY <1>3, <1>4 DEF Goes, Comes, StoreComes, NameComes, AvatarComes
<1>6. Awaited(u)' /\ NameKept(u)' /\ AvatarKept(u)'
  BY <1>5 DEF Awaited, NameKept, AvatarKept
<1>7. ASSUME u \notin untidy  PROVE Fresh(job[s])'
  <2>1. Fresh(job[s])
    BY <1>0, <1>1, <1>7 DEF PInv, FreshJobs
  <2>. QED  BY <1>0, <1>1, <1>2, <1>3, <1>4, <2>1 DEF Fresh, Goes, Comes, Creation
<1>8. \A v \in User : (Named(v) => Named(v)') /\ (Pictured(v) => Pictured(v)')
  BY <1>2 DEF Named, Pictured
<1>. QED  BY <1>0, <1>1, <1>2, <1>4, <1>6, <1>7, <1>8, StepPInv

LEMMA SetDisplayNamePInv ==
    ASSUME IInv, IInv', PInv, faults = 0, faults' = 0, NEW s \in Slot, SetDisplayName(s)
    PROVE  PInv'
<1>0. PICK u \in User : u = job[s].u
  BY Mine DEF SetDisplayName, Place, Acting
<1>. DEFINE pc == IF job[s].kind = "update" THEN "image" ELSE IF job[s].avatar = 0 THEN "store" ELSE "avatar"
<1>1. /\ job[s].pc = "name" /\ job[s].pc \in Place /\ job[s] # Idle /\ job[s].name \in Nat
      /\ u \in registered /\ (Creation(job[s]) <=> job[s].kind # "update")
  BY <1>0, Mine, Fields DEF SetDisplayName, Place, Acting, JobOK, Creation
<1>2. /\ profile' = [profile EXCEPT ![u].name = job[s].name] /\ Goto(s, pc)
      /\ UNCHANGED <<user, registered, ghostKey, spoke, untidy>>
  BY <1>0, NoFault DEF SetDisplayName, history, kvstore
<1>3. /\ (pc = "image" /\ ~Creation(job[s])) \/ (pc \in {"store", "avatar"} /\ Creation(job[s]))
      /\ job[s].avatar # 0 => pc # "store"
  BY <1>1
<1>. HIDE DEF pc
<1>4. Goes(s, pc)
  BY <1>1, <1>2, <1>3, GoesFacts DEF Place
<1>5. Stays(s) /\ job'[s].u = u /\ (Creation(job'[s]) <=> Creation(job[s]))
  BY <1>0, <1>4 DEF Goes, Comes, Creation
<1>6. /\ \A v \in User : profile'[v].avatar = profile[v].avatar /\ (v # u => profile'[v] = profile[v])
      /\ profile'[u].name = job[s].name
  BY <1>1, <1>2 DEF IInv, World, Types, Profile
<1>7. ASSUME u \notin untidy
      PROVE  /\ Fresh(job[s])' /\ Named(u)'
             /\ AvatarComes(job'[s], u)
  <2>1. Fresh(job[s])
    BY <1>0, <1>1, <1>7 DEF PInv, FreshJobs
  <2>2. job[s].name = user[u].name
    BY <1>0, <1>1, <2>1 DEF Fresh
  <2>3. Named(u)'
    BY <1>2, <1>6, <2>2 DEF Named
  <2>4. pc # "store"
    BY <1>0, <1>1, <1>3, <2>1 DEF Fresh, PInv, HasImage
  <2>5. Fresh(job[s])'
    BY <1>0, <1>1, <1>2, <1>3, <1>4, <1>5, <2>1, <2>3, <2>4 DEF Fresh, Goes, Comes, Creation
  <2>. QED  BY <1>1, <1>3, <1>4, <1>5, <2>3, <2>4, <2>5 DEF AvatarComes, Goes, Comes
<1>8. StoreComes(job[s], u) => Awaited(u)'
  BY <1>3, <1>4, <1>5 DEF StoreComes, Awaited, Goes, Comes
<1>9. \A v \in User \ untidy : (Named(v) => Named(v)') /\ (Pictured(v) => Pictured(v)')
  BY <1>2, <1>6, <1>7 DEF Named, Pictured
<1>10. u \notin untidy => NameKept(u)' /\ AvatarKept(u)'
  BY <1>7 DEF NameKept, AvatarKept
<1>. QED  BY <1>0, <1>1, <1>2, <1>5, <1>7, <1>8, <1>9, <1>10, StepPInv

LEMMA SetAvatarPInv ==
    ASSUME IInv, IInv', PInv, faults = 0, faults' = 0, NEW s \in Slot, SetAvatar(s)
    PROVE  PInv'
<1>0. PICK u \in User : u = job[s].u
  BY Mine DEF SetAvatar, Place, Acting
<1>1. job[s].pc = "avatar" /\ job[s].pc \in Place /\ job[s] # Idle /\ job[s].avatar \in Nat
  BY Mine, Fields DEF SetAvatar, Place, Acting
<1>2. /\ profile' = IF job[s].id = "own" THEN profile ELSE [profile EXCEPT ![u].avatar = job[s].avatar]
      /\ IF Creation(job[s]) THEN Goto(s, "store") ELSE End(s)
      /\ UNCHANGED <<user, registered, ghostKey, spoke, untidy>>
  BY <1>0, NoFault DEF SetAvatar, history, kvstore
<1>3. Creation(job[s]) \in BOOLEAN
  BY DEF Creation
<1>4. Stays(s) /\ ((job'[s] = Idle /\ ~Creation(job[s])) \/ (Goes(s, "store") /\ Creation(job[s])))
  BY <1>1, <1>2, <1>3, GoesFacts, EndFacts DEF Goes, Comes, Place
<1>5. job'[s] # Idle => job'[s].u = u /\ Creation(job'[s])
  BY <1>0, <1>4 DEF Goes, Comes, Creation
<1>6. /\ \A v \in User : profile'[v].name = profile[v].name /\ (v # u => profile'[v] = profile[v])
      /\ job[s].id = "own" => profile' = profile
      /\ job[s].id # "own" => profile'[u].avatar = job[s].avatar
  BY <1>1, <1>2 DEF IInv, World, Types, Profile
<1>7. ASSUME u \notin untidy
      PROVE  /\ Pictured(u) \/ job[s].id # "own" => Pictured(u)'
             /\ Creation(job[s]) => job[s].id = None
             /\ ~Creation(job[s]) => job[s].id \in spoke[u]
             /\ Fresh(job[s])
  <2>1. Fresh(job[s])
    BY <1>0, <1>1, <1>7 DEF PInv, FreshJobs
  <2>2. job[s].avatar = user[u].avatar
    BY <1>0, <1>1, <2>1 DEF Fresh
  <2>. QED  BY <1>0, <1>1, <1>2, <1>6, <2>1, <2>2 DEF Fresh, Pictured
<1>8. ASSUME job'[s] # Idle, u \notin untidy  PROVE Fresh(job[s])'
  <2>1. Pictured(u)' /\ (Named(u) => Named(u)')
    BY <1>2, <1>4, <1>6, <1>7, <1>8 DEF Named, None
  <2>. QED  BY <1>0, <1>1, <1>2, <1>4, <1>5, <1>7, <1>8, <2>1 DEF Fresh, Goes, Comes
<1>9. StoreComes(job[s], u) => Awaited(u)'
  BY <1>4, <1>5 DEF StoreComes, Awaited, Goes, Comes
<1>10. \A v \in User \ untidy : (Named(v) => Named(v)') /\ (Pictured(v) => Pictured(v)')
  BY <1>2, <1>6, <1>7 DEF Named, Pictured
<1>11. u \in registered' \ untidy /\ spoke'[u] \subseteq {"ghost"} => AvatarKept(u)' /\ ~NameComes(job[s], u)
  BY <1>1, <1>2, <1>3, <1>7 DEF AvatarKept, NameComes, None
<1>. QED  BY <1>0, <1>1, <1>2, <1>4, <1>5, <1>8, <1>9, <1>10, <1>11, StepPInv

\* The name and the avatar have been set; the ghost is known now.
LEMMA StorePInv ==
    ASSUME IInv, IInv', PInv, faults = 0, faults' = 0, NEW s \in Slot, Store(s)
    PROVE  PInv'
<1>0. PICK u \in User : u = job[s].u
  BY Mine DEF Store, Place, Acting
<1>. DEFINE k == [job[s] EXCEPT !.id = "ghost", !.pc = "fill"]
<1>1. job[s].pc = "store" /\ job[s] \in JobRecord /\ job[s] # Idle /\ Creation(job[s])
  BY Mine, Fields DEF Store, Place, Acting, JobOK
<1>2. /\ job' = [job EXCEPT ![s] = k] /\ ghostKey' = [ghostKey EXCEPT ![u] = "ghost"]
      /\ UNCHANGED <<user, registered, profile, spoke, untidy>>
  BY <1>0, NoFault DEF Store, history, matrix
<1>3. /\ k \in JobRecord
      /\ k.pc = "fill" /\ k.u = u /\ k.kind = job[s].kind /\ k.given = job[s].given
  BY <1>0, <1>1 DEF JobRecord, Identity
<1>. HIDE DEF k
<1>4. Stays(s) /\ job'[s] = k /\ k # Idle
  BY <1>2, <1>3, Replaced, Fields DEF IInv
<1>5. ASSUME u \notin untidy  PROVE Fresh(job[s])'
  <2>1. Fresh(job[s])
    BY <1>0, <1>1, <1>5 DEF PInv, FreshJobs
  <2>. QED  BY <1>0, <1>1, <1>2, <1>3, <1>4, <2>1 DEF Fresh, Creation
<1>6. ~NameComes(job[s], u) /\ ~AvatarComes(job[s], u)
  BY <1>1 DEF NameComes, AvatarComes, Creation
<1>7. \A v \in User : (ghostKey[v] # None => ghostKey'[v] # None) /\ ghostKey'[u] # None
  BY <1>2 DEF IInv, World, Types, None
<1>8. Awaited(u)'
  BY <1>7 DEF Awaited
<1>9. \A v \in User : (Named(v) => Named(v)') /\ (Pictured(v) => Pictured(v)')
  BY <1>2 DEF Named, Pictured
<1>. QED  BY <1>0, <1>1, <1>2, <1>3, <1>4, <1>5, <1>6, <1>7, <1>8, <1>9, StepPInv

LEMMA BeginGoes ==
    ASSUME IInv, NEW s \in Slot, NEW u \in User, NEW kind \in Kinds, NEW pc \in Place,
           NEW id \in Identity \cup {None}, NEW name \in Nat, Begin(s, u, kind, pc, id, name)
    PROVE  /\ Stays(s) /\ job[s] = Idle /\ job'[s] # Idle
           /\ job'[s].pc = pc /\ job'[s].kind = kind /\ job'[s].u = u /\ job'[s].id = id /\ job'[s].name = name
           /\ kind = "sync" => job'[s].given = user[u].name
<1>. DEFINE given == IF kind = "sync" THEN user[u].name ELSE 0
            k == [pc |-> pc, kind |-> kind, u |-> u, id |-> id, name |-> name, avatar |-> 0, given |-> given]
<1>1. given \in Nat /\ (kind = "sync" => given = user[u].name)
  BY DEF IInv, World, Types, Profile
<1>2. job' = [job EXCEPT ![s] = k] /\ job[s] = Idle
  BY DEF Begin
<1>. HIDE DEF given
<1>3. k \in JobRecord
  BY <1>1 DEF JobRecord, Place, Acting
<1>4. Stays(s) /\ job'[s] = k /\ k # Idle
  BY <1>2, <1>3, Replaced, Fields DEF IInv
<1>. QED  BY <1>1, <1>2, <1>4

LEMMA StartPInv ==
    ASSUME IInv, IInv', PInv, faults = 0, NEW s \in Slot, NEW u \in User, Start(s, u) \/ StartMirrored(s, u)
    PROVE  PInv'
<1>1. /\ UNCHANGED <<user, registered, profile, ghostKey, untidy>>
      /\ \A v \in User : spoke[v] \subseteq spoke'[v]
  BY DEF Start, StartMirrored, matrix, kvstore, IInv, World, Types
<1>2. PICK kind \in {"post", "join", "create", "sync"}, pc \in {"identity", "mirrorKey", "mirrorRegister"},
           id \in {None, "mirrored"} :
        Begin(s, u, kind, pc, id, 0) /\ (pc = "identity" => id = None)
  BY DEF Start, StartMirrored
<1>3. kind \in Kinds /\ pc \in Place /\ id \in Identity \cup {None} /\ 0 \in Nat
  BY DEF Kinds, Place, Acting, Identity
<1>4. /\ Stays(s) /\ job[s] = Idle /\ job'[s] # Idle
      /\ job'[s].pc = pc /\ job'[s].kind = kind /\ job'[s].u = u /\ job'[s].id = id
      /\ kind = "sync" => job'[s].given = user[u].name
  BY <1>2, <1>3, BeginGoes
<1>5. Fresh(job[s])'
  BY <1>1, <1>2, <1>4 DEF Fresh, Creation
<1>6. ~StoreComes(job[s], u) /\ ~NameComes(job[s], u) /\ ~AvatarComes(job[s], u)
  BY <1>4 DEF StoreComes, NameComes, AvatarComes
<1>7. \A v \in User : (Named(v) => Named(v)') /\ (Pictured(v) => Pictured(v)')
  BY <1>1 DEF Named, Pictured
<1>. QED  BY <1>1, <1>4, <1>5, <1>6, <1>7, StepPInv

\* A user changes.  It stays tidy only if no job of it is active; then it has
\* what it is due, and what has changed is due to the new job.
LEMMA ChangePInv ==
    ASSUME IInv, IInv', PInv, faults = 0, NEW s \in Slot, NEW u \in User, Changed(u),
           Stays(s), job[s] = Idle, job'[s] # Idle, job'[s].u = u,
           \A v \in User \ {u} : user'[v] = user[v], user'[u].avatar # 0,
           Fresh(job[s])',
           NameComes(job'[s], u) \/ user'[u].name = user[u].name,
           AvatarComes(job'[s], u) \/ user'[u].avatar = user[u].avatar
    PROVE  PInv'
<1>1. /\ UNCHANGED <<registered, profile, ghostKey, spoke>>
      /\ untidy \subseteq untidy' /\ \A v \in User \ {u} : v \notin untidy' => v \notin untidy
      /\ u \notin untidy' => u \notin untidy /\ Active(u) = {}
  BY DEF Changed, matrix, kvstore
<1>2. HasImage'
  BY DEF PInv, HasImage
<1>3. ASSUME NEW t \in Slot, t # s  PROVE job'[t] = job[t]
  BY <1>3 DEF Stays
<1>4. ASSUME NEW t \in Slot, job'[t] # Idle, job'[t].u \notin untidy'  PROVE Fresh(job[t])'
  <2>1. CASE t # s
    <3>1. job'[t] = job[t] /\ job[t] # Idle /\ job[t].u \in User
      BY <1>3, <1>4, <2>1, Fields DEF IInv, JobType
    <3>2. job[t].u # u /\ job[t].u \notin untidy
      BY <1>1, <1>4, <3>1 DEF Active
    <3>3. Fresh(job[t])
      BY <3>1, <3>2 DEF PInv, FreshJobs
    <3>. QED  BY <1>1, <3>1, <3>2, <3>3 DEF Fresh, Creation, Named, Pictured
  <2>. QED  BY <2>1
<1>5. \A v \in User : Awaited(v) => Awaited(v)'
  BY <1>1, <1>3 DEF Awaited, StoreComes
<1>6. ASSUME NEW v \in registered \ untidy', spoke[v] \subseteq {"ghost"}  PROVE NameKept(v)' /\ AvatarKept(v)'
  <2>1. v \in User \ untidy /\ NameKept(v) /\ AvatarKept(v)
    BY <1>1, <1>6 DEF PInv, Promises, Kept, IInv, World, Types
  <2>2. CASE v = u
    <3>1. Named(u) /\ Pictured(u)
      BY <1>1, <1>6, <2>1, <2>2 DEF NameKept, NameComes, AvatarKept, AvatarComes, Active
    <3>. QED  BY <1>1, <2>2, <3>1 DEF Named, Pictured, NameKept, AvatarKept
  <2>3. CASE v # u
    <3>1. (Named(v) => Named(v)') /\ (Pictured(v) => Pictured(v)')
      BY <1>1, <2>1, <2>3 DEF Named, Pictured
    <3>2. \A t \in Slot : /\ NameComes(job[t], v) => NameComes(job'[t], v)
                          /\ AvatarComes(job[t], v) => AvatarComes(job'[t], v)
      BY <1>3 DEF NameComes, AvatarComes
    <3>. QED  BY <2>1, <3>1, <3>2 DEF NameKept, AvatarKept
  <2>. QED  BY <2>2, <2>3
<1>7. Promises => Promises'
  BY <1>1, <1>5, <1>6 DEF Promises, Kept, IInv, World, Types
<1>. QED  BY <1>2, <1>4, <1>7 DEF PInv, FreshJobs

LEMMA ChangeNamePInv ==
    ASSUME IInv, IInv', PInv, faults = 0, NEW s \in Slot, NEW u \in User, ChangeName(s, u)
    PROVE  PInv'
<1>1. /\ user' = [user EXCEPT ![u].name = @ + 1] /\ Changed(u)
      /\ Begin(s, u, "update", "identity", None, user[u].name + 1)
  BY DEF ChangeName
<1>2. /\ \A v \in User \ {u} : user'[v] = user[v]
      /\ user'[u].name = user[u].name + 1 /\ user[u].name + 1 \in Nat /\ user'[u].avatar = user[u].avatar
      /\ user'[u].avatar # 0
  BY <1>1 DEF IInv, World, Types, Profile, PInv, HasImage
<1>3. "update" \in Kinds /\ "identity" \in Place /\ None \in Identity \cup {None}
  BY DEF Kinds, Place
<1>4. PICK name \in Nat : name = user[u].name + 1
  BY <1>2
<1>5. /\ Stays(s) /\ job[s] = Idle /\ job'[s] # Idle
      /\ job'[s].pc = "identity" /\ job'[s].kind = "update" /\ job'[s].u = u /\ job'[s].id = None
      /\ job'[s].name = user'[u].name
  BY <1>1, <1>2, <1>3, <1>4, BeginGoes
<1>6. Fresh(job[s])' /\ NameComes(job'[s], u)
  BY <1>5 DEF Fresh, Creation, NameComes
<1>. QED  BY <1>1, <1>2, <1>5, <1>6, ChangePInv

LEMMA ChangeAvatarPInv ==
    ASSUME IInv, IInv', PInv, faults = 0, NEW s \in Slot, NEW u \in User, ChangeAvatar(s, u)
    PROVE  PInv'
<1>1. user' = [user EXCEPT ![u].avatar = @ + 1] /\ Changed(u) /\ Begin(s, u, "image", "lookup", None, 0)
  BY DEF ChangeAvatar
<1>2. /\ \A v \in User \ {u} : user'[v] = user[v]
      /\ user'[u].name = user[u].name /\ user'[u].avatar # 0
  BY <1>1 DEF IInv, World, Types, Profile
<1>3. "image" \in Kinds /\ "lookup" \in Place /\ None \in Identity \cup {None} /\ 0 \in Nat
  BY DEF Kinds, Place
<1>4. /\ Stays(s) /\ job[s] = Idle /\ job'[s] # Idle
      /\ job'[s].pc = "lookup" /\ job'[s].kind = "image" /\ job'[s].u = u /\ job'[s].id = None
  BY <1>1, <1>3, BeginGoes
<1>5. Fresh(job[s])' /\ AvatarComes(job'[s], u)
  BY <1>4 DEF Fresh, Creation, AvatarComes
<1>. QED  BY <1>1, <1>2, <1>4, <1>5, ChangePInv

\* The steps of an administrator, of a moderator and of time.
LEMMA JobsStayPInv ==
    ASSUME PInv, faults = 0, UNCHANGED <<user, registered, profile, spoke, untidy, job>>,
           \A u \in User : ghostKey[u] # None => ghostKey'[u] # None, registered \subseteq User
    PROVE  PInv'
<1>1. (FreshJobs => FreshJobs') /\ (HasImage => HasImage')
  BY DEF FreshJobs, Fresh, Creation, Named, Pictured, HasImage
<1>2. Promises => Promises'
  BY DEF Promises, Awaited, Kept, NameKept, AvatarKept, Named, Pictured
<1>. QED  BY <1>1, <1>2 DEF PInv

LEMMA OtherPInv ==
    ASSUME IInv, PInv, faults = 0,
           \/ \E u \in User : MapUser(u) \/ Forget(u)
           \/ \E i \in User \X Identity : Remove(i)
           \/ UNCHANGED vars
    PROVE  PInv'
<1>1. UNCHANGED <<user, registered, profile, spoke, untidy, job>>
  BY DEF MapUser, Forget, Remove, vars, matrix, kvstore, history
<1>2. ghostKey' = ghostKey \/ \E u \in User : ghostKey' = [ghostKey EXCEPT ![u] = "own"]
  BY DEF MapUser, Forget, Remove, vars, matrix, kvstore, history
<1>3. \A u \in User : ghostKey[u] # None => ghostKey'[u] # None
  BY <1>2 DEF IInv, World, Types, None
<1>. QED  BY <1>1, <1>3, JobsStayPInv DEF IInv, World, Types

\* An avatar is never taken back.
LEMMA ImageStays ==
    ASSUME IInv, HasImage, [Next]_vars
    PROVE  HasImage'
<1>1. CASE user' = user
  BY <1>1 DEF HasImage
<1>2. ASSUME NEW s \in Slot, NEW u \in User, ChangeName(s, u) \/ ChangeAvatar(s, u)  PROVE HasImage'
  <2>1. user' = [user EXCEPT ![u].name = @ + 1] \/ user' = [user EXCEPT ![u].avatar = @ + 1]
    BY <1>2 DEF ChangeName, ChangeAvatar
  <2>2. user \in [User -> Profile]
    BY DEF IInv, World, Types
  <2>3. \A v \in User : user'[v].avatar = user[v].avatar \/ user'[v].avatar = user[v].avatar + 1
    BY <2>1, <2>2 DEF Profile
  <2>. QED  BY <2>2, <2>3 DEF HasImage, Profile
<1>3. ASSUME NEW s \in Slot, Step(s)  PROVE user' = user
  <2>1. CASE LookInCache(s) \/ LookInStore(s) \/ FillCache(s) \/ LookForMirror(s)
    BY <2>1 DEF LookInCache, LookInStore, FillCache, LookForMirror, world
  <2>2. CASE ReadUser(s) \/ ReadImage(s) \/ Register(s) \/ SetDisplayName(s) \/ SetAvatar(s) \/ Store(s)
    BY <2>2 DEF ReadUser, ReadImage, Register, SetDisplayName, SetAvatar, Store, world
  <2>3. CASE RegisterMirror(s) \/ StoreMirror(s) \/ MemberInCache(s) \/ MemberInStore(s) \/ MemberFill(s)
    BY <2>3 DEF RegisterMirror, StoreMirror, MemberInCache, MemberInStore, MemberFill, world
  <2>4. CASE AskRule(s) \/ Invite(s) \/ Join(s) \/ Record(s) \/ Send(s)
    BY <2>4 DEF AskRule, Invite, Join, Record, Send, world
  <2>. QED  BY <1>3, <2>1, <2>2, <2>3, <2>4 DEF Step
<1>4. ASSUME NEW s \in Slot, NEW u \in User, Start(s, u) \/ StartMirrored(s, u)  PROVE user' = user
  BY <1>4 DEF Start, StartMirrored
<1>5. ASSUME NEW u \in User, MapUser(u) \/ Forget(u)  PROVE user' = user
  BY <1>5 DEF MapUser, Forget
<1>6. CASE Crash \/ (\E i \in User \X Identity : Remove(i)) \/ UNCHANGED vars
  BY <1>1, <1>6 DEF Crash, Remove, vars
<1>. QED  BY <1>1, <1>2, <1>3, <1>4, <1>5, <1>6 DEF Next

LEMMA NextPInv == ASSUME IInv, PInv, [Next]_vars PROVE PInv'
<1>1. IInv' /\ HasImage'
  BY NextIInv, ImageStays DEF PInv
<1>2. faults \in Nat /\ (faults' = faults \/ faults' = faults + 1)
  BY Mishaps DEF IInv, World, Types, Fault
<1>3. CASE faults' # 0
  BY <1>1, <1>3 DEF PInv
<1>4. CASE faults' = 0
  <2>1. faults = 0
    BY <1>2, <1>4
  <2>2. ASSUME NEW s \in Slot, Step(s)  PROVE PInv'
    BY <1>1, <1>4, <2>1, <2>2, ActingSteps, LookInCachePInv, LookInStorePInv, FillCachePInv, ReadUserPInv,
       ReadImagePInv, RegisterPInv, SetDisplayNamePInv, SetAvatarPInv, StorePInv DEF Step
  <2>3. ASSUME NEW s \in Slot, NEW u \in User,
               Start(s, u) \/ StartMirrored(s, u) \/ ChangeName(s, u) \/ ChangeAvatar(s, u)
        PROVE  PInv'
    BY <1>1, <2>1, <2>3, StartPInv, ChangeNamePInv, ChangeAvatarPInv
  <2>4. ~Crash
    BY <1>4, <2>1 DEF Crash, Fault
  <2>. QED  BY <2>1, <2>2, <2>3, <2>4, OtherPInv DEF Next
<1>. QED  BY <1>3, <1>4

\* When all is done and no call has failed, a ghost has the name and the
\* avatar of its user, however creations, updates and image hooks overlapped;
\* unless the user changed while a job of it ran, or has had another identity.
THEOREM GhostUsersProfileSettles == Spec => []ProfileSettles
<1>1. Init => PInv
  BY DEF Init, PInv, HasImage, FreshJobs, Promises
<1>2. IInv /\ PInv /\ [Next]_vars => PInv'
  BY NextPInv
<1>3. IInv /\ PInv => ProfileSettles
  <2>1. ASSUME IInv, PInv, faults = 0, \A s \in Slot : job[s] = Idle, NEW u \in registered \ untidy,
               spoke[u] \subseteq {"ghost"}
        PROVE  profile[u] = user[u]
    <3>1. NameKept(u) /\ AvatarKept(u)
      BY <2>1 DEF PInv, Promises, Kept
    <3>2. profile[u].name = user[u].name /\ profile[u].avatar = user[u].avatar
      BY <2>1, <3>1 DEF NameKept, AvatarKept, NameComes, AvatarComes, Named, Pictured
    <3>3. profile[u] \in Profile /\ user[u] \in Profile
      BY <2>1 DEF IInv, World, Types
    <3>. QED  BY <3>2, <3>3 DEF Profile
  <2>. QED  BY <2>1 DEF ProfileSettles
<1>. QED  BY <1>1, <1>2, <1>3, Invariant, PTL DEF Spec
=============================================================================
