----------------------------- MODULE GhostUsers -----------------------------
(***************************************************************************)
(* The Matrix identities of Mattermost users: CreateOrGetGhostUser,        *)
(* ensureGhostUserInRoom and SyncUserToMatrix of server/sync_to_matrix.go, *)
(* the hooks of plugin.go and hooks.go and the commands that use them, and *)
(* the calls of server/matrix/client.go that register, name, invite and    *)
(* join.                                                                   *)
(*                                                                         *)
(* Hooks, workers and commands are goroutines: a slot holds one of them,   *)
(* and every call to Mattermost, the homeserver, the KV store or a cache   *)
(* is a step.  A user speaks as its ghost or, after /matrix map_user, as   *)
(* an account of its own; with EnableMirrorMode it posts as a mirrored     *)
(* account that has its name, and does all else as its ghost.  There is    *)
(* one room; names and avatars are version numbers.                        *)
(***************************************************************************)
EXTENDS Naturals, FiniteSets

CONSTANTS
    User,      \* local Mattermost users, no bots
    Slot,      \* goroutines that may be at work at once
    Room,      \* what the room may be: its join rule, whether the bridge may "invite"
               \* to it and act as an "own" account at all, and the mode of the plugin
    MaxJob,    \* bound: hooks, tasks and commands started
    MaxChange, \* bound: changes of names and avatars, with and without mirror mode
    MaxMishap  \* bound: failing calls, crashes and removals from the room

ASSUME GhostUsersAssumption ==
    /\ Room \subseteq [rule : {"public", "invite", "knock"}, trusted : SUBSET {"invite", "own"},
                       mirror : BOOLEAN]
    /\ {MaxJob, MaxMishap} \subseteq Nat /\ MaxChange \in [BOOLEAN -> Nat]

VARIABLES
    user,       \* Mattermost: name and avatar of each user
    room,       \* Matrix: the room
    registered, \* Matrix: the users whose ghost is registered
    mirrored,   \* Matrix: the users whose mirrored account is registered
    profile,    \* Matrix: name and avatar of each ghost; 0: never set
    membership, \* Matrix: where each identity stands in the room
    ghostKey,   \* KV store: ghost_user_<u>
    mirrorKey,  \* KV store: the users with mirror_user_<u>
    ghostCache, \* ghostUserCache
    roomKey,    \* KV store: the users with ghost_room_<u>_<room>
    roomCache,  \* roomMembershipCache
    job,        \* what each slot does
    jobs,       \* history: the number of jobs started
    spoke,      \* history: the identities that jobs of a user have had
    kept,       \* history: users mapped by an administrator, and no creation or
                \* failing read has put the mapping at risk since
    removed,    \* history: identities that were removed from the room
    untidy,     \* history: users that changed while a job of theirs ran
    faults      \* history: failing calls and crashes

matrix  == <<registered, mirrored, profile, membership>>
kvstore == <<ghostKey, mirrorKey, roomKey>>
caches  == <<ghostCache, roomCache>>
history == <<jobs, spoke, kept, removed, untidy>>
vars == <<user, room, matrix, kvstore, caches, job, history, faults>>

None == "none"
Identity == {"ghost", "own", "mirrored"}
Kinds == {"post", "join", "create", "update", "image", "sync"}
Profile == [name : Nat, avatar : Nat]
\* A job: where it is (pc), its user and identity, the profile it read, and the
\* name of the user that SyncUser was given.
JobRecord == [pc : {"identity", "lookup", "fill", "read", "image", "register", "name", "avatar", "store", "member",
                    "memberKey", "memberFill", "rule", "try", "invite", "join", "record", "send",
                    "mirrorKey", "mirrorRegister", "mirrorStore"},
              kind : Kinds, u : User, id : Identity \cup {None}, name : Nat, avatar : Nat, given : Nat]
Idle == [pc |-> "idle"]

TypeOK ==
    /\ user \in [User -> Profile] /\ profile \in [User -> Profile]
    /\ room \in Room
    /\ registered \subseteq User /\ mirrored \subseteq User /\ mirrorKey \subseteq User
    /\ \A u \in User : u \notin registered =>
          profile[u] = [name |-> 0, avatar |-> 0] /\ membership[<<u, "ghost">>] \in {None, "invited"}
    /\ membership \in [User \X Identity -> {None, "invited", "joined", "banned"}]
    /\ ghostKey \in [User -> Identity \cup {None}] /\ ghostCache \in [User -> Identity \cup {None}]
    /\ roomKey \subseteq User /\ roomCache \subseteq User
    /\ job \in [Slot -> JobRecord \cup {Idle}]
    /\ spoke \in [User -> SUBSET Identity] /\ kept \subseteq User /\ untidy \subseteq User
    /\ removed \subseteq User \X Identity
    /\ jobs \in 0..MaxJob /\ faults + Cardinality(removed) <= MaxMishap

Init == /\ user = [u \in User |-> [name |-> 1, avatar |-> 1]]
        /\ room \in Room
        /\ registered = {} /\ mirrored = {} /\ mirrorKey = {}
        /\ profile = [u \in User |-> [name |-> 0, avatar |-> 0]]
        /\ membership = [i \in User \X Identity |-> None]
        /\ ghostKey = [u \in User |-> None] /\ ghostCache = [u \in User |-> None]
        /\ roomKey = {} /\ roomCache = {}
        /\ job = [s \in Slot |-> Idle] /\ jobs = 0
        /\ spoke = [u \in User |-> {}] /\ kept = {} /\ removed = {} /\ untidy = {} /\ faults = 0

-----------------------------------------------------------------------------
(* Mattermost calls hooks and the queue tasks; administrators type commands. *)

Active(u) == {s \in Slot : job[s] # Idle /\ job[s].u = u}
Begin(s, u, kind, pc, id, name) ==
    /\ job[s] = Idle /\ jobs < MaxJob
    /\ jobs' = jobs + 1
    /\ job' = [job EXCEPT ![s] = [pc |-> pc, kind |-> kind, u |-> u, id |-> id, name |-> name, avatar |-> 0,
                                  given |-> IF kind = "sync" THEN user[u].name ELSE 0]]

\* A post, edit or reaction of u to sync; u has joined the channel, or a
\* command joins the channel's members to the room; u has been created; the
\* backfill has read u.
Start(s, u) ==
    /\ \E kind \in {"post", "join", "create", "sync"} : Begin(s, u, kind, "identity", None, 0)
    /\ UNCHANGED <<user, room, matrix, kvstore, caches, spoke, kept, removed, untidy, faults>>

\* Mirror mode: a new post, and the hook of a user who has joined.
StartMirrored(s, u) ==
    /\ room.mirror
    /\ \/ Begin(s, u, "post", "mirrorKey", "mirrored", 0)
       \/ Begin(s, u, "join", "mirrorRegister", "mirrored", 0)
    /\ spoke' = [spoke EXCEPT ![u] = @ \cup {"mirrored"}]
    /\ UNCHANGED <<user, room, matrix, kvstore, caches, kept, removed, untidy, faults>>

Changed(u) == /\ user[u].name + user[u].avatar < MaxChange[room.mirror] + 2
              /\ untidy' = IF Active(u) = {} THEN untidy ELSE untidy \cup {u}
              /\ UNCHANGED <<room, matrix, kvstore, caches, spoke, kept, removed, faults>>

\* UserHasUpdated is given the changed user.
ChangeName(s, u) ==
    /\ user' = [user EXCEPT ![u].name = @ + 1]
    /\ Begin(s, u, "update", "identity", None, user[u].name + 1)
    /\ Changed(u)

\* OnSharedChannelsProfileImageSyncMsg.
ChangeAvatar(s, u) ==
    /\ user' = [user EXCEPT ![u].avatar = @ + 1]
    /\ Begin(s, u, "image", "lookup", None, 0)
    /\ Changed(u)

\* A creation after its lookup: it will store a ghost, whatever is stored then.
Creation(j) == j.kind \notin {"update", "image"}
Creates(j) == j # Idle /\ (j.pc \in {"read", "register", "store"}
                           \/ (j.pc \in {"image", "name", "avatar"} /\ Creation(j)))

\* executeMapUserCommand: one write; the cache is left as it is.
MapUser(u) ==
    /\ ghostKey' = [ghostKey EXCEPT ![u] = "own"]
    /\ kept' = IF \E s \in Active(u) : Creates(job[s]) THEN kept \ {u} ELSE kept \cup {u}
    /\ UNCHANGED <<user, room, matrix, mirrorKey, roomKey, caches, job, jobs, spoke, removed, untidy, faults>>

-----------------------------------------------------------------------------
(* The room and the process. *)

Mishap == faults + Cardinality(removed) < MaxMishap
Fault == Mishap /\ faults' = faults + 1

\* A moderator kicks or bans an identity.
Remove(i) ==
    /\ Mishap /\ membership[i] = "joined"
    /\ \E m \in {None, "banned"} : membership' = [membership EXCEPT ![i] = m]
    /\ removed' = removed \cup {i}
    /\ UNCHANGED <<user, room, registered, mirrored, profile, kvstore, caches, job, jobs, spoke, kept,
                   untidy, faults>>

\* Entries of the caches expire or are evicted.
Forget(u) ==
    /\ \/ ghostCache[u] # None /\ ghostCache' = [ghostCache EXCEPT ![u] = None] /\ UNCHANGED roomCache
       \/ u \in roomCache /\ roomCache' = roomCache \ {u} /\ UNCHANGED ghostCache
    /\ UNCHANGED <<user, room, matrix, kvstore, job, history, faults>>

Crash ==
    /\ Fault
    /\ job' = [s \in Slot |-> Idle]
    /\ ghostCache' = [u \in User |-> None] /\ roomCache' = {}
    /\ UNCHANGED <<user, room, matrix, kvstore, history>>

-----------------------------------------------------------------------------
(* getGhostUser, and what a job does with its identity. *)

Goto(s, pc) == job' = [job EXCEPT ![s].pc = pc]
End(s) == job' = [job EXCEPT ![s] = Idle]
world == <<user, room, matrix, kvstore, caches>>

\* SyncUserToMatrix leaves accounts that are no ghosts alone; SyncUser calls
\* it when the user has an identity, with the user it has read before.
Continue(s, id) ==
    LET j == job[s]
        pc == CASE j.kind = "post" -> "member" [] j.kind = "join" -> "rule"
                [] j.kind = "image" -> "image" [] j.kind = "sync" -> "identity"
                [] j.kind = "update" /\ id = "ghost" -> "name" [] OTHER -> "idle"
    IN  /\ job' = [job EXCEPT ![s] =
              IF pc = "idle" THEN Idle
              ELSE IF j.kind = "sync" THEN [j EXCEPT !.pc = pc, !.kind = "update", !.id = None,
                                              !.name = j.given, !.given = 0, !.avatar = 0]
              ELSE [j EXCEPT !.id = id, !.pc = pc]]
        /\ spoke' = [spoke EXCEPT ![j.u] = @ \cup {id}]
        /\ UNCHANGED <<jobs, kept, removed, untidy>>

LookInCache(s) ==
    LET known == ghostCache[job[s].u]
    IN  /\ job[s].pc = "identity"
        /\ IF known = None THEN Goto(s, "lookup") /\ UNCHANGED history ELSE Continue(s, known)
        /\ UNCHANGED <<world, faults>>

\* Mutant: a user that is not cached is created again.
LookInStore_Skipped(s) ==
    /\ job[s].pc = "lookup"
    /\ IF Creation(job[s]) THEN Goto(s, "read") ELSE End(s)
    /\ UNCHANGED <<world, history, faults>>

\* A read that fails is taken for a missing key.
LookInStore(s) ==
    LET j == job[s]
        known == ghostKey[j.u]
        Unknown == IF Creation(j) THEN Goto(s, "read") ELSE End(s)
    IN  /\ j.pc = "lookup"
        /\ \/ /\ IF known = None THEN Unknown /\ UNCHANGED history
                 ELSE IF j.kind = "image" THEN Continue(s, known)
                 ELSE job' = [job EXCEPT ![s].id = known, ![s].pc = "fill"] /\ UNCHANGED history
              /\ UNCHANGED faults
           \/ Fault /\ Unknown /\ kept' = kept \ {j.u} /\ UNCHANGED <<jobs, spoke, removed, untidy>>
        /\ UNCHANGED world

FillCache(s) ==
    /\ job[s].pc = "fill"
    /\ ghostCache' = [ghostCache EXCEPT ![job[s].u] = job[s].id]
    /\ Continue(s, job[s].id)
    /\ UNCHANGED <<user, room, matrix, kvstore, roomCache, faults>>

-----------------------------------------------------------------------------
(* Mirror mode: GetMatrixUserID and UserHasJoinedChannel. *)

\* A read that fails is taken for a missing key; GetUser must not fail.
LookForMirror(s) ==
    /\ job[s].pc = "mirrorKey"
    /\ \/ Goto(s, IF job[s].u \in mirrorKey THEN "member" ELSE "mirrorRegister") /\ UNCHANGED faults
       \/ Fault /\ (Goto(s, "mirrorRegister") \/ End(s))
    /\ UNCHANGED <<world, history>>

\* RegisterUserWithASToken and SetUserDisplayName: errors are only logged.
RegisterMirror(s) ==
    /\ job[s].pc = "mirrorRegister"
    /\ \/ mirrored' = mirrored \cup {job[s].u} /\ UNCHANGED faults
       \/ Fault /\ mirrored' \in {mirrored, mirrored \cup {job[s].u}}
    /\ Goto(s, IF job[s].kind = "post" THEN "mirrorStore" ELSE "rule")
    /\ UNCHANGED <<user, room, registered, profile, membership, kvstore, caches, history>>

StoreMirror(s) ==
    /\ job[s].pc = "mirrorStore"
    /\ \/ mirrorKey' = mirrorKey \cup {job[s].u} /\ UNCHANGED faults
       \/ Fault /\ UNCHANGED mirrorKey
    /\ Goto(s, "member")
    /\ UNCHANGED <<user, room, matrix, ghostKey, roomKey, caches, history>>

-----------------------------------------------------------------------------
(* CreateOrGetGhostUser after a miss, SyncUserToMatrix and the image hook. *)

ReadUser(s) ==
    /\ job[s].pc = "read"
    /\ \/ job' = [job EXCEPT ![s].name = user[job[s].u].name, ![s].pc = "image"] /\ UNCHANGED faults
       \/ Fault /\ End(s)
    /\ UNCHANGED <<world, history>>

\* GetProfileImage; a ghost is made without an avatar if there is none.
ReadImage(s) ==
    LET j == job[s]
        Read(avatar) == job' = [job EXCEPT ![s].avatar = avatar,
                                           ![s].pc = IF Creation(j) THEN "register" ELSE "avatar"]
    IN  /\ j.pc = "image"
        /\ \/ Read(user[j.u].avatar) /\ UNCHANGED faults
           \/ Fault /\ IF Creation(j) THEN Read(0) ELSE End(s)
        /\ UNCHANGED <<world, history>>

\* Mutant: any error is taken for that of a user who exists.
Register_AnyError(s) ==
    /\ job[s].pc = "register"
    /\ \/ registered' = registered \cup {job[s].u} /\ UNCHANGED faults
       \/ Fault /\ UNCHANGED registered
    /\ Goto(s, "name")
    /\ UNCHANGED <<user, room, mirrored, profile, membership, kvstore, caches, history>>

\* The registration in CreateGhostUser, which may have been made before; an
\* answer may be lost.
Register(s) ==
    /\ job[s].pc = "register"
    /\ \/ registered' = registered \cup {job[s].u} /\ Goto(s, "name") /\ UNCHANGED faults
       \/ Fault /\ End(s) /\ registered' \in {registered, registered \cup {job[s].u}}
    /\ UNCHANGED <<user, room, mirrored, profile, membership, kvstore, caches, history>>

\* SetDisplayName; a creation that fails here goes on without an avatar.
SetDisplayName(s) ==
    LET j == job[s]
        update == j.kind = "update"
    IN  /\ j.pc = "name"
        /\ \/ /\ profile' = [profile EXCEPT ![j.u].name = j.name]
              /\ Goto(s, IF update THEN "image" ELSE IF j.avatar = 0 THEN "store" ELSE "avatar")
              /\ UNCHANGED faults
           \/ Fault /\ UNCHANGED profile /\ Goto(s, IF update THEN "image" ELSE "store")
        /\ UNCHANGED <<user, room, registered, mirrored, membership, kvstore, caches, history>>

\* Mutant: the avatar is set at creation only.
SetAvatar_CreationOnly(s) ==
    LET j == job[s]
    IN  /\ j.pc = "avatar"
        /\ profile' = IF Creation(j) THEN [profile EXCEPT ![j.u].avatar = j.avatar] ELSE profile
        /\ IF Creation(j) THEN Goto(s, "store") ELSE End(s)
        /\ UNCHANGED <<user, room, registered, mirrored, membership, kvstore, caches, history, faults>>

\* Upload and SetAvatarURL: the image hook sets that of an own account, too.
SetAvatar(s) ==
    LET j == job[s]
    IN  /\ j.pc = "avatar"
        /\ \/ /\ profile' = IF j.id = "own" THEN profile ELSE [profile EXCEPT ![j.u].avatar = j.avatar]
              /\ UNCHANGED faults
           \/ Fault /\ UNCHANGED profile
        /\ IF Creation(j) THEN Goto(s, "store") ELSE End(s)
        /\ UNCHANGED <<user, room, registered, mirrored, membership, kvstore, caches, history>>

\* The ghost is stored, and cached by FillCache even if it could not be stored.
Store(s) ==
    /\ job[s].pc = "store"
    /\ \/ ghostKey' = [ghostKey EXCEPT ![job[s].u] = "ghost"] /\ UNCHANGED faults
       \/ Fault /\ UNCHANGED ghostKey
    /\ job' = [job EXCEPT ![s].id = "ghost", ![s].pc = "fill"]
    /\ UNCHANGED <<user, room, matrix, mirrorKey, roomKey, caches, history>>

-----------------------------------------------------------------------------
(* ensureGhostUserInRoom and InviteAndJoinGhostUser. *)

MemberInCache(s) ==
    /\ job[s].pc = "member"
    /\ Goto(s, IF job[s].u \in roomCache THEN "send" ELSE "memberKey")
    /\ UNCHANGED <<world, history, faults>>

MemberInStore(s) ==
    /\ job[s].pc = "memberKey"
    /\ \/ Goto(s, IF job[s].u \in roomKey THEN "memberFill" ELSE "rule") /\ UNCHANGED faults
       \/ Fault /\ Goto(s, "rule")
    /\ UNCHANGED <<world, history>>

MemberFill(s) ==
    /\ job[s].pc = "memberFill"
    /\ roomCache' = roomCache \cup {job[s].u}
    /\ Goto(s, "send")
    /\ UNCHANGED <<user, room, matrix, kvstore, ghostCache, history, faults>>

\* ResolveRoomAlias and GetRoomJoinRule: the former must not fail.
AskRule(s) ==
    LET way == CASE room.rule = "public" -> "join" [] room.rule = "invite" -> "invite" [] OTHER -> "try"
    IN  /\ job[s].pc = "rule"
        /\ \/ Goto(s, way) /\ UNCHANGED faults
           \/ Fault /\ (Goto(s, "try") \/ End(s))
        /\ UNCHANGED <<world, history>>

Me(s) == <<job[s].u, job[s].id>>
\* What the homeserver allows.
MayJoin(i) == /\ CASE i[2] = "ghost" -> i[1] \in registered
                    [] i[2] = "own" -> "own" \in room.trusted
                    [] i[2] = "mirrored" -> i[1] \in mirrored /\ "own" \in room.trusted
              /\ membership[i] \in {"invited", "joined"} \/ (room.rule = "public" /\ membership[i] = None)
MayInvite(i) == "invite" \in room.trusted /\ membership[i] # "banned"
Standing(i, m) == [membership EXCEPT ![i] = IF @ = "joined" THEN @ ELSE m]

\* InviteUserToRoom, for which a member is no error.
Invite(s) ==
    LET done == Standing(Me(s), "invited")
    IN  /\ job[s].pc = "invite"
        /\ \/ /\ IF MayInvite(Me(s)) THEN membership' = done /\ Goto(s, "join")
                 ELSE UNCHANGED membership /\ End(s)
              /\ UNCHANGED faults
           \/ Fault /\ End(s) /\ membership' \in {membership, IF MayInvite(Me(s)) THEN done ELSE membership}
        /\ UNCHANGED <<user, room, registered, mirrored, profile, kvstore, caches, history>>

\* Mutant: the membership is recorded when the join was refused, too.
Join_RefusedToo(s) ==
    /\ job[s].pc \in {"try", "join"}
    /\ membership' = IF MayJoin(Me(s)) THEN Standing(Me(s), "joined") ELSE membership
    /\ IF job[s].kind = "post" THEN Goto(s, "record") ELSE End(s)
    /\ UNCHANGED <<user, room, registered, mirrored, profile, kvstore, caches, history, faults>>

\* joinGhostUserWithFallback: an invitation follows a refusal, but no other
\* error.
Fallback(s) == IF job[s].pc = "try" THEN Goto(s, "invite") ELSE End(s)

\* JoinRoomAsUser.
Join(s) ==
    LET j == job[s]
        done == Standing(Me(s), "joined")
        Joined == IF j.kind = "post" THEN Goto(s, "record") ELSE End(s)
    IN  /\ j.pc \in {"try", "join"}
        /\ \/ /\ IF MayJoin(Me(s)) THEN membership' = done /\ Joined ELSE UNCHANGED membership /\ Fallback(s)
              /\ UNCHANGED faults
           \/ Fault /\ End(s) /\ membership' \in {membership, IF MayJoin(Me(s)) THEN done ELSE membership}
        /\ UNCHANGED <<user, room, registered, mirrored, profile, kvstore, caches, history>>

\* The membership is recorded, and cached by MemberFill.
Record(s) ==
    /\ job[s].pc = "record"
    /\ \/ roomKey' = roomKey \cup {job[s].u} /\ UNCHANGED faults
       \/ Fault /\ UNCHANGED roomKey
    /\ Goto(s, "memberFill")
    /\ UNCHANGED <<user, room, matrix, ghostKey, mirrorKey, caches, history>>

\* The message is sent, or refused if the identity is no member (PostSync).
Send(s) == job[s].pc = "send" /\ End(s) /\ UNCHANGED <<world, history, faults>>

-----------------------------------------------------------------------------
Step(s) == \/ LookInCache(s) \/ LookInStore(s) \/ FillCache(s)
           \/ ReadUser(s) \/ ReadImage(s) \/ Register(s) \/ SetDisplayName(s) \/ SetAvatar(s) \/ Store(s)
           \/ LookForMirror(s) \/ RegisterMirror(s) \/ StoreMirror(s)
           \/ MemberInCache(s) \/ MemberInStore(s) \/ MemberFill(s)
           \/ AskRule(s) \/ Invite(s) \/ Join(s) \/ Record(s) \/ Send(s)
Next == \/ \E s \in Slot, u \in User : Start(s, u) \/ StartMirrored(s, u) \/ ChangeName(s, u) \/ ChangeAvatar(s, u)
        \/ \E u \in User : MapUser(u) \/ Forget(u)
        \/ \E i \in User \X Identity : Remove(i)
        \/ Crash
        \/ \E s \in Slot : Step(s)
Spec == Init /\ [][Next]_vars

-----------------------------------------------------------------------------
(* Properties. *)

\* Whoever is believed to be a member, by a record in the store, a record in
\* the cache or a join just made, is one when it comes to speak; unless it was
\* removed from the room, which no record follows, or the user has spoken under
\* two identities, which share the record.
SpeakerIsMember ==
    \A s \in Slot : job[s].pc = "send" =>
        \/ membership[Me(s)] = "joined"
        \/ Me(s) \in removed
        \/ Cardinality(spoke[job[s].u]) > 1

\* A ghost that is stored or cached is registered, whichever calls failed; and
\* an administrator's mapping stays, whatever the goroutines that create
\* ghosts do, unless one of them had looked before it was made or fails to
\* read it later.
IdentityKept ==
    /\ \A u \in User : "ghost" \in {ghostKey[u], ghostCache[u]} => u \in registered
    /\ \A u \in kept : ghostKey[u] = "own"

\* When all is done and no call failed, a ghost has the name and the avatar of
\* its user, however creations, updates and the image hook overlapped; unless
\* the user changed while a job of the user's was running (the older value may
\* be written last), or was given an account of its own.
ProfileSettles ==
    faults = 0 /\ (\A s \in Slot : job[s] = Idle) =>
        \A u \in registered \ untidy : spoke[u] \subseteq {"ghost"} => profile[u] = user[u]
=============================================================================
