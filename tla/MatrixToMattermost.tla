------------------------- MODULE MatrixToMattermost -------------------------
(***************************************************************************)
(* server/sync_to_mattermost.go with processMatrixEvent of                 *)
(* matrix_webhook.go: the events of one Matrix room become users, posts,   *)
(* reactions and members of its Mattermost channel.                        *)
(*                                                                         *)
(* The homeserver hands the events over in the order of the room           *)
(* (MatrixIntake); the workers of the event queue (EventQueue) execute     *)
(* them, each from the oldest that is left.  A job is one execution; its   *)
(* steps are the calls it makes and its accesses to the KV store, and the  *)
(* jobs of different workers interleave at them.                           *)
(*                                                                         *)
(* The channel is mapped; there is one emoji.  Avatars, teams and the      *)
(* conversion of texts are left out: a text is the number of the event     *)
(* that brought it, as is a display name.  Event 1 is a message that the   *)
(* other direction (PostSync) sent for post 1, event 2 may be its file.    *)
(***************************************************************************)
EXTENDS Naturals, Sequences, FiniteSets, FiniteSetsExt

CONSTANTS
    Sender,     \* Matrix users that are no ghosts
    Ghost,      \* the ghost user that sent the events of post 1
    Base,       \* Base[m]: what generateMattermostUsername makes of m's name
    Worker,     \* workers of the event queue
    MaxEvent,   \* bound: events in the room and mishaps together
    MaxPending, \* bound: users of the room act while fewer jobs are unfinished
    MaxMishap   \* bound: mishaps, which are failing calls, crashes, events
                \* handed over once more and users deleted in Mattermost

ASSUME MatrixToMattermostAssumption ==
    /\ Ghost \notin Sender
    /\ DOMAIN Base = Sender
    /\ IsFiniteSet(Worker)
    /\ {MaxEvent, MaxPending, MaxMishap} \subseteq Nat

VARIABLES
    room,        \* Matrix: the events of the room; an event's id is its index
    inbox,       \* events handed over that no worker has taken
    job,         \* job[w]: what worker w does
    users,       \* Mattermost: the users made for Matrix users
    posts,       \* Mattermost: the posts of the channel; 1 is not a Matrix user's
    reactions,   \* Mattermost: <<post, user>> for each reaction
    members,     \* Mattermost: the users that are members of the channel
    userOf,      \* KV store: matrix_user_<m>; 0: none
    matrixOf,    \* KV store: mattermost_user_<id>
    postOf,      \* KV store: matrix_event_post_<event>; 0: none
    reactionOf,  \* KV store: matrix_reaction_<event>
    runs,        \* history: how often an event was handed over
    raced,       \* history: events executed while one they depend on was
    faults       \* history: failing calls and crashes

mattermost == <<users, posts, reactions, members>>
kvstore    == <<userOf, matrixOf, postOf, reactionOf>>
vars == <<room, inbox, job, mattermost, kvstore, runs, raced, faults>>

Events == DOMAIN room
NoReaction == <<0, 0>>
NoSender == "nobody"
Kinds == {"message", "file", "edit", "reaction", "redaction", "join", "leave"}
Event == [kind : Kinds, sender : Sender \cup {Ghost}, target : Nat]
\* What a worker holds: where it is (pc), the event, the user's id, the name
\* chosen for a new user, the display name to set, the post, and the reaction.
JobRecord == [pc : {"idle", "begin", "user", "name", "create", "map", "rename", "profile", "post", "mapPost",
                    "update", "react", "mapReact", "unreact", "unmapReact", "delete", "member"},
              ev : Nat, who : Nat, name : Nat, nick : Nat, post : Nat, reaction : Nat \X Nat]
Idle == [pc |-> "idle", ev |-> 0, who |-> 0, name |-> 0, nick |-> 0, post |-> 0, reaction |-> NoReaction]
UserRecord == [of : Sender, name : Nat, nick : {0} \cup Events, live : BOOLEAN]
PostRecord == [event : Events, author : 0..Len(users), root : Nat, text : Events, live : BOOLEAN]

TypeOK ==
    /\ room \in Seq(Event) /\ \A e \in Events : room[e].target < e
    /\ inbox \in Seq(Events)
    /\ job \in [Worker -> JobRecord] /\ \A w \in Worker : job[w].ev \in {0} \cup Events
    /\ users \in Seq(UserRecord)
    /\ posts \in Seq(PostRecord)
    /\ \A p \in DOMAIN posts : posts[p].root < p /\ (posts[p].author = 0 <=> p = 1)
    /\ members \subseteq DOMAIN users
    /\ reactions \subseteq (DOMAIN posts) \X (DOMAIN users)
    /\ userOf \in [Sender -> 0..Len(users)]
    /\ matrixOf \in [DOMAIN users -> Sender \cup {NoSender}]
    /\ postOf \in [Events -> 0..Len(posts)]
    /\ reactionOf \in [Events -> ((DOMAIN posts) \X (DOMAIN users)) \cup {NoReaction}]
    /\ runs \in [Events -> Nat \ {0}] /\ raced \subseteq Events /\ faults \in Nat

Init == /\ LET message == [kind |-> "message", sender |-> Ghost, target |-> 0]
               file == [kind |-> "file", sender |-> Ghost, target |-> 1]
           IN  room \in {<<message>>, <<message, file>>}
        /\ inbox = [e \in Events |-> e]
        /\ job = [w \in Worker |-> Idle]
        /\ users = <<>>
        /\ posts = <<[event |-> 1, author |-> 0, root |-> 0, text |-> 1, live |-> TRUE]>>
        /\ reactions = {} /\ members = {}
        /\ userOf = [m \in Sender |-> 0] /\ matrixOf = <<>>
        /\ postOf = [e \in Events |-> 0] /\ reactionOf = [e \in Events |-> NoReaction]
        /\ runs = [e \in Events |-> 1] /\ raced = {} /\ faults = 0

-----------------------------------------------------------------------------
(* The room. *)

Redacted(e) == \E r \in Events : room[r].kind = "redaction" /\ room[r].target = e
IsPost(e) == room[e].kind \in {"message", "file"}
Visible == {e \in Events : IsPost(e) /\ ~Redacted(e)}
Reacts(m, target) == \E e \in Events : room[e].kind = "reaction" /\ room[e].sender = m
                                         /\ room[e].target = target /\ ~Redacted(e)
Moves(m) == {e \in Events : room[e].sender = m /\ room[e].kind \in {"join", "leave"}}
InRoom(m) == Moves(m) # {} => room[Max(Moves(m))].kind = "join"
\* The display name of m at the homeserver: that of m's last join event.
Profile(m) ==
    LET joins == {e \in Events : room[e].sender = m /\ room[e].kind = "join"}
    IN  IF joins = {} THEN 0 ELSE Max(joins)

\* Everything an event builds on: itself, what it is about, and so on, which
\* is the least set with e and what its events are about.
Closed(C) == \A i \in C : room[i].target # 0 => room[i].target \in C
Chain(e) == {i \in 1..e : \A C \in SUBSET (1..e) : e \in C /\ Closed(C) => i \in C}
Tree(e, f) == Chain(e) \cap Chain(f) # {}

Busy == {w \in Worker : job[w].pc # "idle"}
mishaps == faults + Cardinality({e \in Events : runs[e] > 1})
             + Cardinality({u \in DOMAIN users : ~users[u].live})
Mishap == mishaps < MaxMishap /\ Len(room) + mishaps < MaxEvent

\* A user of the room sends an event, redacts one or comes and goes.
Send ==
    /\ Len(room) + mishaps < MaxEvent /\ Cardinality(Busy) + Len(inbox) < MaxPending
    /\ \E m \in Sender, kind \in Kinds :
          /\ kind = "join" \/ InRoom(m)
          /\ \E target \in CASE kind \in {"message", "file"} -> {0} \cup Visible
                            [] kind = "edit"      -> {e \in Visible : room[e].kind = "message" /\ room[e].sender = m}
                            [] kind = "reaction"  -> {e \in Visible : ~Reacts(m, e)}
                            [] kind = "redaction" -> {e \in Events : ~Redacted(e) /\ room[e].kind \in Kinds
                                                                     \ {"redaction", "join", "leave"}}
                            [] OTHER              -> {0} :
                room' = Append(room, [kind |-> kind, sender |-> m, target |-> target])
    /\ inbox' = Append(inbox, Len(room) + 1)
    /\ postOf' = Append(postOf, 0) /\ reactionOf' = Append(reactionOf, NoReaction)
    /\ runs' = Append(runs, 1)
    /\ UNCHANGED <<job, mattermost, userOf, matrixOf, raced, faults>>

\* The transaction of an event is delivered again, and not seen to be
\* (MatrixIntake).
Repeat ==
    /\ Mishap
    /\ \E e \in Events : /\ inbox' = Append(inbox, e)
                         /\ runs' = [runs EXCEPT ![e] = @ + 1]
                         /\ raced' = raced \cup {e}
    /\ UNCHANGED <<room, job, mattermost, kvstore, faults>>

\* An administrator deletes a user for good, with its posts and their threads.
DeleteUser ==
    /\ Mishap
    /\ \E u \in DOMAIN users :
          LET own == {p \in DOMAIN posts : posts[p].author = u}
          IN  /\ users[u].live
              /\ users' = [users EXCEPT ![u].live = FALSE]
              /\ posts' = [p \in DOMAIN posts |-> IF p \in own \/ posts[p].root \in own
                                                 THEN [posts[p] EXCEPT !.live = FALSE] ELSE posts[p]]
              /\ members' = members \ {u}
              /\ reactions' = {r \in reactions : r[2] # u}
              /\ raced' = raced \cup {e \in Events : room[e].sender = users[u].of}
                                \cup {job[w].ev : w \in {w \in Busy : room[job[w].ev].sender # Ghost}}
    /\ UNCHANGED <<room, inbox, job, kvstore, runs, faults>>

-----------------------------------------------------------------------------
(* Workers. *)

About(w) == room[job[w].ev]
Replace(w, j) == job' = [job EXCEPT ![w] = j]
Finish(w) == Replace(w, Idle)
Goto(w, pc) == Replace(w, [job[w] EXCEPT !.pc = pc])
Fault == Mishap /\ faults' = faults + 1

Known(m) == userOf[m] # 0 /\ users[userOf[m]].live
\* Two events whose executions disturb each other: about one post, of users
\* that may get one name while one of them has no user yet, or of one user who
\* comes, goes or changes the display name.
Disturb(e, f) ==
    LET m == room[e].sender
        n == room[f].sender
    IN  \/ Tree(e, f)
        \/ /\ {m, n} \subseteq Sender /\ Base[m] = Base[n]
           /\ ~Known(m) \/ ~Known(n)
        \/ m = n /\ {room[e].kind, room[f].kind} \cap {"join", "leave"} # {}

\* A worker takes the oldest event.
Take(w) ==
    LET e == Head(inbox)
        disturbed == {f \in {job[v].ev : v \in Busy} : Disturb(e, f)}
    IN  /\ inbox # <<>> /\ w \notin Busy
        /\ inbox' = Tail(inbox)
        /\ Replace(w, [Idle EXCEPT !.pc = "begin", !.ev = e])
        /\ raced' = IF disturbed = {} THEN raced ELSE raced \cup disturbed \cup {e}
        /\ UNCHANGED <<room, mattermost, kvstore, runs, faults>>

unchangedByReads == <<room, inbox, mattermost, kvstore, runs, raced>>

\* Any call that the job cannot do without fails: the job ends with an error,
\* which is logged.  (The calls it does without are faults of their actions.)
Fail(w) == w \in Busy /\ Fault /\ Finish(w) /\ UNCHANGED unchangedByReads

\* The plugin process dies; what it has accepted is not delivered again.
Crash == Fault /\ job' = [w \in Worker |-> Idle] /\ inbox' = <<>>
         /\ UNCHANGED <<room, mattermost, kvstore, runs, raced>>

\* getPostIDFromMatrixEvent: the KV store knows the posts of Matrix users, the
\* event that was sent for a post names it until it is redacted.
Sent(e, kind) == room[e].sender = Ghost /\ room[e].kind = kind /\ ~Redacted(e)
FindPost(e) == IF postOf[e] # 0 THEN postOf[e] ELSE IF Sent(e, "message") THEN 1 ELSE 0
\* getPostIDFromRelatedMatrixEvent: a post's file is related to its event.
FindRelated(e) == IF FindPost(e) = 0 /\ Sent(e, "file") THEN FindPost(room[e].target) ELSE FindPost(e)
\* The same when the homeserver does not answer.
FindStored(e) == postOf[e]

\* processMatrixEvent: events of ghost users are skipped, to prevent loops.
SkipGhost(w) == job[w].pc = "begin" /\ About(w).sender = Ghost /\ Finish(w)
                /\ UNCHANGED <<unchangedByReads, faults>>

\* syncMatrixMessageToMattermost, syncMatrixFileToMattermost: first the user.
BeginMessage(w) == job[w].pc = "begin" /\ About(w).sender # Ghost /\ IsPost(job[w].ev) /\ Goto(w, "user")
                   /\ UNCHANGED <<unchangedByReads, faults>>

\* handleMatrixMessageEdit, syncMatrixReactionToMattermost: the post that the
\* event is about; without one the event is dropped.
BeginAbout(w) ==
    LET e == About(w)
        Found(p) == IF p = 0 THEN Finish(w)
                    ELSE Replace(w, [job[w] EXCEPT !.post = p, !.pc = IF e.kind = "edit" THEN "update" ELSE "user"])
    IN  /\ job[w].pc = "begin" /\ e.kind \in {"edit", "reaction"}
        /\ \/ Found(IF e.kind = "edit" THEN FindPost(e.target) ELSE FindRelated(e.target)) /\ UNCHANGED faults
           \/ Found(FindStored(e.target)) /\ Fault
        /\ UNCHANGED unchangedByReads

\* syncMatrixRedactionToMattermost: GetEvent tells what was redacted, without
\* its content; when it fails it is taken for a message.
BeginRedaction(w) ==
    LET target == About(w).target
        Deletion == IF FindPost(target) = 0 THEN Finish(w)
                    ELSE Replace(w, [job[w] EXCEPT !.post = FindPost(target), !.pc = "delete"])
        Removal == IF reactionOf[target] = NoReaction THEN Finish(w)
                   ELSE Replace(w, [job[w] EXCEPT !.reaction = reactionOf[target], !.pc = "unreact"])
    IN  /\ job[w].pc = "begin" /\ About(w).kind = "redaction"
        /\ \/ (IF room[target].kind = "reaction" THEN Removal ELSE Deletion) /\ UNCHANGED faults
           \/ Deletion /\ Fault
        /\ UNCHANGED unchangedByReads

\* syncMatrixMemberEventToMattermost: a user is made at a join only.  A mapping
\* that cannot be read is taken for none.
BeginMember(w) ==
    LET e == About(w)
        Unknown == IF e.kind = "join" THEN Goto(w, "user") ELSE Finish(w)
    IN  /\ job[w].pc = "begin" /\ e.kind \in {"join", "leave"}
        /\ \/ /\ IF userOf[e.sender] = 0 THEN Unknown
                 ELSE Replace(w, [job[w] EXCEPT !.who = userOf[e.sender], !.pc = "member", !.nick = job[w].ev])
              /\ UNCHANGED faults
           \/ Unknown /\ Fault
        /\ UNCHANGED unchangedByReads

-----------------------------------------------------------------------------
(* getOrCreateMattermostUser. *)

\* Where a job goes when it has its user.
Use(kind) == CASE kind \in {"message", "file"} -> "post" [] kind = "reaction" -> "react" [] OTHER -> "member"
Proceed(w) == Replace(w, [job[w] EXCEPT !.nick = 0, !.pc = Use(About(w).kind)])

\* The mapped user, if there still is one, and the profile it should have; or
\* else the mapping is deleted and a user made.  So is a second one when the
\* mapping cannot be read or deleted, and when GetUser fails for a live user.
LookUp(w) ==
    LET m == About(w).sender
        Unmap == userOf' = [userOf EXCEPT ![m] = 0]
    IN  /\ job[w].pc = "user"
        /\ \/ /\ IF Known(m)
                 THEN /\ Replace(w, [job[w] EXCEPT !.who = userOf[m], !.nick = Profile(m), !.pc = "rename"])
                      /\ UNCHANGED userOf
                 ELSE Unmap /\ Goto(w, "name")
              /\ UNCHANGED faults
           \/ Fault /\ Goto(w, "name") /\ (Unmap \/ UNCHANGED userOf)
        /\ UNCHANGED <<room, inbox, mattermost, matrixOf, postOf, reactionOf, runs, raced>>

\* updateMattermostUserProfile, whose errors are ignored.
Rename(w) ==
    /\ job[w].pc \in {"rename", "profile"}
    /\ \/ users' = [users EXCEPT ![job[w].who].nick = IF job[w].nick = 0 THEN @ ELSE job[w].nick] /\ UNCHANGED faults
       \/ Fault /\ UNCHANGED users
    /\ IF job[w].pc = "profile" THEN Finish(w) ELSE Proceed(w)
    /\ UNCHANGED <<room, inbox, posts, reactions, members, kvstore, runs, raced>>

Taken(m, n) == \E u \in DOMAIN users : users[u].live /\ Base[users[u].of] = Base[m] /\ users[u].name = n

\* generateMattermostUsername: the first name that is free, then the profile; a
\* user whose profile is not answered gets the username for a display name.
Name(w) ==
    LET m == About(w).sender
        n == CHOOSE n \in 0..Len(users) : ~Taken(m, n) /\ \A i \in 0..(n - 1) : Taken(m, i)
    IN  /\ job[w].pc = "name"
        /\ \/ Replace(w, [job[w] EXCEPT !.name = n, !.nick = Profile(m), !.pc = "create"]) /\ UNCHANGED faults
           \/ Replace(w, [job[w] EXCEPT !.name = n, !.pc = "create"]) /\ Fault
        /\ UNCHANGED unchangedByReads

\* Mutant: a user that has the name by now is used.
Create_Adopt(w) ==
    LET m == About(w).sender
    IN  /\ job[w].pc = "create"
        /\ IF Taken(m, job[w].name)
           THEN /\ \E u \in DOMAIN users : users[u].name = job[w].name /\ Base[users[u].of] = Base[m] /\ users[u].live
                      /\ Replace(w, [job[w] EXCEPT !.who = u, !.pc = "map"])
                /\ UNCHANGED <<users, matrixOf>>
           ELSE /\ users' = Append(users, [of |-> m, name |-> job[w].name, nick |-> job[w].nick, live |-> TRUE])
                /\ matrixOf' = Append(matrixOf, NoSender)
                /\ Replace(w, [job[w] EXCEPT !.who = Len(users) + 1, !.pc = "map"])
        /\ UNCHANGED <<room, inbox, posts, reactions, members, userOf, postOf, reactionOf, runs, raced, faults>>

\* CreateUser refuses a name that was taken meanwhile: the event is lost.
Create(w) ==
    LET m == About(w).sender
    IN  /\ job[w].pc = "create"
        /\ IF Taken(m, job[w].name) THEN Finish(w) /\ UNCHANGED <<users, matrixOf>>
           ELSE /\ users' = Append(users, [of |-> m, name |-> job[w].name, nick |-> job[w].nick, live |-> TRUE])
                /\ matrixOf' = Append(matrixOf, NoSender)
                /\ Replace(w, [job[w] EXCEPT !.who = Len(users) + 1, !.pc = "map"])
        /\ UNCHANGED <<room, inbox, posts, reactions, members, userOf, postOf, reactionOf, runs, raced, faults>>

\* Both directions of the mapping; the job goes on without one it cannot store.
MapUser(w) ==
    LET m == About(w).sender
        there == [userOf EXCEPT ![m] = job[w].who]
        back == [matrixOf EXCEPT ![job[w].who] = m]
    IN  /\ job[w].pc = "map"
        /\ \/ userOf' = there /\ matrixOf' = back /\ UNCHANGED faults
           \/ Fault /\ \/ userOf' = there /\ UNCHANGED matrixOf
                       \/ matrixOf' = back /\ UNCHANGED userOf
                       \/ UNCHANGED <<userOf, matrixOf>>
        /\ Proceed(w)
        /\ UNCHANGED <<room, inbox, mattermost, postOf, reactionOf, runs, raced>>

-----------------------------------------------------------------------------
(* Posts. *)

\* getThreadRootFromPostID: a reply's root; the post itself if it is gone.
\* (Where GetPost fails for a reply, the reply is the root, which CreatePost
\* refuses: Fail.)
ThreadRoot(p) == IF p # 0 /\ posts[p].live /\ posts[p].root # 0 THEN posts[p].root ELSE p
\* Mattermost takes a live post that is no reply for the root of a thread.
AcceptsRoot(r) == r = 0 \/ (posts[r].live /\ posts[r].root = 0)

\* CreatePost of the Mattermost server, in the thread of root.
PostUnder(w, root) ==
    LET post == [event |-> job[w].ev, author |-> job[w].who, root |-> root, text |-> job[w].ev, live |-> TRUE]
    IN  IF ~AcceptsRoot(root) \/ ~users[job[w].who].live THEN Finish(w) /\ UNCHANGED posts
        ELSE posts' = Append(posts, post) /\ Replace(w, [job[w] EXCEPT !.post = Len(posts) + 1, !.pc = "mapPost"])

\* Mutant: a message's parent is made the root without looking for its thread.
CreatePost_ParentAsRoot(w) ==
    LET e == About(w)
    IN  /\ job[w].pc = "post" /\ e.kind = "message"
        /\ PostUnder(w, IF e.target = 0 THEN 0 ELSE FindRelated(e.target))
        /\ UNCHANGED <<room, inbox, users, reactions, members, kvstore, runs, raced, faults>>

\* A reply's post, or that of the file replied to, tells the thread; a reply
\* whose parent's post cannot be looked up goes outside every thread.
CreatePost(w) ==
    LET e == About(w)
    IN  /\ job[w].pc = "post" /\ e.kind = "message"
        /\ \/ PostUnder(w, ThreadRoot(IF e.target = 0 THEN 0 ELSE FindRelated(e.target))) /\ UNCHANGED faults
           \/ e.target # 0 /\ PostUnder(w, 0) /\ Fault
        /\ UNCHANGED <<room, inbox, users, reactions, members, kvstore, runs, raced>>

\* syncMatrixFileToMattermost: the post replied to is taken for the root.
CreateFilePost(w) ==
    LET e == About(w)
    IN  /\ job[w].pc = "post" /\ e.kind = "file"
        /\ \/ PostUnder(w, IF e.target = 0 THEN 0 ELSE FindPost(e.target)) /\ UNCHANGED faults
           \/ e.target # 0 /\ PostUnder(w, 0) /\ Fault
        /\ UNCHANGED <<room, inbox, users, reactions, members, kvstore, runs, raced>>

\* storeMatrixEventPostMapping.
MapPost(w) ==
    /\ job[w].pc = "mapPost"
    /\ \/ postOf' = [postOf EXCEPT ![job[w].ev] = job[w].post] /\ UNCHANGED faults
       \/ Fault /\ UNCHANGED postOf
    /\ Finish(w)
    /\ UNCHANGED <<room, inbox, mattermost, userOf, matrixOf, reactionOf, runs, raced>>

\* GetPost and UpdatePost of handleMatrixMessageEdit.
Update(w) ==
    /\ job[w].pc = "update"
    /\ posts' = IF posts[job[w].post].live THEN [posts EXCEPT ![job[w].post].text = job[w].ev] ELSE posts
    /\ Finish(w)
    /\ UNCHANGED <<room, inbox, users, reactions, members, kvstore, runs, raced, faults>>

\* handlePostDeletion: DeletePost deletes the thread of a root with it.
Delete(w) ==
    /\ job[w].pc = "delete"
    /\ posts' = [p \in DOMAIN posts |->
                   IF p = job[w].post \/ posts[p].root = job[w].post THEN [posts[p] EXCEPT !.live = FALSE] ELSE posts[p]]
    /\ Finish(w)
    /\ UNCHANGED <<room, inbox, users, reactions, members, kvstore, runs, raced, faults>>

-----------------------------------------------------------------------------
(* Reactions and members. *)

AddReaction(w) ==
    /\ job[w].pc = "react"
    /\ IF posts[job[w].post].live /\ users[job[w].who].live
       THEN reactions' = reactions \cup {<<job[w].post, job[w].who>>} /\ Goto(w, "mapReact")
       ELSE Finish(w) /\ UNCHANGED reactions
    /\ UNCHANGED <<room, inbox, users, posts, members, kvstore, runs, raced, faults>>

\* Mutant: the two ids of the stored reaction are swapped.
MapReaction_Swapped(w) ==
    /\ job[w].pc = "mapReact"
    /\ \/ reactionOf' = [reactionOf EXCEPT ![job[w].ev] = <<job[w].who, job[w].post>>] /\ UNCHANGED faults
       \/ Fault /\ UNCHANGED reactionOf
    /\ Finish(w)
    /\ UNCHANGED <<room, inbox, mattermost, userOf, matrixOf, postOf, runs, raced>>

\* What a later redaction needs to know of the reaction.
MapReaction(w) ==
    /\ job[w].pc = "mapReact"
    /\ \/ reactionOf' = [reactionOf EXCEPT ![job[w].ev] = <<job[w].post, job[w].who>>] /\ UNCHANGED faults
       \/ Fault /\ UNCHANGED reactionOf
    /\ Finish(w)
    /\ UNCHANGED <<room, inbox, mattermost, userOf, matrixOf, postOf, runs, raced>>

\* handleReactionDeletion.
RemoveReaction(w) ==
    /\ job[w].pc = "unreact"
    /\ IF posts[job[w].reaction[1]].live THEN reactions' = reactions \ {job[w].reaction} /\ Goto(w, "unmapReact")
       ELSE Finish(w) /\ UNCHANGED reactions
    /\ UNCHANGED <<room, inbox, users, posts, members, kvstore, runs, raced, faults>>

UnmapReaction(w) ==
    /\ job[w].pc = "unmapReact"
    /\ \/ reactionOf' = [reactionOf EXCEPT ![About(w).target] = NoReaction] /\ UNCHANGED faults
       \/ Fault /\ UNCHANGED reactionOf
    /\ Finish(w)
    /\ UNCHANGED <<room, inbox, mattermost, userOf, matrixOf, postOf, runs, raced>>

\* addUserToChannel, removeUserFromChannel; after a join of a user that was
\* known comes the display name, also if the user could not be added.
Member(w) ==
    LET join == About(w).kind = "join"
    IN  /\ job[w].pc = "member"
        /\ \/ /\ members' = IF ~join THEN members \ {job[w].who}
                            ELSE IF users[job[w].who].live THEN members \cup {job[w].who} ELSE members
              /\ UNCHANGED faults
           \/ Fault /\ UNCHANGED members
        /\ IF join /\ job[w].nick # 0 /\ users[job[w].who].live THEN Goto(w, "profile") ELSE Finish(w)
        /\ UNCHANGED <<room, inbox, users, posts, reactions, kvstore, runs, raced>>

-----------------------------------------------------------------------------
Work(w) ==
    \/ Fail(w) \/ SkipGhost(w) \/ BeginMessage(w) \/ BeginAbout(w) \/ BeginRedaction(w) \/ BeginMember(w)
    \/ LookUp(w) \/ Rename(w) \/ Name(w) \/ Create(w) \/ MapUser(w)
    \/ CreatePost(w) \/ CreateFilePost(w) \/ MapPost(w) \/ Update(w) \/ Delete(w)
    \/ AddReaction(w) \/ MapReaction(w) \/ RemoveReaction(w) \/ UnmapReaction(w) \/ Member(w)
Next == \/ Send \/ Repeat \/ DeleteUser \/ Crash
        \/ \E w \in Worker : Take(w) \/ Work(w)
Spec == Init /\ [][Next]_vars

-----------------------------------------------------------------------------
(* Properties. *)

PostsOf(e) == {p \in DOMAIN posts : posts[p].event = e}
\* The event of the post that an event about e is about.
Main(e) == IF room[e].sender = Ghost THEN 1 ELSE e

\* Whatever is repeated, reordered, lost or interrupted: a post comes from a
\* message of a user that is no ghost and belongs to the Mattermost user made
\* for its sender, also when two senders compete for a name; a message has at
\* most one post for each time it was handed over; threads are flat and hold
\* only what answers in them; a reaction is by the user of one that was sent;
\* the two mappings of a user agree.
Provenance ==
    /\ \A p \in DOMAIN posts \ {1} :
          LET e == posts[p].event
              r == posts[p].root
          IN  /\ IsPost(e) /\ users[posts[p].author].of = room[e].sender
              /\ Cardinality(PostsOf(e)) <= runs[e]
              /\ r # 0 => posts[r].root = 0 /\ posts[r].event \in Chain(e) \ {e}
              /\ posts[p].text = e \/ room[posts[p].text].target = e
    /\ \A r \in reactions : \E e \in Events :
          /\ room[e].kind = "reaction" /\ Main(room[e].target) = posts[r[1]].event
          /\ room[e].sender = users[r[2]].of
    /\ \A m \in Sender : userOf[m] # 0 => users[userOf[m]].of = m
    /\ \A u \in DOMAIN users : matrixOf[u] \in {users[u].of, NoSender}

AtRest == inbox = <<>> /\ Busy = {}
\* The roots of the threads that the posts for event t are in.
Roots(t) == IF t = 0 THEN {}
            ELSE {IF posts[p].root = 0 THEN p ELSE posts[p].root : p \in PostsOf(Main(t))}
RedactedBefore(i, e) == \E r \in 1..(e - 1) : room[r].kind = "redaction" /\ room[r].target = i
\* No event of its tree was raced, and the code can place it: no event of
\* post 1 is redacted (it names no post any more), and no file before it
\* answers a reply (Mattermost refuses the reply as a root) or a file of post 1
\* (for which only a message is led to the post).
Clean(e) ==
    /\ \A i \in raced : ~Tree(i, e)
    /\ \A i \in Chain(e) : room[i].sender = Ghost => ~Redacted(i)
    /\ \A i \in Chain(e) : room[i].kind = "file" /\ room[i].target # 0 =>
          LET t == room[i].target
          IN  (room[t].sender = Ghost => t = 1) /\ \A p \in PostsOf(t) : posts[p].root = 0

\* The post of a message is in the thread of what it answers, or begins one if
\* that has no post.  There is exactly one, unless the thread was deleted
\* before; it lives until it or the root of its thread is redacted, and has
\* the text of the last edit, redacted or not.
Mirrored(e) ==
    LET roots == Roots(room[e].target)
        edits == {i \in Events : room[i].kind = "edit" /\ room[i].target = e}
    IN  IF \E q \in roots : RedactedBefore(posts[q].event, e) THEN PostsOf(e) = {}
        ELSE \E p \in PostsOf(e) :
                /\ PostsOf(e) = {p}
                /\ roots = IF posts[p].root = 0 THEN {} ELSE {posts[p].root}
                /\ posts[p].live <=> ~Redacted(e) /\ \A q \in roots : ~Redacted(posts[q].event)
                /\ posts[p].live => posts[p].text = IF edits = {} THEN e ELSE Max(edits)

\* A reaction is there until it is redacted.
ReactionMirrored(e) ==
    \A p \in DOMAIN posts : posts[p].event = Main(room[e].target) /\ posts[p].live =>
        ((\E r \in reactions : r[1] = p /\ users[r[2]].of = room[e].sender) <=> ~Redacted(e))

\* A user whose last coming or going was handled in peace, and who was never
\* deleted, is a member if it was a coming, under the last display name.
MemberMirrored(m) ==
    Moves(m) # {} => IF InRoom(m) THEN userOf[m] \in members /\ users[userOf[m]].nick = Max(Moves(m))
                     ELSE userOf[m] \notin members

\* When everything was executed, no call failed, and what depends on each
\* other was never executed at once: the channel mirrors the room.
Converges ==
    AtRest /\ faults = 0 =>
        /\ \A e \in Events : IsPost(e) /\ room[e].sender # Ghost /\ Clean(e) => Mirrored(e)
        /\ \A e \in Events : room[e].kind = "reaction" /\ Clean(e) =>
              \/ ReactionMirrored(e)
              \/ \E i \in Events \ {e} : room[i].kind = "reaction" /\ room[i].sender = room[e].sender
                                          /\ Main(room[i].target) = Main(room[e].target)
        /\ \A m \in Sender : (\A e \in raced : room[e].sender # m) => MemberMirrored(m)
=============================================================================
