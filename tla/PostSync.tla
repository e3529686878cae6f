------------------------------ MODULE PostSync ------------------------------
(***************************************************************************)
(* server/sync_to_matrix.go with hooks.go, post_tracker.go, matrix_util.go *)
(* and the sending half of matrix/client.go: the posts of one channel and  *)
(* the reactions to them are carried to its Matrix room.                   *)
(*                                                                         *)
(* Mattermost (external) tells the plugin of a change on two ways:         *)
(*   - hooks, each in a goroutine of its own: MessageHasBeenPosted syncs   *)
(*     the post itself, MessageHasBeenUpdated and the reaction hooks put a *)
(*     task into the event queue, or run it themselves when it is full;    *)
(*   - the shared channel service, which delivers what has changed one     *)
(*     call after the other, attachments before posts; deletions come only *)
(*     this way.                                                           *)
(* Every such call carries a copy of the post made when it was issued.     *)
(* What it means is decided from that copy: a post without the id of its   *)
(* Matrix event in its props is sent to Matrix and its id stored with      *)
(* UpdatePost (which is itself an update that both ways report); one with  *)
(* the id is an edit, unless the post tracker knows it as that echo.       *)
(*                                                                         *)
(* A job is one such call.  Its steps are the calls it makes to Mattermost *)
(* and to the homeserver and its accesses to the trackers; the jobs of     *)
(* different goroutines interleave at them.                                *)
(*                                                                         *)
(* The room is mapped and the ghost of the author is in it (RoomMapping,   *)
(* GhostUsers); one user, one emoji.  Time is left out: at a cleanup of a  *)
(* tracker any entry may be old whose post nothing is happening to.        *)
(***************************************************************************)
EXTENDS Naturals, Sequences, FiniteSets, Bags, SequencesExt

CONSTANTS
    Post,          \* the posts of the channel
    Root,          \* Root[p]: the post that p replies to, or NoPost
    NoPost,
    File, FilesOf, \* FilesOf[p]: the files attached to p
    Text,          \* bound: the texts a post may have; 0 is the empty text
    RemoteChoice,  \* the sets of posts that may be those of Matrix users
    Workers,       \* workers of the event queue
    QueueSize,     \* buffer of the event queue
    MaxTracked,    \* DefaultPostTrackerMaxEntries
    CleanupEvery,  \* the cleanupFreq of both trackers
    MaxJobs,       \* bound: users and the service act only while fewer than
                   \* MaxJobs[n][m] jobs are unfinished, n being how many posts
                   \* and m how many changes and faults there have been
    MaxChange,     \* bound: edits, deletions, reactions and faults altogether
    MaxFault       \* bound: failing calls and crashes

NoFile == "no file"

ASSUME PostSyncAssumption ==
    /\ IsFiniteSet(Post) /\ RemoteChoice \subseteq SUBSET Post
    /\ Root \in [Post -> Post \cup {NoPost}] /\ NoPost \notin Post
    /\ \A p \in Post : Root[p] # NoPost => Root[Root[p]] = NoPost
    /\ FilesOf \in [Post -> SUBSET File]
    /\ \A p, q \in Post : p # q => FilesOf[p] \cap FilesOf[q] = {}
    /\ NoFile \notin File
    /\ Text \subseteq Nat
    /\ {Workers, QueueSize, MaxTracked, MaxChange, MaxFault} \subseteq Nat
    /\ CleanupEvery \in Nat \ {0}
    /\ MaxJobs \in [0..Cardinality(Post) -> [0..MaxChange -> Nat]]

VARIABLES
    posts,       \* Mattermost: posts[p], with the event id in its props (0: none)
                 \* and UpdateAt, a number for each update
    remote,      \* the posts of Matrix users
    reacted,     \* Mattermost: the posts with the reaction under study
    dirty,       \* the service has still to deliver these posts,
    dirtyFiles,  \*   these files,
    dirtyReact,  \*   and the reaction to these posts
    room,        \* Matrix: the events of the room; an event's id is its index
    servesEdited,\* does GET event return the content of the last edit?
    tracker,     \* PostTracker.entries; 0: none
    puts,        \* PostTracker.putCounter
    pending,     \* PendingFileTracker.filesByPost
    adds,        \* PendingFileTracker.addCounter
    running,     \* the jobs that goroutines are at, a bag
    queue,       \* the tasks in the event queue
    said,        \* history: the text the user last gave p
    raced,       \* history: posts changed, sent or reacted to while a job was about them
    again,       \* history: jobs that send p issued while another one did
    changes, faults  \* history: how many there were

mattermost == <<posts, remote, reacted>>
service    == <<dirty, dirtyFiles, dirtyReact>>
matrix     == <<room, servesEdited>>
trackers   == <<tracker, puts, pending, adds>>
goroutines == <<running, queue>>
history    == <<said, raced, again, changes, faults>>
vars == <<mattermost, service, matrix, trackers, goroutines, history>>

\* An m.replace event is kept as its effect: the event it edits shows its text.
Event == [post : Post \cup {NoPost}, kind : {"text", "file", "reaction", "native"},
          text : Nat, file : File \cup {NoFile}, rel : {"none", "thread", "post", "annotation"},
          target : Nat, main : BOOLEAN, edited : BOOLEAN, shown : Nat, redacted : BOOLEAN]
Copy == [state : {"none", "live", "deleted"}, text : Nat, eid : Nat, at : Nat]
\* What a goroutine holds: the copy it was given, where it is (pc), the thread
\* root's event, the files it has still to send, the event it made or acts on,
\* and the events it has still to redact.
JobRecord == [pc : {"begin", "text", "files", "store", "track", "compare", "edit",
                    "redact", "annotate", "find"},
              post : Post, what : {"post", "react", "unreact"}, src : {"hook", "service", "worker"},
              copy : Copy, thread : Nat, files : SUBSET File, main : Nat, evs : SUBSET Nat]

TypeOK ==
    /\ posts \in [Post -> Copy]
    /\ remote \subseteq Post /\ reacted \subseteq Post
    /\ dirty \subseteq Post /\ dirtyFiles \subseteq File /\ dirtyReact \subseteq Post
    /\ room \in Seq(Event)
    /\ \A i \in DOMAIN room : room[i].target < i
    /\ tracker \in [Post -> Nat]
    /\ Cardinality({p \in Post : tracker[p] > 0}) <= MaxTracked
    /\ puts \in 0..(CleanupEvery - 1) /\ adds \in 0..(CleanupEvery - 1)
    /\ pending \subseteq File
    /\ IsABag(running) /\ BagToSet(running) \subseteq JobRecord
    /\ queue \in Seq(JobRecord)
    /\ Len(queue) <= QueueSize
    /\ \A j \in BagToSet(running) : j.main <= Len(room)
    /\ said \in [Post -> Nat] /\ again \in [Post -> Nat] /\ raced \subseteq Post
    /\ changes \in Nat /\ faults \in Nat

NoCopy == [state |-> "none", text |-> 0, eid |-> 0, at |-> 0]
Init == /\ posts = [p \in Post |-> NoCopy]
        /\ remote \in RemoteChoice
        /\ reacted = {}
        /\ dirty = {} /\ dirtyFiles = {} /\ dirtyReact = {}
        /\ room = <<>>
        /\ servesEdited \in BOOLEAN
        /\ tracker = [p \in Post |-> 0]
        /\ pending = {} /\ puts = 0 /\ adds = 0
        /\ running = EmptyBag /\ queue = <<>>
        /\ said = [p \in Post |-> 0] /\ again = [p \in Post |-> 0]
        /\ raced = {} /\ changes = 0 /\ faults = 0

-----------------------------------------------------------------------------
(* Jobs. *)

\* A call about p that carries the copy c of it.
Job(p, c, what, src) ==
    [pc |-> "begin", post |-> p, what |-> what, src |-> src, copy |-> c,
     thread |-> 0, files |-> {}, main |-> 0, evs |-> {}]

Start(j) == running' = running (+) SetToBag({j})
Replace(j, j2) == running' = (running (-) SetToBag({j})) (+) SetToBag({j2})
Finish(j) == running' = running (-) SetToBag({j})

Unfinished == BagToSet(running) \cup Range(queue)
Busy(p) == \E j \in Unfinished : j.post = p /\ j.what = "post"
Sends(c) == c.state = "live" /\ c.eid = 0
Sending(p) == \E j \in Unfinished : j.post = p /\ j.what = "post" /\ Sends(j.copy)
Again(p, c) == IF Sends(c) /\ Sending(p) THEN [again EXCEPT ![p] = @ + 1] ELSE again

\* eventQueue.Enqueue: when the queue is full the hook, or the flusher of the
\* batch, runs the task itself.
Enqueue(j) ==
    \/ Len(queue) < QueueSize /\ queue' = Append(queue, [j EXCEPT !.src = "worker"])
       /\ UNCHANGED running
    \/ Len(queue) = QueueSize /\ Start(j) /\ UNCHANGED queue

\* MessageHasBeenUpdated: posts of Matrix users are skipped.
MessageHasBeenUpdated(p, c) == Enqueue(Job(p, c, "post", "hook"))

-----------------------------------------------------------------------------
(* Users. *)

Change(p) == changes + faults < MaxChange /\ changes' = changes + 1 /\ posts[p].state = "live"
Fault == changes + faults < MaxChange /\ faults < MaxFault /\ faults' = faults + 1
Disturbed(Q) == raced' = raced \cup {q \in Q : Busy(q)}

\* A post of a Mattermost user, with any text, empty only if it has files; it
\* is reported by MessageHasBeenPosted, and by the service later.
CreatePost(p, t) ==
    /\ posts[p].state = "none" /\ p \notin remote
    /\ Root[p] # NoPost => posts[Root[p]].state = "live"
    /\ t = 0 => FilesOf[p] # {}
    /\ LET c == [state |-> "live", text |-> t, eid |-> 0, at |-> 1]
       IN  /\ posts' = [posts EXCEPT ![p] = c]
           /\ Start(Job(p, c, "post", "hook"))
    /\ said' = [said EXCEPT ![p] = t]
    /\ dirty' = dirty \cup {p}
    /\ dirtyFiles' = dirtyFiles \cup FilesOf[p]
    /\ UNCHANGED <<remote, reacted, dirtyReact, matrix, trackers, queue, raced, again, changes, faults>>

\* A post of a Matrix user: the other direction has created it with its id.
\* MessageHasBeenPosted looks for "from_matrix" as a string, finds a boolean
\* and syncs it.
CreateRemotePost(p, t) ==
    /\ posts[p].state = "none" /\ p \in remote /\ t > 0
    /\ Root[p] # NoPost => posts[Root[p]].state = "live"
    /\ room' = Append(room, [post |-> NoPost, kind |-> "native", text |-> t, file |-> NoFile,
                              rel |-> "none", target |-> 0, main |-> FALSE, edited |-> FALSE, shown |-> 0,
                              redacted |-> FALSE])
    /\ LET c == [state |-> "live", text |-> t, eid |-> Len(room) + 1, at |-> 1]
       IN  /\ posts' = [posts EXCEPT ![p] = c]
           /\ Start(Job(p, c, "post", "hook"))
    /\ said' = [said EXCEPT ![p] = t]
    /\ UNCHANGED <<remote, reacted, service, servesEdited, trackers, queue, raced, again, changes, faults>>

EditPost(p, t) ==
    /\ Change(p)
    /\ t # posts[p].text /\ p \notin remote
    /\ t = 0 => FilesOf[p] # {}
    /\ posts' = [posts EXCEPT ![p].text = t, ![p].at = @ + 1]
    /\ MessageHasBeenUpdated(p, posts'[p])
    /\ said' = [said EXCEPT ![p] = t]
    /\ dirty' = dirty \cup {p}
    /\ Disturbed({p})
    /\ again' = Again(p, posts[p])
    /\ UNCHANGED <<remote, reacted, dirtyFiles, dirtyReact, matrix, trackers, faults>>

\* A deletion takes the replies with it; only the service reports it.
DeletePost(p) ==
    LET gone == {q \in Post : (q = p \/ Root[q] = p) /\ posts[q].state = "live"}
    IN  /\ Change(p)
            /\ posts' = [q \in Post |-> IF q \in gone
                       THEN [posts[q] EXCEPT !.state = "deleted", !.at = @ + 1]
                       ELSE posts[q]]
        /\ dirty' = dirty \cup gone
        /\ dirtyFiles' = dirtyFiles \cup UNION {FilesOf[q] : q \in gone}
        /\ Disturbed(gone)
        /\ UNCHANGED <<remote, reacted, dirtyReact, matrix, trackers, goroutines, said, again, faults>>

\* ReactionHasBeenAdded, ReactionHasBeenRemoved: the user's one reaction. Its
\* batch (ReactionBatcher) comes to the queue.  Either hook hands on the
\* reaction it is given; Mattermost gives the second one the reaction as it
\* was, with DeleteAt = 0, and so both batches add it to Matrix.
ToggleReaction(p) ==
    /\ Change(p)
    /\ reacted' = IF p \in reacted THEN reacted \ {p} ELSE reacted \cup {p}
    /\ Enqueue(Job(p, posts[p], "react", "hook"))
    /\ raced' = IF \E j \in Unfinished : j.post = p THEN raced \cup {p} ELSE raced
    /\ dirtyReact' = dirtyReact \cup {p}
    /\ UNCHANGED <<posts, remote, dirty, dirtyFiles, matrix, trackers, said, again, faults>>

-----------------------------------------------------------------------------
(* The shared channel service: one call at a time. *)

ServiceFree == \A j \in Unfinished : j.src # "service"
OwnerOf(f) == CHOOSE p \in Post : f \in FilesOf[p]
InPeace(p) == p \notin dirty /\ ~Busy(p)

\* PendingFileTracker: AddFile drops old files every cleanupFreq additions,
\* GetFiles hands a post's files out and forgets them, RemoveFile forgets one.
CleanupOldFiles == {pending \ old : old \in SUBSET {g \in pending : InPeace(OwnerOf(g))}}
AddFile(f) == /\ adds' = (adds + 1) % CleanupEvery
              /\ \E kept \in IF adds' = 0 THEN CleanupOldFiles ELSE {pending} :
                    pending' = kept \cup {f}
GetFiles(p) == pending \cap FilesOf[p]
RemoveFile(f) == pending' = pending \ {f}

\* OnSharedChannelsAttachmentSyncMsg: upload, then AddFile.
UploadFile(f) ==
    /\ f \in dirtyFiles /\ ServiceFree
    /\ posts[OwnerOf(f)].state = "live"
    /\ dirtyFiles' = dirtyFiles \ {f}
    /\ \/ AddFile(f) /\ UNCHANGED faults
       \/ Fault /\ UNCHANGED <<pending, adds>>
    /\ UNCHANGED <<mattermost, dirty, dirtyReact, matrix, tracker, puts, goroutines, said, raced,
                   again, changes>>

\* deleteFileFromMatrix: RemoveFile, or else a search for a reply to the
\* post's event (m.in_reply_to), which sendFileMessage never makes it.
DeleteFile(f) ==
    /\ f \in dirtyFiles /\ ServiceFree
    /\ posts[OwnerOf(f)].state = "deleted"
    /\ dirtyFiles' = dirtyFiles \ {f}
    /\ RemoveFile(f)
    /\ UNCHANGED <<mattermost, dirty, dirtyReact, matrix, tracker, puts, adds, goroutines, history>>

\* OnSharedChannelsSyncMsg: posts of Matrix users are skipped, except their
\* deletion; SyncPostsToMatrix takes the others one by one.
SyncPosts(p) ==
    /\ p \in dirty /\ ServiceFree
    /\ FilesOf[p] \cap dirtyFiles = {}
    /\ dirty' = dirty \ {p}
    /\ Start(Job(p, posts[p], "post", "service"))
    /\ again' = Again(p, posts[p])
    /\ raced' = IF Sends(posts[p]) /\ Sending(p) THEN raced \cup {p} ELSE raced
    /\ UNCHANGED <<mattermost, dirtyFiles, dirtyReact, matrix, trackers, queue, said, changes, faults>>

\* Reactions come after the posts and go into the batcher once more; those
\* that are gone come with their DeleteAt.  A removal may overtake the hook's
\* addition, which then puts the reaction back.
SyncReactions(p) ==
    LET overtakes == p \notin reacted /\ \E j \in Unfinished : j.post = p /\ j.what = "react"
    IN  /\ p \in dirtyReact /\ p \notin dirty /\ ServiceFree
        /\ dirtyReact' = dirtyReact \ {p}
        /\ Enqueue(Job(p, posts[p], IF p \in reacted THEN "react" ELSE "unreact", "hook"))
        /\ raced' = IF overtakes THEN raced \cup {p} ELSE raced
        /\ UNCHANGED <<mattermost, dirty, dirtyFiles, matrix, trackers, said, again, changes, faults>>

-----------------------------------------------------------------------------
(* Goroutines. *)

Goto(j, pc) == Replace(j, [j EXCEPT !.pc = pc])
unchangedByCalls == <<mattermost, service, said, raced, again, changes>>

\* workerLoop: a free worker takes the oldest task.
TakeTask ==
    /\ queue # <<>>
    /\ BagCardinality([j \in {j \in BagToSet(running) : j.src = "worker"} |-> running[j]]) < Workers
    /\ Start(Head(queue)) /\ queue' = Tail(queue)
    /\ UNCHANGED <<mattermost, service, matrix, trackers, history>>

\* GetUser, GetPost, GetMatrixRoomID, ensureGhostUserInRoom: an error before
\* anything was done ends the job.
FailEarly(j) ==
    /\ j.pc = "begin" /\ Fault /\ Finish(j)
    /\ UNCHANGED <<unchangedByCalls, matrix, trackers, queue>>

\* What the homeserver says of an event (GetEventRelationsAsUser, GetEvent);
\* of the events related to e those with a file, in whatever relation
\* (getFileEventIDsFromMetadata), and those in the relation a post's files
\* have to its first event (getCurrentMatrixFileAttachments).
Related(e) == {i \in DOMAIN room : room[i].target = e /\ ~room[i].redacted}
FileEvents(e) == {i \in Related(e) : room[i].kind = "file"}
PostFiles(e) == {i \in FileEvents(e) : room[i].rel = "post"}
Shown(e) == IF room[e].edited THEN room[e].shown ELSE room[e].text
Served(e) == IF servesEdited THEN Shown(e) ELSE room[e].text
ServesFile(e) == room[e].kind = "file" /\ ~(servesEdited /\ room[e].edited)

\* Mutant: the files of a deleted post are left in the room.
BeginDelete_KeepFiles(j) ==
    LET e == j.copy.eid
        Redacting(evs) == Replace(j, [j EXCEPT !.pc = "redact", !.main = e, !.evs = evs])
    IN  /\ j.pc = "begin" /\ j.what = "post" /\ j.copy.state = "deleted"
        /\ IF e = 0 \/ j.post \in remote
           THEN Finish(j) /\ UNCHANGED faults
           ELSE \/ Redacting({}) /\ UNCHANGED faults
                \/ Redacting({}) /\ Fault
        /\ UNCHANGED <<unchangedByCalls, matrix, trackers, queue>>

\* deletePostFromMatrix: nothing to delete without an event or a ghost.
\* getFileEventIDsFromMetadata: the ghost's file events related to the post's
\* event in any way; if the request fails only the post's event is deleted.
BeginDelete(j) ==
    LET e == j.copy.eid
        Redacting(evs) == Replace(j, [j EXCEPT !.pc = "redact", !.main = e, !.evs = evs])
    IN  /\ j.pc = "begin" /\ j.what = "post" /\ j.copy.state = "deleted"
        /\ IF e = 0 \/ j.post \in remote
           THEN Finish(j) /\ UNCHANGED faults
           ELSE \/ Redacting(FileEvents(e)) /\ UNCHANGED faults
                \/ Redacting({}) /\ Fault
        /\ UNCHANGED <<unchangedByCalls, matrix, trackers, queue>>

\* PostTracker.Get: the update the copy reports is the program's own.
IsEcho(j) == tracker[j.post] = j.copy.at

\* The echo of the program's own UpdatePost ends here, if the tracker knows it.
BeginUpdate(j) ==
    LET p == j.post
    IN  /\ j.pc = "begin" /\ j.what = "post" /\ j.copy.state = "live" /\ j.copy.eid # 0
        /\ tracker' = [tracker EXCEPT ![p] = 0]
        /\ IF IsEcho(j) \/ p \in remote THEN Finish(j) ELSE Goto(j, "compare")
        /\ UNCHANGED <<mattermost, service, matrix, puts, pending, adds, queue, history>>

\* The reactions to a post that has not been synced are not synced either.
BeginReaction(j) ==
    LET now == posts[j.post]
    IN  /\ j.pc = "begin" /\ j.what # "post"
        /\ IF now.state # "live" \/ now.eid = 0 THEN Finish(j)
           ELSE Replace(j, [j EXCEPT !.main = now.eid,
                              !.pc = IF j.what = "react" THEN "annotate" ELSE "find"])
        /\ UNCHANGED <<mattermost, service, matrix, trackers, queue, history>>

\* createPostInMatrix: the event of the thread's root, then GetFiles; nothing
\* to send is an error.
BeginCreate(j) ==
    LET files == GetFiles(j.post)
        root == Root[j.post]
    IN  /\ j.pc = "begin" /\ j.what = "post" /\ Sends(j.copy)
        /\ pending' = pending \ files
        /\ IF j.post \in remote \/ (j.copy.text = 0 /\ files = {}) THEN Finish(j)
           ELSE Replace(j, [j EXCEPT
                  !.thread = IF root # NoPost /\ posts[root].state = "live" THEN posts[root].eid ELSE 0,
                  !.files = files,
                  !.pc = IF j.copy.text = 0 THEN "files" ELSE "text"])
        /\ UNCHANGED <<mattermost, service, matrix, tracker, puts, adds, queue, history>>

\* sendTextMessage, sendFileMessage: the relation to the thread goes before
\* the one to the post's first event.
Message(j, kind, f) ==
    [post |-> j.post, kind |-> kind, text |-> IF kind = "text" THEN j.copy.text ELSE 0, file |-> f,
     rel |-> IF j.thread # 0 THEN "thread" ELSE IF j.main # 0 THEN "post" ELSE "none",
     target |-> IF j.thread # 0 THEN j.thread ELSE j.main,
     main |-> j.main = 0, edited |-> FALSE, shown |-> 0, redacted |-> FALSE]

\* The answer to a PUT is awaited: the event is made and known, refused, or
\* made although the answer is lost.
Made(event)       == room' = Append(room, event) /\ UNCHANGED <<servesEdited, faults>>
Refused           == Fault /\ UNCHANGED matrix
MadeInVain(event) == Fault /\ room' = Append(room, event) /\ UNCHANGED servesEdited

\* sendMattermostPost, the text: an error ends the post.
SendText(j) ==
    LET text == Message(j, "text", NoFile)
    IN  /\ j.pc = "text"
        /\ \/ /\ Made(text)
              /\ Replace(j, [j EXCEPT !.main = Len(room) + 1,
                               !.pc = IF j.files = {} THEN "store" ELSE "files"])
           \/ (Refused \/ MadeInVain(text)) /\ Finish(j)
        /\ UNCHANGED <<unchangedByCalls, trackers, queue>>

\* sendMattermostPost, the files one by one, after errors too; the first event
\* is the post's.  If there is none the post has failed.
SendFile(j) ==
    LET Goon(main, f) == IF j.files = {f} /\ main = 0 THEN Finish(j)
                         ELSE Replace(j, [j EXCEPT !.main = main, !.files = @ \ {f},
                                            !.pc = IF j.files = {f} THEN "store" ELSE "files"])
    IN  /\ j.pc = "files"
        /\ \E f \in j.files :
              \/ /\ Made(Message(j, "file", f))
                 /\ Goon(IF j.main = 0 THEN Len(room) + 1 ELSE j.main, f)
              \/ (Refused \/ MadeInVain(Message(j, "file", f))) /\ Goon(j.main, f)
        /\ UNCHANGED <<unchangedByCalls, trackers, queue>>

\* Mutant: the event id does not get into the props.
Store_NoEventId(j) ==
    LET p == j.post
        c == [j.copy EXCEPT !.at = posts[p].at + 1]
        later == (running (-) SetToBag({j})) (+) SetToBag({[j EXCEPT !.pc = "track", !.copy = c]})
        echo == Job(p, c, "post", "hook")
    IN  /\ j.pc = "store"
        /\ \/ /\ posts[p].state = "live"
              /\ posts' = [posts EXCEPT ![p] = c]
              /\ dirty' = dirty \cup {p}
              /\ IF Len(queue) < QueueSize
                 THEN queue' = Append(queue, [echo EXCEPT !.src = "worker"]) /\ running' = later
                 ELSE running' = later (+) SetToBag({echo}) /\ UNCHANGED queue
              /\ UNCHANGED faults
           \/ /\ Fault \/ (posts[p].state = "deleted" /\ UNCHANGED faults)
              /\ Finish(j)
              /\ UNCHANGED <<posts, dirty, queue>>
        /\ UNCHANGED <<remote, reacted, dirtyFiles, dirtyReact, matrix, trackers, said, raced, again, changes>>

\* UpdatePost writes the copy with the event id over what the post is now;
\* Mattermost reports that as an update. A deleted post cannot be updated.
Store(j) ==
    LET p == j.post
        c == [j.copy EXCEPT !.eid = j.main, !.at = posts[p].at + 1]
        later == (running (-) SetToBag({j})) (+) SetToBag({[j EXCEPT !.pc = "track", !.copy = c]})
        echo == Job(p, c, "post", "hook")
    IN  /\ j.pc = "store"
        /\ \/ /\ posts[p].state = "live"
              /\ posts' = [posts EXCEPT ![p] = c]
              /\ dirty' = dirty \cup {p}
              /\ IF Len(queue) < QueueSize
                 THEN queue' = Append(queue, [echo EXCEPT !.src = "worker"]) /\ running' = later
                 ELSE running' = later (+) SetToBag({echo}) /\ UNCHANGED queue
              /\ UNCHANGED faults
           \/ /\ Fault \/ (posts[p].state = "deleted" /\ UNCHANGED faults)
              /\ Finish(j)
              /\ UNCHANGED <<posts, dirty, queue>>
        /\ UNCHANGED <<remote, reacted, dirtyFiles, dirtyReact, matrix, trackers, said, raced, again, changes>>

\* PostTracker.Put: when it is full old entries are dropped and, if that was
\* not enough, the new one refused; every cleanupFreq puts they are dropped.
\* A cleanup resets the counter.
Tracked(T) == {p \in Post : T[p] > 0}
CleanupOldEntries(T) ==
    {[p \in Post |-> IF p \in old THEN 0 ELSE T[p]] : old \in SUBSET {p \in Tracked(T) : InPeace(p)}}
Full(T) == Cardinality(Tracked(T)) >= MaxTracked
\* Mutant: the limit on entries is not looked at.
Track_Unlimited(j) ==
    /\ j.pc = "track"
    /\ tracker' = [tracker EXCEPT ![j.post] = j.copy.at]
    /\ puts' = (puts + 1) % CleanupEvery
    /\ Finish(j)
    /\ UNCHANGED <<mattermost, service, matrix, pending, adds, queue, history>>

Track(j) ==
    LET count == IF Full(tracker) THEN 0 ELSE puts
    IN  /\ j.pc = "track"
        /\ \E T \in IF Full(tracker) THEN CleanupOldEntries(tracker) ELSE {tracker} :
              IF Full(T) THEN tracker' = T /\ puts' = count
              ELSE /\ puts' = (count + 1) % CleanupEvery
                   /\ LET added == [T EXCEPT ![j.post] = j.copy.at]
                      IN  tracker' \in IF puts' = 0 THEN CleanupOldEntries(added) ELSE {added}
        /\ Finish(j)
        /\ UNCHANGED <<mattermost, service, matrix, pending, adds, queue, history>>

\* isMatrixContentIdentical: with files it only is for a post without a text
\* whose event still has the name of one as its body; else the files are
\* compared with their URIs, which are not known any more.
IsIdentical(c, files) ==
    /\ ~room[c.eid].redacted
    /\ IF files = {} THEN Served(c.eid) = c.text /\ ~ServesFile(c.eid) /\ PostFiles(c.eid) = {}
       ELSE c.text = 0 /\ ServesFile(c.eid) /\ room[c.eid].file \in files

\* updatePostInMatrix: GetFiles, GetFileInfo, GetEvent; the files that were
\* pending are compared and never sent.
Compare(j) ==
    LET files == IF GetFiles(j.post) = {} THEN FilesOf[j.post] ELSE GetFiles(j.post)
    IN  /\ j.pc = "compare"
        /\ pending' = pending \ GetFiles(j.post)
        /\ \/ (IF IsIdentical(j.copy, files) THEN Finish(j) ELSE Goto(j, "edit")) /\ UNCHANGED faults
           \/ Fault /\ Goto(j, "edit")
        /\ UNCHANGED <<unchangedByCalls, matrix, tracker, puts, adds, queue>>

\* EditMessageAsGhost.
Edit(j) ==
    /\ j.pc = "edit"
    /\ \/ /\ room' = [room EXCEPT ![j.copy.eid].edited = TRUE, ![j.copy.eid].shown = j.copy.text]
          /\ UNCHANGED <<servesEdited, faults>>
       \/ Refused
    /\ Finish(j)
    /\ UNCHANGED <<unchangedByCalls, trackers, queue>>

\* removeReactionFromMatrix: the first matching reaction of the ghost.
FindReaction(j) ==
    LET found == {i \in Related(j.main) : room[i].kind = "reaction"}
    IN  /\ j.pc = "find"
        /\ \/ /\ IF found = {} THEN Finish(j)
                 ELSE \E i \in found : Replace(j, [j EXCEPT !.pc = "redact", !.main = i])
              /\ UNCHANGED faults
           \/ Fault /\ Finish(j)
        /\ UNCHANGED <<unchangedByCalls, matrix, trackers, queue>>

\* RedactEventAsGhost for the files' events, after errors too, then for the
\* post's own or the reaction.
Redact(j) ==
    /\ j.pc = "redact"
    /\ \E e \in IF j.evs = {} THEN {j.main} ELSE j.evs :
          /\ IF e \in j.evs THEN Replace(j, [j EXCEPT !.evs = @ \ {e}]) ELSE Finish(j)
          /\ \/ room' = [room EXCEPT ![e].redacted = TRUE] /\ UNCHANGED <<servesEdited, faults>>
             \/ Refused
    /\ UNCHANGED <<unchangedByCalls, trackers, queue>>

\* SendReactionAsGhost: homeservers refuse a second equal annotation.
Annotate(j) ==
    LET reaction == [post |-> j.post, kind |-> "reaction", text |-> 0, file |-> NoFile,
                     rel |-> "annotation", target |-> j.main, main |-> FALSE, edited |-> FALSE,
                     shown |-> 0, redacted |-> FALSE]
    IN  /\ j.pc = "annotate"
        /\ \/ IF reaction \in Range(room) THEN UNCHANGED <<matrix, faults>> ELSE Made(reaction)
           \/ Refused
        /\ Finish(j)
        /\ UNCHANGED <<unchangedByCalls, trackers, queue>>

\* The plugin process dies; the service repeats the call it got no answer to.
Crash ==
    /\ Fault
    /\ running' = EmptyBag /\ queue' = <<>>
    /\ tracker' = [p \in Post |-> 0] /\ pending' = {} /\ puts' = 0 /\ adds' = 0
    /\ dirty' = dirty \cup {j.post : j \in {j \in Unfinished : j.src = "service"}}
    /\ UNCHANGED <<mattermost, dirtyFiles, dirtyReact, matrix, said, raced, again, changes>>

-----------------------------------------------------------------------------
RoomForMore == BagCardinality(running) + Len(queue)
                 < MaxJobs[Cardinality({p \in Post : posts[p].state # "none"})][changes + faults]
Users == \E p \in Post : \/ \E t \in Text : CreatePost(p, t) \/ CreateRemotePost(p, t) \/ EditPost(p, t)
                         \/ DeletePost(p) \/ ToggleReaction(p)
Service == \/ \E f \in File : UploadFile(f) \/ DeleteFile(f)
           \/ \E p \in Post : SyncPosts(p) \/ SyncReactions(p)
Goroutine(j) ==
    \/ FailEarly(j) \/ BeginDelete(j) \/ BeginUpdate(j) \/ BeginReaction(j) \/ BeginCreate(j)
    \/ SendText(j) \/ SendFile(j) \/ Store(j) \/ Track(j)
    \/ Compare(j) \/ Edit(j)
    \/ FindReaction(j) \/ Redact(j) \/ Annotate(j)
Next == (RoomForMore /\ (Users \/ Service)) \/ TakeTask \/ Crash \/ \E j \in BagToSet(running) : Goroutine(j)
Spec == Init /\ [][Next]_vars

-----------------------------------------------------------------------------
(* Properties. *)

AtRest == Unfinished = {} /\ dirty = {} /\ dirtyFiles = {} /\ dirtyReact = {}
Sent(p) == {i \in DOMAIN room : room[i].post = p /\ room[i].kind \in {"text", "file"}}
Mains(p) == {i \in Sent(p) : room[i].main}
Visible(I) == {i \in I : ~room[i].redacted}

\* The event of a live post: the one its props name, the only one, with the
\* text the user gave it.  A homeserver that serves the original content of an
\* edited event misleads the comparison when the text comes back to it.
LiveShown(p) ==
    LET e == posts[p].eid
    IN  /\ Visible(Mains(p)) = {e}
        /\ posts[p].text = said[p]
        /\ Shown(e) = said[p] \/ (~servesEdited /\ room[e].text = said[p])

\* The files of a reply are related to the thread, not to the reply, and are
\* not found when it is deleted.
DeletedGone(p) == \A i \in Visible(Sent(p)) : ~room[i].main /\ room[i].rel = "thread"

ReactionShown(p) ==
    p \in reacted <=> \E i \in DOMAIN room : room[i].kind = "reaction" /\ room[i].target = posts[p].eid
                                                /\ ~room[i].redacted

\* When nothing is left to do, no call failed, nobody touched a post while a
\* job was about it and no removal of a reaction overtook an addition, the room
\* shows the channel: each live post of a Mattermost user once with its last
\* text, the reaction if and only if it is there, nothing of a deleted post.
\* It covers the echo of UpdatePost, both ways of delivery, the hook that adds
\* a reaction that is gone, the full tracker and edits in any order with the
\* service.
Converges ==
    AtRest /\ faults = 0 =>
        \A p \in Post \ raced :
            /\ posts[p].state = "live" /\ p \notin remote => LiveShown(p)
            /\ posts[p].state = "live" => ReactionShown(p)
            /\ posts[p].state = "deleted" /\ p \notin remote => DeletedGone(p)

\* A post is in the room once, and once more for each job that was issued to
\* send it before the event id of an earlier one was stored and for each
\* failure; a post of a Matrix user is never sent or edited.
DuplicateBound ==
    \A p \in Post :
        /\ Cardinality(Mains(p)) <= 1 + again[p] + faults
        /\ p \in remote => \A i \in DOMAIN room :
              /\ room[i].post = p => room[i].kind = "reaction"
              /\ i = posts[p].eid => ~room[i].edited

\* However often its post is sent, a file is: GetFiles hands it to one job.
FileOnce == \A f \in File : Cardinality({i \in DOMAIN room : room[i].file = f}) <= 1

SentOnce == DuplicateBound /\ FileOnce

\* README.md:16: "Full support for formatting, emoji reactions, threads, and
\* file attachments". A post that the hook sends before its files are uploaded
\* never gets them: the next job takes it for an edit and only compares them.
FilesArrive ==
    AtRest /\ faults = 0 =>
        \A p \in Post : posts[p].state = "live" /\ p \notin remote =>
            \A f \in FilesOf[p] : \E i \in DOMAIN room : room[i].file = f
=============================================================================
