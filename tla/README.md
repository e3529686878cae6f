# A verification project for the Mattermost–Matrix bridge

TLA+ models of the Mattermost plugin in `src/server`, checked with TLC on small
instances and, for the worker pool, the webhook's intake, the name cache, the room mapping,
the rate limiter, the ghosts, the migrations and the team spaces, proved with TLAPS for every
instance.

Contents: [inventory](#the-system), [modules and their code](#modules-and-code),
[runs](#runs), [fairness](#fairness), [proofs](#proofs),
[assumptions](#assumptions-and-limits), [what the models show of the code](#what-the-models-show-of-the-code),
[not modelled](#not-modelled), [plan](#plan).

## The system

The plugin connects Mattermost channels with Matrix rooms. Mattermost calls its
hooks (each in a goroutine of its own) and its shared channel service delivers
changes one after the other; the Matrix homeserver sends it events as an
application service; administrators type slash commands. Everything durable is in
the plugin's key-value store, in the props of posts and in Matrix room state;
everything else is lost when the process ends.

| Component | State | Operations | Properties that make it correct |
|---|---|---|---|
| Event queue, `queue.go` | buffered channel, stop channel, workers | `Enqueue`, worker loop, `processTask`, `Stop` | first in first out hand-over, one execution at most, a refused task is nowhere, bounded overtaking, `Stop` waits and ends |
| Webhook, `matrix_webhook.go`, `api.go` | `processedTransactions` | check, mark, submit, answer, cleanup | one execution per event short of a crash or an overlap, nothing answered is forgotten, near-order |
| Reaction batcher, `batcher.go`, `hooks.go` | `items`, `timers`, goroutines of fired timers | `Add`, `Flush`, `FlushAll`, `processReactionBatch` | batches partition the reactions of a post, none stranded, lost or sent twice |
| Lifecycle, `plugin.go` | the components | `OnActivate`, `OnDeactivate` | `OnDeactivate` ends; what it leaves undone |
| Cache, `cache.go` | map and list of entries | `Get`, `Set`, `Delete`, `Clear`, `EvictExpired` | never an old, replaced or deleted value; evicts the least recently used |
| Room mapping, `bridge_utils.go`, `plugin.go`, `command/command.go`, `sync_to_matrix.go`, `matrix_webhook.go` | forward and reverse keys, room state event, cache | lookup, DM creation from either side, map, create, join, unmap, hook | bounded staleness, the two directions agree, rooms lead back |
| Team spaces and channel rooms, `plugin.go`, `command/command.go`, `matrix/client.go` | team, channel and room keys; rooms, aliases, space children | team and channel hooks, `/matrix create`, backfill | a room leads to its own channel, private channels stay hidden, a backfill bridges what it should |
| Migrations, `migrations.go` | KV store, version | two versions, page by page | nothing forgotten at any failure or crash, administrators' mappings stay |
| Posts to Matrix, `sync_to_matrix.go`, `hooks.go`, `post_tracker.go` | event ids in post props, post tracker, pending files | create, update, delete, react | one Matrix message per post, edits and deletions reach it, no echo |
| Events to Mattermost, `sync_to_mattermost.go` | event-to-post keys, user keys | post, edit, redact, react, member, create user | everything comes from the event and the user it should; edits and redactions find their post |
| Ghost users, `sync_to_matrix.go`, `matrix/client.go`, `hooks.go` | ghost, mirror and membership keys, two caches | create, profile, map_user, invite, join | a ghost is a member when it speaks, identities stay, profiles settle |
| Rate limiter, `matrix/ratelimit.go` | tokens, time of last refill | `Allow`, `getWaitTime`, `Wait` | never more than burst plus rate, no capacity unused, waiters end |
| Retry helper, `matrix/retry.go` | – | `withRetry` | not called by the program |
| Configuration, metrics, logging, formatting, emoji | – | – | not modelled |

How they interact: the webhook and the hooks put tasks into the event queue and
do the work themselves when it is full; the batcher stands between the reaction
hooks and the queue; tasks look rooms up through the cache and the store, find or
make ghosts, and wait for the rate limiter before each request; what one direction
writes comes back as an event or an update of the other; commands and hooks change
the store behind the cache; migrations rewrite the store before the bridges
exist, and again on `/matrix migrate`.

What is hard: four workers that reorder what one channel handed out in order; one
change reported on two ways; a timer that cannot be stopped once it has fired;
checks and marks in different critical sections; answers given for work that is
only in memory; a cache filled with what was read a moment ago; several writes of
which one may fail; a listing whose keys change while it is paged; aliases made
by joining names. `PROJECT.json` lists each at its line.

## Modules and code

`EventQueue` — `queue.go`. `taskChan` is a sequence of at most `BufferSize` tasks.
`Enqueue` is the `select` with its two cases `EnqueueSend` and `EnqueueFull`;
`WorkerReceive`, `ProcessTask` and `WorkerExit` are the worker loop, whose
`select` takes either ready case; `Stop` and `StopReturn` are the two halves of
`Stop`. `accepted` and `received` record the order of events for the properties.

`TaskPool` — what callers may expect of the pool: refused or accepted, at most one
execution, none after it is down. `EventQueue!ImplementsPool` is the refinement.

`MatrixIntake` — `handleMatrixTransaction` and `MatrixAuthorizationRequired`, on an
instance of `EventQueue`. Each delivery is a request whose handler goes through
`CheckDuplicate`, `MarkProcessed`, `SubmitEvent` (with `ExecuteInHandler` when the
queue is full) and `Answer`. The homeserver (`Send`, `SeeOk`) and crashes of the
process are external; a delivery begun while another is in its handler is a mishap.
Authentication and malformed requests that change nothing are left out; `BadBody`
is in because it comes between the check and the mark.

`ReactionBatcher` — `batcher.go`, `processReactionBatch` and `OnDeactivate`. It extends
`EventQueue`, whose tasks include the batches, and its actions take the queue's along
(`OnFlush` calls `Enqueue`, `BatchWorkerStep` is a worker's step). `callbacks` counts the goroutines of timers that have
fired and not yet taken the mutex; `Take` is `Flush` up to its unlock and
`OnFlush` what it does afterwards, so flushes interleave as in the code. An add
and a remove of a reaction are both an `Add`: the batcher does not look inside.

`LruCache`, `TtlMap` — `cache.go` and what its users rely on. The mutex makes each
method one step. `items` holds the keys; the list element a key points to is
found by its key, which `MapMatchesList` shows to be unique. `recency` and `latest` are
history: the keys in the order of their last use, and what was last set under each.

`RoomMapping` — the forward keys, the reverse keys, the room's state event and the
cache (a `TtlMap`, which `LruCache` implements). Readers are hooks and workers in
`GetMatrixRoomID` and `getOrCreateDMRoom`; actors are commands, the channel hook
and the Matrix side of a DM. Every store, cache and homeserver call is a step.
`CmdForward`, `CmdReverse` and `CmdRoomID` stand for the writes of `/matrix map`;
`/matrix create`, `/matrix join`, `ChannelHasBeenCreated` and the Matrix-initiated DM
share them with the differences of the code (only the hook and join go on when the
forward key cannot be written; only map and join resolve an alias; only the bridge's
own DM path writes the cache). `JoinCommand` also starts the `Hook`, the goroutine in
which the server calls `ChannelHasBeenCreated` for the channel that join makes, and
both map it. `shared` is history: a channel was given a room that another channel had or
was just being given, after which rooms cannot be expected to lead back to both.

`Migrations` — `migrations.go` and `executeMigrateCommand`. The store is a record of
functions, one per prefix; a run is a loop over phases, pages and keys with each
write a step. `Page` is `ListKeysWithPrefix`: a page of *all* keys of the plugin, from which
those without the prefix are dropped (`startertemplate.go:72`, pluginapi's `WithPrefix`), so it may
hold fewer keys of the prefix than remain. `Position` is a key's place among all keys in their order,
`others` how many keys of other kinds (ghosts, teams, events, the version) come before
those of each loop. `promise` is history: the keys that a run can be expected to come to
(`WithinReach`), those on the store's first page and, for users and channels, all of them when no
other key is listed before theirs.

`PostSync` — the way of a post, its files and its reactions to Matrix. `posts`,
`dirty`, `dirtyFiles` and `dirtyReact` are Mattermost and what its shared channel
service has still to deliver; `room` is the Matrix room, an event's id its index.
`tracker` and `pending` are `PostTracker` and `PendingFileTracker` with the counters
that start their cleanups. A *job* is one call of a hook, a task or a delivery; it
carries the copy of the post made when it was issued, decides from that copy
whether to send (`BeginCreate`, `SendText`, `SendFile`, `Store`, `Track`), edit
(`BeginUpdate`, `Compare`, `Edit`) or delete (`BeginDelete`, `Redact`), and
interleaves with other jobs at each of its calls. `UpdatePost` (in `Store`) reports
an update of its own, the echo. Both reaction hooks enqueue an addition (`ToggleReaction`), also when
the reaction was removed: `hooks.go:50` hands it on as it is, with a `DeleteAt` of 0, and
`sync_to_matrix.go:845` decides by that. Only the service, which gives removed reactions with
the time of their deletion, removes (`SyncReactions`).

`MatrixToMattermost` — the events of a Matrix room on their way to Mattermost. The
`inbox` hands events over in order; `job[w]` is what worker `w` does with its event. A job
looks the sender up and creates, renames and maps the Mattermost user (`LookUp`
to `MapUser`), then posts, edits, reacts, redacts or changes the membership,
each access of the store and each Mattermost call a step. Of a lookup that fails the
model follows what the code does next: a mapping that cannot be read, or a user that cannot, makes
a second user (`LookUp`), a parent that cannot be found makes an answer a post of
its own (`CreatePost`). Post 1 is one the other direction has sent as event 1.

`GhostUsers` — `CreateOrGetGhostUser`, `ensureGhostUserInRoom`, `SyncUserToMatrix`,
`GetMatrixUserID` in mirror mode, the user hooks and `/matrix map_user`. A *slot* is a goroutine
at work; `LookInCache`, `LookInStore`, `ReadUser`, `Register`, `SetDisplayName`,
`SetAvatar`, `Store` find or make the identity, `MemberInCache` to `Record` bring it
into the room (join, or an invitation and a join, by the room's join rule), `Send`
is the moment it speaks.

`TeamSpaces` — `TeamHasBeenCreated`, `ChannelHasBeenCreated`, `SyncTeam`, `SyncChannel`,
`/matrix create` with its member sync, `/matrix backfill`, `CreateSpace`, `CreateRoom`
and `AddSpaceChild`. Names are sequences of words and an alias is the joined
sequence: two pairs of team and channel may ask for one alias, as slugs may.
What is stored is an *identifier*, an alias with a domain: the hook and the backfill take it from
`MatrixServerDomain`, `/matrix create` from the host of the server's URL (`Domain`), and only
that of the homeserver's own name leads to a room (`Resolves`). A command publishes its room or
not whatever name it is given; `asked` remembers which channels a command asked for, and how.
`RoomMapping` asks where lookups lead while mappings change; `TeamSpaces` asks which
rooms come to be.

`TokenBucket` — `matrix/ratelimit.go` with the limits of every mode. Time is in ticks
of 0.1 s and a token in ten-thousandths, so every rate of the code is a whole number.
`Allow`, `Measure` (`getWaitTime`), `WakeUp` and `GiveUp` are the loop of `Wait`.

`MC…` modules hold the instances, `QueueAndBatcherProofs`, `HomeserverProofs` (of `MatrixIntake`
and `TokenBucket`, which is why the names that both need begin with `Limiter` in the latter),
`StoreProofs` (of `LruCache` and `Migrations`), `RoomMappingProofs`, `GhostUsersProofs`,
`TeamSpacesProofs`, `PostSyncProofs` and `MatrixToMattermostProofs` the proofs. Operators whose name contains an underscore
(`WorkerReceive_Lifo`) are faulty variants of the definition after them; each property is known to fail when one of
them takes its place.

The conventions are the same throughout: `faults`, `MaxMishap` and `MaxChange` bound the
environment, never the program; `raced`, `again`, `untidy`, `kept`, `asked`, `extra`,
`promise` and their like are history that no guard of the program reads; a job that fails ends
as the code's early return does, after whatever it had done.

## Runs

| Run | Bounds | Shows |
|---|---|---|
| `event_queue` | 4 tasks, 2 workers, buffer 2 | `FifoHandOver`, `SinglePlace`, `OvertakeBound`: order and single execution; `Ends`: accepted tasks are executed unless `Stop` comes, and `Stop` returns; `ImplementsPool` |
| `matrix_intake` | 2 transactions of 2 events, 3 deliveries, 1 worker, buffer 1, 2 crashes or overlaps | `ExecutionBound`: an event is executed at most once more for each crash and overlap, and an answered event is lost only by a crash; `NearlyInOrder`: by how much events are reordered |
| `reaction_batcher` | 3 reactions on 2 posts, 1 worker, buffer 1 | `NoStrandedBatch`, `InOneBatch`, `BatchOrderKept`; `BatcherEnds`: reactions are synced unless the plugin is deactivated, and deactivation ends |
| `lru_cache` | 3 keys, 2 values, capacity 2, TTL 1, clock to 3 | `EvictsOldest`: map and list agree, the least recently used goes; `ImplementsTtlMap` |
| `migrations` | 6 stores, none or one other key before the users' and second DM loop's, page of 2, 3 runs, 2 faults | `MappingsKept` at every failure and crash; `CleanRun`: what a clean run achieves for the keys within its reach |
| `room_mapping` | 2 channels (one a DM), 3 rooms, 2 aliases, 2 readers, 1 command, 1 fault, 2 instants | `BoundedStaleness`, `RoomsLeadBack` |
| `rate_limiter` | 3 callers, 5 calls, every mode, 140 ticks, 1 hold-up | `BurstBound`, `LimitIsExact`, `WaitEnds` |
| `outgoing` | a post and its reply, a file each, 1 worker, queue of 1, tracker of 1, 2 changes, 1 fault | `Converges`: the room shows the channel; `SentOnce`: how often a post and a file may be sent |
| `outgoing_files` | the same without changes | *violation*: attachments of a post the hook sent first never arrive |
| `incoming` | 2 senders with one base name, 2 workers, 4 events and mishaps, 2 at once | `Provenance`, `Converges` |
| `ghosts` | 1 user, 2 goroutines, 3 jobs, 1 change (none in mirror mode), 1 mishap, 2 rooms | `SpeakerIsMember`, `IdentityKept`, `ProfileSettles` |
| `spaces` | 2 teams, 2 channels, 2 names, 3 members, pages of 1 and 2, 2 goroutines, 2 jobs, 1 mishap | `OwnRooms`, `Settled` |

Each run also checks its module's `TypeOK` (`BatcherTypeOK` of the batcher, `CacheTypeOK` of the
cache, `LimiterTypeOK` of the rate limiter).

Why the bounds are enough.

- *Queue*: a buffer of two and four tasks give a full buffer, two tasks held at once
  and a refused one; overtaking needs two workers.
- *Intake*: a buffer of one and two events per transaction make the handler execute
  an event itself; three deliveries allow a repetition, an overlap and a repetition
  after a crash. `CleanupEvery` is 2 in place of 100: a cleanup starts at some marks
  and not at others, and runs late.
- *Batcher*: the third reaction may join the first one's batch or open a second batch
  of the post, which gives late timers a batch to steal.
- *Cache*: one key more than fits. *Migrations*: three DMs with a page of two; stores
  with shared users, stale reverse keys and an alias beside its own room ID. What is listed before a
  loop's keys, the other mappings among it, changes from run to run, so a page may be full,
  short or empty while keys remain, and a run may come to what an earlier one left.
- *Room mapping*: two readers and one command reach the races between lookup and
  change and between two DM creations; the store a run starts from may hold a mapping
  already, so the command may be a second one. TTL is 0 and the clock has two instants:
  the cache is fresh or stale, and its own module covers the rest. Readers and
  interchangeable DM rooms are symmetric; all runs with symmetry check only invariants.
- *Rate limiter*: three callers make overtaking possible; 140 ticks and pauses of up to
  66 refill the buckets and, with the interval of the testing mode, reach the deadline
  of 300 ticks from several starts.
- *Outgoing*: both ways report each change, so two jobs on one post are the normal case;
  a tracker of one entry is full at the second post; a cleanup starts at every put. The
  number of unfinished jobs is bounded by `MaxJobs`, by how many posts there are and how many
  changes and faults there were: two while the first post is alone and unchanged, or with its
  second change or fault, otherwise one. Users and the service then wait, while the jobs a job starts
  (the echo of `UpdatePost`) always come. Two changes are an edit and its repetition, an edit
  and a deletion, or two toggles of the reaction.
- *Incoming*: four events and mishaps are a message, its answer, an edit or reaction and
  its redaction, or three of them and a repetition or a crash; two jobs at once race on
  everything. Two senders with one base name compete for it. An answer in a deleted
  thread is lost, and what answers *that* begins a thread: this takes six events (a message, its
  answer, the redaction, two more answers, and event 1), and `Converges` holds with six
  events of one sender and one worker too.
- *Ghosts*: a room in which a join is refused until the bridge invites, without mirror
  mode, and a public one to which it may not invite, with mirror mode and no changes. Three jobs are two
  that race and one that comes after. *Spaces*: team `eng` with channel `ops-bot` and
  team `eng-ops` with channel `bot` ask for the same alias; with a page of one channel a
  backfill takes several pages; a backfill and a hook, or two hooks, run at once. The
  run is without mirror mode; the same run holds with it. `MatrixServerDomain` is the homeserver's
  name, `example.com`, and the URL's host is `matrix.example.com`, the delegated homeserver for which
  the setting exists: the hook's identifiers resolve, those of `/matrix create` do not.

Deadlock is not an error in the runs that say so: a plugin without work, or one
that has been deactivated, stops. The cache never stops.

### What the violation says

`outgoing_files`: `MessageHasBeenPosted` sends a post at once, while the shared channel
service uploads its attachments later. The service's own job for that post finds the
event id in the props and takes it for an edit: it takes the pending files out of the
tracker (`sync_to_matrix.go:704`), compares them and edits the text only. The files
never reach the room, against `README.md:16` and `docs/BRIDGE_OVERVIEW.md:17`.

## Fairness

Weak fairness of every goroutine that has a step: workers, flushers, timers that are
armed, `OnDeactivate` once begun, and in `TokenBucket` each caller's own steps and the
clock, which goes on to the next timer. The Go scheduler runs every runnable
goroutine. That `Execute` returns is part of it: each HTTP request has a timeout of 30 s
and each wait for a rate limiter one of 30 s, which `WaitEnds` shows to be enough.
Nothing is assumed of the environment: no hook is ever called, no delivery repeated and
no deactivation begun because of fairness.

The other modules state safety only. What they say of the end (`Converges`,
`ProfileSettles`, `Settled`) is said of states in which nothing is left to do, which needs
no fairness; that such a state is reached rests on the queue's `Ends` and on jobs
being straight-line code.

## Proofs

`QueueAndBatcherProofs` proves of `EventQueue`, for every set of tasks, every finite set of workers
and every buffer size of at least 1 (`EventQueueAssumption`; `NoTask` is not a task):

- `TypeCorrect`, `FifoHandOverAlways`, `SinglePlaceAlways`: invariants of the run
  `event_queue`; `StoppedIsQuietAlways`: when `Stop` has returned, no worker is left;
- `OvertakeBoundAlways`: an ended task has overtaken fewer tasks than there are workers;
- `QueueImplementsPool`: the refinement of `TaskPool`.

The inductive invariant `IInv` is the conjunction of these invariants with
`Accountable`. None is inductive alone: that a received task is held by nobody
else needs that the buffer has no duplicates, this needs that an accepted task is
not submitted again, and that needs that whatever is buffered, held or ended is in
`accepted` (`Accountable`). `FifoHandOver` ties the three sequences together.
`Accountable` also ties `stopChan` to the progress of `Stop`, without which a step
of a worker after `Stop` returned could not be excluded. There is one lemma per
action; sequence facts (`InAppend`, `InTail`, `MoveHead`) come first. For the
refinement, `StatusOf` says how the status of a task follows from its place, and
one lemma per action shows that exactly one task moves one step.

`OvertakeBound` counts, and a count is not inductive. `InOrder` says what it comes from: no
task is accepted twice, a task handed out has ended or is with a worker, and once a task has
ended there is a worker with nothing older (`MovedOn`), the one that executed it, since
whatever it takes later is younger. The unfinished tasks before an ended one are then held
one each by the *other* workers, an injection, of which the library knows the cardinality.

Of `ReactionBatcher`, for any posts, any number of reactions on them, and any queue whose tasks
include the batches (`ReactionBatcherAssumption`; with no reactions this asks nothing of the
queue, so that the theorems above are about any tasks), it proves:

- `ReactionBatcherTypeOK`: the types, with the number of callbacks that are under way;
- `ReactionBatcherNoStrandedBatch`: a batch that gathers has a timer, and a timer that has
  fired has a flush on its way;
- `ReactionBatcherInOneBatch`: the flushes cut the reactions of a post into consecutive
  batches, and every reaction was sent once or is in exactly one batch that somebody has;
- `ReactionBatcherBatchOrderKept`: two reactions of a post are only sent in the wrong order
  if a batch that was handed over begins between them;
- `ReactionBatcherRunsQueue`: whatever the batcher does is a behaviour of the queue, so
  that all theorems on the queue hold of it.

The last comes first in the proof: each step of the batcher is a step of the queue or leaves
it alone (`BatcherUsesQueue`), so `IInv` is part of the batcher's invariant (`BatcherInv`)
without further work. A bound on the callbacks is not inductive, as a timer
that is deleted may be armed again: every callback was paid for by an `Add` of its own
(`TimersPaid`). Where the reactions are follows from `Contents`: what gathers is newer than all
that was taken of the post (`Newer`), though late timers and `FlushAll` take batches in any order;
two batches of a post do not interleave (`Apart`), so that a batch named by its first
reaction cannot share one with another; and none is forgotten (`Somewhere`). `InHands` says who
has a batch that is not sent to its end: the flusher before or after `Enqueue`, the buffer or a
worker. For this the queue's `SinglePlace` is needed: a worker that lets go of a batch must not
leave another holding it. For the order, the property speaks only of what was sent;
`Overtaken` adds what is still to be sent, since a reaction is overtaken before it is
sent, and `ExecutorWasHanded` shows that whoever executes a batch has it from the queue or was
refused by it.

`HomeserverProofs` proves of `MatrixIntake`, for any number of transactions, events in each, deliveries,
crashes and overlaps, any finite set of workers and every buffer size of at least 1
(`MatrixIntakeAssumption`):

- `MatrixIntakeTypeOK`: the types, of the queue inside it too;
- `MatrixIntakeExecutionBound`: an event is executed at most once more than there were crashes
  and overlaps; an acknowledged event is not lost without a crash, and the crashes lose at
  most what the pool holds for each of them and one transaction for each overlap;
- `MatrixIntakeNearlyInOrder`: without a crash, an event that ended overtook at most what the
  pool holds and one transaction for each overlap.

`Formed` is what handlers and tasks know of each other: the pool has only what its handler
has gone past. For the executions, `Due` adds to those begun the requests that may still
begin one (`Pending`): a delivery of a forgotten transaction adds a request, so `RunsOK`
keeps one in reserve while the homeserver may send it (`Open`); a crash returns all of them.
For the losses, `Whereabouts` says where each event of a settled transaction is: ended, in the
pool, or with a handler that has not come to it (`Held`), which needs that a recorded
transaction has a handler until it is settled (`Marked`), that a handler leaves nothing
unsafe behind (`Passed`) and that what ended was gone past (`Ended`). `Few` bounds what is
*dropped*, settled but nowhere: an overlap makes room for one transaction, which is in
reserve while two handlers have it (`Crowded`) and is used up when the one answers for the
other. All actions but the crash are described by what they have in common (`Goes`).

The proof corrected the property. It first allowed *one* transaction to be lost ahead of its
handler however many overlaps there were; that held on the run's instance, but with three
events in a transaction and four deliveries two transactions can be answered ahead before
one crash. The bound is one transaction for each overlap (`AnsweredAhead`).

`StoreProofs` proves of `LruCache`, for any keys and values, every capacity (0 included), time to live
and bound of the clock (`LruCacheAssumption`):

- `LruCacheTypeOK`: never more entries than the capacity;
- `LruCacheEvictsOldest`: map and list hold the same keys, none twice, and are in the order
  of last use, so that what a full cache evicts is the key used least recently;
- `LruCacheRefines`: every method is a step of `TtlMap`.

That the list is in the order of use is not inductive by itself, because eviction and expiry
take elements from its end and from its middle: the invariant (`LruCacheInvariant`) says that
the list is a *part* of the whole history of uses, in its order (`Follows`, by an increasing
map of positions), that no key comes twice in either, and that each element is what was last
set under its key (`Fresh`). That map and list have the same number of elements is
proved by a least counterexample, since induction is out of reach. For the refinement there is
one lemma per method.

`RoomMappingProofs` proves, for any channels, rooms and aliases, any number of goroutines and
commands, any time to live and any bounds, from any store in `Stored`
(`RoomMappingAssumption`; the room a join takes is not one the bridge makes):

- `RoomMappingTypeOK`: the types;
- `RoomMappingBoundedStaleness`: a lookup answers the present mapping, one that was replaced
  at most a time to live ago, or nothing after a failed read;
- `RoomMappingRoomsLeadBack`: without failures and shared rooms, a mapped room and each room
  opened for a DM leads back to its channel, or somebody is about to see to it.

Types need to know what a command or lookup holds at each step (`Typed`), and that two
changes of one channel are join and its hook (`Apart`). Staleness follows from `Recent`:
what a lookup carries to the cache was the mapping at this instant, what the cache holds was
the mapping when it was read, and whatever is replaced is remembered in `gone`; so the
entry's expiry bounds the age of the answer. The third has two halves. `Ownership`
says who has a room: a channel *claims* the rooms it is mapped to, is being given or is
losing; without sharing no room is claimed twice (`Exclusive`), claimed rooms exist, so that a
room just made is nobody's (`Existing`), and no command knows a room a lookup is
creating (`Secluded`). `Settlement` says that the stored identifier of a channel leads back or that
the goroutine that wrote it has yet to write the way back (`LeadsBack`), that a room made with
a state event names its channel (`Names`), and that an unmap removes what it read or what a DM
put in its place (`Unmapping`): otherwise it could take away the reverse key of a mapping
it leaves. Each action is described once by what it does to the records (`…Steps`), and
the two halves are followed through three classes of steps: those that leave the store alone
(`Quiet`), those that go on with a change (`Onward`) and those that begin one (`Beginning`).

`HomeserverProofs` also proves of `TokenBucket`, for every set of callers, every choice of configurations,
any number of calls and unbounded time:

- `TokenBucketTypeOK`: the tokens stay between none and the burst;
- `TokenBucketBurstBound`: in no window of time pass more calls than the burst and what
  the rate adds meanwhile;
- `TokenBucketLimitIsExact`: calls are an interval apart, and a call fails only when the
  grants since it began, and one more, are all that the rate gives in its 30 seconds.

The burst bound is not inductive as it stands, since it speaks of windows that have ended and
the bucket only knows the present. The strengthening says of every recorded grant that
the calls since then, together with the tokens that are left, fit into the burst and what
has been refilled since that grant. A refill adds to both sides, the cap only takes
away, a grant takes a token and adds a call. That each configuration is made of buckets
with a rate or an interval, never both, is a lemma by cases on the mode.

For a call that gives up, `WInv` says what each waiting call can rely on, whoever comes in
between (`Waiting`): the grants since it began and the tokens left account for all the time
that was credited, and it lags behind by less than one grant and one tick (`KeepsPace`); refused,
not even by the tick (`Measures`); asleep, its timer is not later than that allows (`Sleeps`). Only
a refill cut off at the burst loses time. It does no harm if two tokens fit into the bucket and
a tick gives at most one, which holds for every configured limit except those too slow to
give a token in 30 seconds (`Sized`).

`GhostUsersProofs` proves, for every set of users and goroutines, every room, and any
number of jobs, changes and mishaps:

- `GhostUsersTypeOK`: the types, with the bound on mishaps;
- `GhostUsersSpeakerIsMember`: whoever speaks is a member, with the two exceptions of the
  property;
- `GhostUsersIdentityKept`: a stored or cached ghost is registered, and a mapping made by
  an administrator is only overwritten by a creation that had looked before;
- `GhostUsersProfileSettles`: when nothing is left to do and no call has failed, a registered
  ghost has the present name and avatar.

The invariant has two halves. `World` speaks of what outlives a job: a user with a
membership record is `Vouched` for (one of the identities it has spoken under has joined or
was removed), a stored ghost is registered. `Jobs` says of every goroutine what it knows at
its place (`JobOK`): from `record` on its user is vouched for, at `store` the ghost is
registered, and no creation is under way for a mapped user. All of this knowledge lasts:
accounts are never unregistered, removals are remembered, and only an administrator adds
to `kept`. So `StepJobs` shows once that a step of one goroutine leaves what the others
know, and each action is followed only in the job that takes it; `MapUser`, the one action
that adds to `kept`, has an argument of its own.

The last theorem has an invariant of its own, `PInv`, on top of the first. It follows what jobs
*read* of a user and use later. As long as no call has failed: what a job has read of a user that
did not change meanwhile (who is not `untidy`) is still so (`Fresh`); a registered ghost is stored,
or the job that registered it is about to store it (`Awaited`), so that an update finds
it; and a name or an avatar in which a ghost differs from its user is one that some job is still
to set (`Kept`). A change of a profile keeps this by the job it starts, and `StepPInv` says once
what a step of one job owes its own user and must leave to the others.

`StoreProofs` also proves of `Migrations`, for every store left by an earlier version, every page size, and
any number of runs, failing calls and crashes (`MigrationsAssumption`, which says that a store
has finitely many keys, and `LegacyStoresAssumption`):

- `MigrationsTypeOK`: the store keeps its shape and the loops their places;
- `MigrationsMappingsKept`: no DM channel loses its room, no DM room its channel, and
  without failures no administrator's mapping is replaced by a legacy one;
- `MigrationsCleanRun`: after a run in which no call failed, whatever runs failed or died before
  it, every reverse mapping within its reach leads back, and the legacy DM mappings that were on
  the store's first page when it began are gone.

A key is handled by several calls, and what the last one may delete rests on what the
earlier ones wrote: `Prepared` says that before a legacy key is deleted its unified mapping
is there. `Visiting` says that the current key is one of the prefix's (that a least key
exists is `MinOfNats`, from the well-foundedness of the numbers). `Accounted` compares the
store with the original one: legacy mappings stay or go, a unified mapping is the original
or the legacy one, and a legacy mapping is only gone when a unified one is there. One lemma
per action follows these three for the one key it changes.

What a clean run comes to is a matter of counting. A page is cut from all keys, so a place in it
(`Position`) depends on everything listed before, and the loop ends at a page with
fewer keys of its own than a full one. A promised key is on the first page, which no loop leaves out,
or nothing is listed before its loop's keys; a place is then a rank (`LastListed`), and
`LastPage` shows that a page that is not full leaves no key of a higher rank (as many keys as *m*
have ranks up to *m*, `Segment`). With `Past` for what a loop has visited, `Passed` and `Listed` say
that it goes past a promised key only by visiting it. `Reach` says that what was within reach when the
run began stays so until its loop, though the loops before write and delete keys that are listed
earlier: a DM's legacy key goes when its unified one has come (`Shift`), so what follows moves by
one place at most, and back. `CInv` says that what is past is right, and that it stays so: a write of a
reverse mapping by a later key may replace an earlier one, but only by one that leads back too
(`RoomsStayRight`). The loops over DMs delete what they list, so of those only the first page
is followed (`Left`).

`TeamSpacesProofs` proves, for any teams, channels and names, any number of goroutines and any
bounds (`TeamSpacesAssumption`; there are a team, a channel and a name, finitely many teams,
channels and members, and no channel is a team):

- `TeamSpacesTypeOK`: the types;
- `TeamSpacesOwnRooms`: stored mappings name rooms of their own channel or team, under the
  hook's domain unless a command asked for a room for the channel; a channel
  has one room and one more for each renaming, other name and failure; the room of a private
  channel is public only if a command asked for a published one;
- `TeamSpacesSettled`: when all is done and no call failed no room or space is forgotten; and a
  backfill of everything that nothing disturbs gives every promised channel a room in the space
  of its team, for any size of a page.

The first claim of `OwnRooms` rests on what a goroutine knows of the room it works on (`JobOK`): from
`open` on, the room with the alias of the job is the channel's, and a job of a command is one that was
`asked` for. Rooms never change hands and what was asked is not forgotten, so
this lasts whatever the others do (`LeadsStill`), and a mapping is only written by one who knows.
The second does not follow from the rooms there are, as two goroutines may be about to make one
each. It follows from the aliases a channel has *asked* for (`Asked`): those of its rooms,
those that goroutines will ask for, and the one made from its present name. A room only turns
a wish into a room. A renaming, a command with another name and a failing lookup of the team
each add one alias, and each is counted. A channel that is just created has asked for none
(`Unasked`). The third is `Owned`: a public room is that of a channel that is not private, or one that a
command asked to be published, which a job has to know before it makes the room (`Owner`).

Neither half of `Settled` is inductive, as it speaks of the moment when nobody is at work. The
first half follows from who is *about* to store what is not stored yet: every room there is has its
mappings or a goroutine that will write them (`Known`), which only a failing call can break.
The second half needs how far the one backfill has come with each promised channel
(`Progress`): its team's space exists, or is still to be made under an alias that nobody else asks
for (`SoleSpace`); then the channel is done, or its team is still on the list, or it is on a page
to come or among the channels of the page in hand (`OnList`), or it is being worked on, with
everything stored that comes before (`Working`). That a backfill cannot stop short of it is
`NextPage`: the loop ends at an empty page, and no page before that of a channel is empty,
because ranks have no gaps. Whatever disturbs the backfill — another hook or command, a
renaming, a failure, a crash — withdraws the promise, in the model as in the proof, so the steps
left are those of one goroutine among channels that do not change.

`MatrixToMattermostProofs` proves, for any senders and names, any finite set of workers and any
number of events and mishaps (`MatrixToMattermostAssumption`; the ghost is not one of the senders):

- `MatrixToMattermostTypeOK`: the types; the root of a post is an older post;
- `MatrixToMattermostProvenance`: a post comes from a message and is that of the user made for
  its sender, also when two senders compete for a name; it is made at most once for each time
  the message was handed over; threads are flat and hold only what answers in them;
  a reaction is by the user of one that was sent; the two mappings of a user agree.

A worker writes at the end of a job what it looked up at the beginning, while others rename,
delete and unmap. `JobOK` says what it knows at each of its places: that the user it holds was made
for the sender of its event, and which event the post it holds is from. This knowledge
lasts because it is about what no step changes, for whom a user was made, which event, author
and root a post has, and what an event is about: `Grows` says this of a step, and each
kind of knowledge is shown once to outlive any such step (`SpeaksKept`, `ReactsKept`, `JobKept`,
`PostKept`). `Provenance` is not inductive without it, nor without `StoredOK`, that a
stored post is that of its event. A reply stands in its thread because what an event builds on
(`Chain`, the least set closed under what events are about) contains what the post found for its
target builds on (`ChainFacts`, `FindFacts`), also when that is a file of the ghost, for which post 1
is found. That a free name exists when `generateMattermostUsername` looks for one is the
pigeonhole principle (`FreeName`). The number of posts follows from `Counted`: the
posts of an event, its places in the inbox and the jobs that may still make a post of it are
together at most as many as it was handed over; taking an event moves it from the second to the
third, making the post from the third to the first, and a failure or crash only takes away.

`PostSyncProofs` proves, for any finite set of posts, any threads (one level deep), files and texts,
any number of workers, size of the queue and of the trackers, and any number of changes, faults
and jobs at once (`PostSyncAssumption`; two posts have no file in common, `CleanupEvery` is not 0):

- `PostSyncTypeOK`: the types, with the limits of queue and tracker;
- `PostSyncSentOnce`: a post has one first event in the room, and at most one more for each job
  issued to send it before its event id was stored (`again`) and for each fault; a file is
  in the room at most once; the posts of Matrix users are not sent or edited.

`SentOnce` counts events, and an event is made by a job that decided to make it much earlier, from
the copy it carries. So the invariant counts what may still come of the jobs (`SentBound`): for
every post, the events there are, the jobs that have still to make one (`Senders`), and the
job that a post without an event id will be given even if nobody has one now (`Due`), are
together at most one and one more for each repetition and fault. A job that fails
after the homeserver took its event is such a fault: its event and the repetition are both paid
for. Jobs are counted with their multiplicity, since two goroutines may hold equal jobs:
`Copies` numbers the copies in the bag `running`, `Places` finds those in the queue, and every step
of the model is one of four kinds for these numbers, a job joins, ends, becomes another, or all
remain (`Joined`, `Ended`, `Became`, `Remained`). `FileBound` says of a file that it is at one
place only: still with the service, pending in the tracker, in the hands of one job, or in the
room; taking the pending files moves them, a failure only loses them. That posts of
Matrix users are left alone needs that an event id in a copy or in the props is that of an
event of the same post (`Names`), which holds at each of the places of a job (`JobOK`) because
events stay where they are (`RoomKept`). The lemmas `EndStep` and `BecomeStep` say what a step
that ends or advances one job owes the invariant; there is one lemma per action on top of them.

Only model-checked: all liveness properties, which are out of the prover's reach, and the two
`Converges`, of `MatrixToMattermost` and of `PostSync`. They compare the two ends of a whole
behaviour in which no call failed and no two jobs raced: their invariants would have to say of every
post or event, after each step of each job, what has come of it and what is still to come.

## Assumptions and limits

- A call of the key-value store either works or fails without effect. A missing key
  reads as an empty value without an error; a listing takes a page of all keys, in key
  order, and drops those without the prefix, as pluginapi's `ListKeys` does with `WithPrefix`. (The
  store of the tests, `testhelpers_test.go:321`, pages the keys *with* the prefix, so that no
  test meets a short page with keys behind it.) A request to the
  homeserver may fail before or after it took effect.
- The homeserver does not repeat a transaction more than an hour after it was
  recorded. It sends one transaction at a time unless a delivery overlaps (a mishap).
- A lookup takes no time compared with the time to live of the cache; the changes of
  one channel's mapping are made one at a time, but for join and its hook; join takes a
  room that the bridge has not made; no administrator touches a DM or a
  room while the bridge is just creating it. Migrations run alone.
- The plugin's hooks are not called after `OnDeactivate` has returned.
- Mattermost calls `ReactionHasBeenRemoved` with a reaction whose `DeleteAt` is 0; its shared channel
  service delivers removed reactions with the time of their deletion. Only the test
  `hooks_test.go:195` sets the field for the hook by hand.
- `PostSync`: the room is mapped and the ghost exists and is a member (the two other
  modules); a change and its `Enqueue` are one step; a homeserver refuses a second equal
  annotation of one sender; an edit is kept as its effect on the event; a cleanup drops
  only entries of posts nothing is happening to, since they must be an hour old.
- `MatrixToMattermost`: the channel is mapped; one emoji; a text is the number of the
  event that brought it.
- `GhostUsers`: one room and one Mattermost user at a time; names and avatars are version
  numbers.
- `TeamSpaces`: joining the bridge to a room, publishing it and adding the bridge's alias are one step; a
  backfill takes the teams in one fixed order; the mode and the settings do not change. The
  homeserver resolves, and accepts, only aliases of its own domain; the server's URL has a host.
- `EvictExpired` and `Clear` have no caller in the program and are modelled as part of
  the cache's interface.

## What the models show of the code

The properties hold with the exceptions that their statements name. Each exception is
a behaviour of the code; removing it from the statement makes TLC produce the trace.

*Intake.* The lookup and the marking of a transaction are two critical sections
(`matrix_webhook.go:94`, `:135`): of two overlapping deliveries both are executed, against
the comment at `:38`. A crash after the answer loses what is in memory.

*Shutdown.* `FlushAll` only enqueues, and `Stop` lets a worker leave before it takes what
was enqueued (`plugin.go:167`), against `docs/BATCH_OPERATIONS.md:94`.

*Migrations.* A listing pages over all keys and filters afterwards, and the loops take a page with
fewer matching keys than its size, or none, for the last (`migrations.go:122`, `:173`, `:201`, `:266`,
`:308`, `:371`). In a store of more than 1000 keys the mappings behind the first page may be missed by
a run without any failure: ghosts and events can fill the first page alone, and mappings left by one page
end the loop. The version says 2 all the same, so no later activation looks again. `/matrix list`
pages in the same way (`command.go:949`). Nothing is lost by it (`MappingsKept`); `CleanRun` holds of
the keys within reach only. Besides, a page of DMs is deleted and then the *next* page of what
remains is read (`migrations.go:375`). `docs/COMMANDS.md:457` says that `/matrix migrate` "only creates
missing mappings, doesn't modify existing ones"; it corrects reverse mappings that are there
(`migrations.go:154`), which `RoundTrip` needs.

*Mapping.* Unmap leaves the cache (`command.go:795`), so posts go to the old room for up
to an hour, against `docs/COMMANDS.md:226`; `BoundedStaleness` shows that it is not
longer. Unmap clears the state of `/rooms/<identifier>` (`command.go:784`), and the
identifier is an alias after `/matrix create`: such a channel cannot be unmapped. Channels
mapped by the channel hook or by join are not shared with the plugin; those of map and
create are. `/matrix join` with `create_channel` and the hook for its channel both map the
channel: the hook makes a second room, which may stay the one that posts go to, while
both rooms lead to the channel.

*Posts to Matrix.* A post may be sent once by each way that reports it before the first
event id is stored. An edit or a deletion issued before then is lost, or sends the post again
(`raced`, `again`). The hook of a removed reaction adds it (`hooks.go:50`, `sync_to_matrix.go:845`); the
homeserver refuses the second annotation while the first is there, and the shared channel service's
removal then takes it away. When that removal is executed before the hook's addition, which may still be
queued, the reaction comes back and stays: this is one of the races that `Converges` excuses. Files of a
reply are related to the thread and stay when it is deleted.

*Events to Mattermost.* When the mapping of a sender cannot be read, or `GetUser` fails for a user who
is there, the sender gets a second user (`sync_to_mattermost.go:522`, `:527`, `:544`); `Provenance` still
holds, since both were made for that sender. When the parent of an answer cannot be looked up, the
answer stands outside its thread (`:106`, `:257`). The redaction of an event that the other direction sent is
dropped, since redacted content names no post; so is the redaction of an edit. A file
that answers a reply is lost, because Mattermost refuses a reply as a root; a file that
answers a file of a bridged post leaves its thread. An
answer to a message of a deleted thread is lost too, and what answers the lost one begins a
thread of its own (`sync_to_mattermost.go:106`). A redelivered message makes two posts. Two events of a
new sender may make two users, of which the mapping keeps one;
when two new senders race for one name, the loser's event is lost. Two reactions of one
user to two events of one post are one in Mattermost.

*Ghosts.* The membership record is never revised: a ghost that was removed or left speaks
and is refused. The record is shared by the user's identities, so one that is new after
`/matrix map_user` is believed to be a member; map_user also leaves `ghostUserCache`, and a
creation in flight overwrites the mapping. A failing `SetDisplayName` ends the creation's
profile without an avatar. The image hook sets the avatar of a mapped account too,
while `SyncUserToMatrix` passes over it. In mirror mode posts go out as the mirrored account
(`sync_to_matrix.go:540`) but edits, deletions and reactions as the ghost (`:674`, `:908`).

*Spaces.* `/matrix create` makes the alias with the host of the server's URL (`command.go:868`, `:1200`),
the hook and the backfill with `MatrixServerDomain` (`plugin.go:515`). Behind a delegated homeserver,
for which that setting exists, what the command stores does not lead to the room it made: the channel's
members are not brought in, no bridge alias is added, and posts find no room; another
channel's mapping is never touched by it (`LeadsHome`). The command publishes independently of the
name, so a private channel may have a public room under its own name. `CreateRoom` answers the alias,
which becomes the state key of `m.space.child`.
A channel whose hook runs before its team's space is stored is never added to it. A room
whose mapping could not be written, or whose creation answered too late, holds its alias:
no backfill can map the channel. Of two pairs of team and channel whose names join to one
alias the second is never bridged. A backfill of a renamed or hand-mapped channel makes
another room and replaces the mapping. A room stays public when its channel becomes
private. `GetChannelMembers` is given an offset where it wants a page number
(`command.go:173`), so members beyond the first page are not joined, against
`docs/COMMANDS.md:199`.

## Not modelled

- Inviting Matrix users when their Mattermost user joins a channel (`hooks.go:325`);
  names that change in mirror mode and the display names of mirrored accounts; the team
  membership and avatars of Matrix users; sharing a channel with the plugin.
- `matrix/retry.go`: `withRetry` has no caller.
- Configuration (an immutable struct replaced under a lock, validation of strings),
  metrics, logging and the log file: nothing in the program decides on them.
- Text formatting, mentions and the generated emoji table: pure functions on strings.
- Construction of the components and registration at activation, which happen once and
  before any hook; status, list, test and metrics commands, connection and permission
  tests, media downloads, which change nothing that is modelled.
- The web app, build files and test containers.

## Plan

1. `EventQueue`, `TaskPool`; `MatrixIntake`, `ReactionBatcher` (which
   compose the queue); `LruCache` with `TtlMap`, `RoomMapping`, `Migrations` — done.
2. `PostSync`, `MatrixToMattermost`, `GhostUsers`, `TeamSpaces`, `TokenBucket` with
   `GhostUsersProofs`, `TeamSpacesProofs` and the proofs of `TokenBucket` — done.
3. `StoreProofs`, `RoomMappingProofs`, the proofs of `MatrixIntake`, `OvertakeBound` of the
   queue, `LimitIsExact` of the limiter, `Settled` of the spaces — done.
4. `QueueAndBatcherProofs`: the queue, and on top of it `ReactionBatcher`;
   `MatrixToMattermostProofs`; `PostSyncProofs` — done.
5. Open: proofs of the two `Converges`.
