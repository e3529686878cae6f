-------------------------- MODULE ReactionBatcher --------------------------
(***************************************************************************)
(* server/batcher.go with its one user, the reaction hooks of              *)
(* server/hooks.go, on top of the EventQueue, and OnDeactivate             *)
(* (server/plugin.go), which flushes the batcher and stops the queue.      *)
(*                                                                         *)
(* The reactions of a post gather in items[key] until the timer of the     *)
(* key fires.  A timer that fires starts a goroutine that calls Flush;     *)
(* Flush takes the batch and the timer under the mutex and hands the       *)
(* batch to onFlush (processReactionBatch) after the unlock, so two        *)
(* flushes of a key may be between unlock and hand-over together, and a    *)
(* timer that has fired can no longer be stopped: its late Flush may take  *)
(* a batch that a newer timer is waiting for.                              *)
(*                                                                         *)
(* Reactions are numbered in the order of their Add.  A batch is named by  *)
(* its first reaction, which no other batch contains.  The tasks of the    *)
(* EventQueue that this module extends are the batches and whatever else   *)
(* the plugin may submit; the actions below submit batches only.           *)
(***************************************************************************)
EXTENDS EventQueue

CONSTANTS Key,           \* post ids
          MaxReaction,   \* bound: reactions added
          PostOf         \* PostOf[r]: the post reaction r is on

Reaction == 1..MaxReaction

ASSUME ReactionBatcherAssumption == /\ MaxReaction \in Nat
                                    /\ PostOf \in [Reaction -> Key]
                                    /\ Reaction \subseteq Task

VARIABLES
    items,      \* items[k]: the batch that gathers; <<>>: the key is absent
    timers,     \* timers[k]: "none", "armed", or "fired" but not yet deleted
    callbacks,  \* callbacks[k]: goroutines of fired timers about to Flush k
    handing,    \* batches taken by a Flush that has not called onFlush yet
    direct,     \* batches their flusher executes itself: the queue was full
    todo,       \* todo[t]: the reactions of batch t still to be synced
    deact,      \* OnDeactivate: "running", "flushing", "stopping", "stopped"
    flushKeys,  \* the keys FlushAll has still to flush
    mine,       \* the batch FlushAll is handing over or executing, 0 if none
    lastAdded,  \* the reactions 1..lastAdded have been added
    taken,      \* history: the reactions flushes of a key took, in order
    synced      \* history: SyncReactionToMatrix calls that returned, in order

queueVars == vars
mapVars   == <<items, timers, callbacks>>
deactVars == <<deact, flushKeys, mine>>
batcherVars == <<mapVars, handing, direct, todo, deactVars, lastAdded, taken,
                 synced, queueVars>>

BatcherTypeOK == /\ TypeOK
                 /\ items \in [Key -> Seq(Reaction)]
                 /\ timers \in [Key -> {"none", "armed", "fired"}]
                 /\ callbacks \in [Key -> 0..MaxReaction]
                 /\ handing \in SUBSET Reaction
                 /\ direct \in SUBSET Reaction
                 /\ todo \in [Reaction -> Seq(Reaction)]
                 /\ deact \in {"running", "flushing", "stopping", "stopped"}
                 /\ flushKeys \in SUBSET Key
                 /\ mine \in Reaction \cup {0}
                 /\ lastAdded \in 0..MaxReaction
                 /\ taken \in [Key -> Seq(Reaction)]
                 /\ synced \in Seq(Reaction)

BatcherInit == /\ Init
               /\ items = [k \in Key |-> <<>>]
               /\ timers = [k \in Key |-> "none"]
               /\ callbacks = [k \in Key |-> 0]
               /\ handing = {} /\ direct = {}
               /\ todo = [t \in Reaction |-> <<>>]
               /\ deact = "running"
               /\ flushKeys = {}
               /\ mine = 0
               /\ lastAdded = 0
               /\ taken = [k \in Key |-> <<>>]
               /\ synced = <<>>

-----------------------------------------------------------------------------
(* batcher.go *)

\* An Add that arms a timer only for the first batch ever.
Add_NoRearm(k) ==
    LET r == lastAdded + 1 IN
    /\ r \in Reaction
    /\ PostOf[r] = k
    /\ deact # "stopped"
    /\ lastAdded' = r
    /\ items' = [items EXCEPT ![k] = Append(@, r)]
    /\ timers' = IF taken[k] = <<>> THEN [timers EXCEPT ![k] = "armed"]
                 ELSE timers
    /\ UNCHANGED <<callbacks, handing, direct, todo, deactVars, taken, synced,
                   queueVars>>

\* Add, called by ReactionHasBeenAdded and ReactionHasBeenRemoved.  (With
\* sync disabled or the post gone the hooks return before it.)  The server
\* may call hooks while OnDeactivate runs, but not after it returned.
Add(k) ==
    LET r == lastAdded + 1 IN
    /\ r \in Reaction
    /\ PostOf[r] = k
    /\ deact # "stopped"
    /\ lastAdded' = r
    /\ items' = [items EXCEPT ![k] = Append(@, r)]
    /\ timers' = [timers EXCEPT ![k] = IF @ = "none" THEN "armed" ELSE @]
    /\ UNCHANGED <<callbacks, handing, direct, todo, deactVars, taken, synced,
                   queueVars>>

\* batchTimeout has passed: the runtime starts the callback.
TimerFires(k) ==
    /\ timers[k] = "armed"
    /\ timers' = [timers EXCEPT ![k] = "fired"]
    /\ callbacks' = [callbacks EXCEPT ![k] = @ + 1]
    /\ UNCHANGED <<items, handing, direct, todo, deactVars, lastAdded, taken,
                   synced, queueVars>>

\* A Flush that deletes the timer but not an armed timer's batch.
Take_TimerOnly(k) ==
    /\ timers' = [timers EXCEPT ![k] = "none"]
    /\ UNCHANGED <<items, handing, todo, taken>>

\* Flush up to the unlock.
Take(k) ==
    /\ items' = [items EXCEPT ![k] = <<>>]
    /\ timers' = [timers EXCEPT ![k] = "none"]
    /\ IF items[k] = <<>>
       THEN UNCHANGED <<handing, todo, taken>>
       ELSE /\ handing' = handing \cup {items[k][1]}
            /\ todo' = [todo EXCEPT ![items[k][1]] = items[k]]
            /\ taken' = [taken EXCEPT ![k] = @ \o items[k]]

\* Flush in the goroutine of a fired timer; with no items it ends here.
CallbackFlush(k) ==
    /\ callbacks[k] > 0
    /\ callbacks' = [callbacks EXCEPT ![k] = @ - 1]
    /\ Take(k)
    /\ UNCHANGED <<direct, deactVars, lastAdded, synced, queueVars>>

-----------------------------------------------------------------------------
(* hooks.go: processReactionBatch *)

\* A flusher that gives up when the queue is full.
OnFlush_NoFallback(t) ==
    /\ t \in handing
    /\ handing' = handing \ {t}
    /\ Enqueue(t)
    /\ mine' = IF mine = t THEN 0 ELSE mine
    /\ UNCHANGED <<mapVars, direct, todo, deact, flushKeys,
                   lastAdded, taken, synced>>

\* onFlush, called after the unlock: Enqueue the batch, or begin to execute it
\* in the flusher's goroutine when the queue is full.
OnFlush(t) ==
    /\ t \in handing
    /\ handing' = handing \ {t}
    /\ Enqueue(t)
    /\ \/ /\ taskChan' # taskChan
          /\ mine' = IF mine = t THEN 0 ELSE mine
          /\ UNCHANGED direct
       \/ /\ taskChan' = taskChan
          /\ direct' = direct \cup {t}
          /\ UNCHANGED mine
    /\ UNCHANGED <<mapVars, todo, deact, flushKeys, lastAdded, taken,
                   synced>>

Executing(t) == t \in direct \/ \E w \in Worker : job[w] = t

\* An executor that syncs the newest reaction of its batch first.
SyncNext_NewestFirst(t) ==
    LET n == Len(todo[t]) IN
    /\ Executing(t)
    /\ n > 0
    /\ synced' = Append(synced, todo[t][n])
    /\ todo' = [todo EXCEPT ![t] = SubSeq(@, 1, n - 1)]
    /\ UNCHANGED <<mapVars, handing, direct, deactVars, lastAdded, taken,
                   queueVars>>

\* One turn of the loop over the batch.  An error is logged and the loop goes
\* on, so success and failure of the call are one step here.
SyncNext(t) ==
    /\ Executing(t)
    /\ todo[t] # <<>>
    /\ synced' = Append(synced, Head(todo[t]))
    /\ todo' = [todo EXCEPT ![t] = Tail(@)]
    /\ UNCHANGED <<mapVars, handing, direct, deactVars, lastAdded, taken,
                   queueVars>>

\* The loop in the flusher's own goroutine is over.
DirectEnd(t) ==
    /\ t \in direct
    /\ todo[t] = <<>>
    /\ direct' = direct \ {t}
    /\ mine' = IF mine = t THEN 0 ELSE mine
    /\ UNCHANGED <<mapVars, handing, todo, deact, flushKeys,
                   lastAdded, taken, synced, queueVars>>

\* The workers of the queue; the task that ends is a batch with nothing left.
BatchWorkerStep(w) ==
    /\ \/ WorkerReceive(w)
       \/ /\ worker[w] = "processing" /\ todo[job[w]] = <<>>
          /\ ProcessTask(w, "ok")
       \/ WorkerExit(w)
    /\ UNCHANGED <<mapVars, handing, direct, todo, deactVars, lastAdded,
                   taken, synced>>

-----------------------------------------------------------------------------
(* plugin.go: OnDeactivate *)

\* FlushAll up to its unlock: the keys that have a batch now.
FlushAllBegin ==
    /\ deact = "running"
    /\ deact' = "flushing"
    /\ flushKeys' = {k \in Key : items[k] # <<>>}
    /\ UNCHANGED <<mapVars, handing, direct, todo, mine, lastAdded, taken,
                   synced, queueVars>>

\* The loop of FlushAll: Flush of the next key (in map order, which is any).
FlushAllStep(k) ==
    /\ deact = "flushing" /\ mine = 0
    /\ k \in flushKeys
    /\ flushKeys' = flushKeys \ {k}
    /\ Take(k)
    /\ mine' = IF items[k] = <<>> THEN 0 ELSE items[k][1]
    /\ UNCHANGED <<callbacks, direct, deact, lastAdded, synced,
                   queueVars>>

\* OnDeactivate stops the queue once FlushAll has returned.
DeactStop ==
    /\ deact = "flushing" /\ flushKeys = {} /\ mine = 0
    /\ deact' = "stopping"
    /\ Stop
    /\ UNCHANGED <<mapVars, handing, direct, todo, flushKeys, mine,
                   lastAdded, taken, synced>>

DeactEnd ==
    /\ deact = "stopping"
    /\ deact' = "stopped"
    /\ StopReturn
    /\ UNCHANGED <<mapVars, handing, direct, todo, flushKeys, mine,
                   lastAdded, taken, synced>>

-----------------------------------------------------------------------------
FlushStep(k) == TimerFires(k) \/ CallbackFlush(k)
BatchStep(t) == OnFlush(t) \/ SyncNext(t) \/ DirectEnd(t)
DeactStep == DeactStop \/ DeactEnd \/ \E k \in Key : FlushAllStep(k)

BatcherNext == \/ \E k \in Key : Add(k) \/ FlushStep(k)
               \/ \E t \in Reaction : BatchStep(t)
               \/ \E w \in Worker : BatchWorkerStep(w)
               \/ FlushAllBegin
               \/ DeactStep

BatcherSpec == BatcherInit /\ [][BatcherNext]_batcherVars

\* Timers fire, goroutines are scheduled and SyncReactionToMatrix returns (its
\* requests time out).  Nothing makes a hook run or the plugin be deactivated.
BatcherFairSpec == /\ BatcherSpec
                   /\ \A k \in Key : WF_batcherVars(FlushStep(k))
                   /\ \A t \in Reaction : WF_batcherVars(BatchStep(t))
                   /\ \A w \in Worker : WF_batcherVars(BatchWorkerStep(w))
                   /\ WF_batcherVars(DeactStep)

-----------------------------------------------------------------------------
(* Properties *)

\* A batch that gathers has a timer that will flush it, or a flush on its way,
\* whatever late timers and FlushAll do in between; and a timer is registered
\* only for a batch (so the map does not leak timers).
NoStrandedBatch ==
    \A k \in Key : /\ items[k] # <<>> <=> timers[k] # "none"
                   /\ timers[k] = "fired" => callbacks[k] > 0

Increasing(seq) == \A i, j \in 1..Len(seq) : i < j => seq[i] < seq[j]

\* The flushes of a key cut its reactions into consecutive batches: what they
\* have taken and then what is still gathering are the reactions added for the
\* key, none missing, in the order of Add.
BatchesPartition ==
    \A k \in Key :
        LET added == taken[k] \o items[k]
        IN  /\ Increasing(added)
            /\ \A r \in Reaction :
                 In(r, added) <=> r <= lastAdded /\ PostOf[r] = k

\* No reaction is sent to Matrix twice, and every reaction added was sent or is
\* in exactly one batch, which still gathers, is being handed over or executed,
\* or sits in the queue (where Stop leaves it).
EachOnce ==
    LET gathering(r) == {k \in Key : In(r, items[k])}
        batched(r)   == {t \in Reaction : In(r, todo[t])}
    IN  /\ \A i, j \in 1..Len(synced) : synced[i] = synced[j] => i = j
        /\ \A r \in 1..lastAdded :
             Cardinality(gathering(r)) + Cardinality(batched(r))
                 = IF In(r, synced) THEN 0 ELSE 1
        /\ \A t \in Reaction :
             todo[t] # <<>> => t \in handing \/ Executing(t) \/ In(t, taskChan)

\* No reaction is lost, or in two batches.
InOneBatch == BatchesPartition /\ EachOnce

\* Reactions of one post that share a batch reach Matrix in the order of the
\* hooks: an add and a remove that were gathered together are not swapped.
BatchOrderKept ==
    \A k \in Key : \A i, j \in 1..Len(synced) :
        /\ PostOf[synced[i]] = k /\ PostOf[synced[j]] = k
        /\ synced[j] < synced[i] /\ i < j
        => \* then a batch boundary of k lies between the two
           \E t \in Reaction : /\ synced[j] < t /\ t <= synced[i]
                               /\ PostOf[t] = k
                               /\ In(t, accepted) \/ t \in refused

\* While the plugin runs every reaction is sent to Matrix in the end.
ReactionSynced ==
    \A r \in Reaction :
        (r <= lastAdded) ~> (In(r, synced) \/ deact # "running")

\* OnDeactivate returns.
DeactivateEnds == (deact = "flushing") ~> (deact = "stopped")

BatcherEnds == ReactionSynced /\ DeactivateEnds

=============================================================================
