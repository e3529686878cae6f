---------------------------- MODULE MatrixIntake ----------------------------
(***************************************************************************)
(* server/matrix_webhook.go and api.go: how events of the homeserver reach *)
(* the worker pool.  The homeserver (external) sends numbered transactions *)
(* one after the other and repeats one until it has seen its 200; every    *)
(* delivery is an HTTP request with a handler goroutine of its own, which  *)
(*   - answers 503 while sync is disabled,                                 *)
(*   - looks the transaction up in processedTransactions and answers a     *)
(*     known one at once,                                                  *)
(*   - reads and parses the body (400 on failure),                         *)
(*   - records the transaction, and only then                              *)
(*   - submits its events to the EventQueue one by one, executing an event *)
(*     itself when the queue is full, and answers 200.                     *)
(* The lookup and the recording are two critical sections: requests may    *)
(* interleave between them.  The map and the queue live in memory, so a    *)
(* crash of the plugin process forgets both.                               *)
(***************************************************************************)
EXTENDS Naturals, Sequences, FiniteSets

CONSTANTS
    MaxTxn,        \* bound: the homeserver has transactions 1..MaxTxn
    TxnSize,       \* events in each transaction
    MaxRequest,    \* bound: deliveries the homeserver may attempt
    Worker, BufferSize, NoTask,      \* as in EventQueue
    CleanupEvery,  \* clean up when the map's size is a multiple of this (100)
    MaxMishap      \* bound: crashes of the plugin process and overlapping deliveries

ASSUME MatrixIntakeAssumption ==
    /\ MaxTxn \in Nat /\ TxnSize \in Nat /\ MaxRequest \in Nat
    /\ CleanupEvery \in Nat \ {0}
    /\ MaxMishap \in Nat
    /\ BufferSize \in Nat \ {0} /\ Worker # {} /\ IsFiniteSet(Worker)
    /\ NoTask \notin (1..MaxRequest) \X (1..TxnSize)

Txn == 1..MaxTxn
Event == Txn \X (1..TxnSize)
Request == 1..MaxRequest

\* One call of Enqueue by a handler: the request and the event's index.
Task == Request \X (1..TxnSize)

VARIABLES
    sending,    \* the transaction the homeserver is delivering
    reqTxn,     \* reqTxn[r]: the transaction request r carries (0 if unsent)
    handler,    \* handler[r]: where the handler goroutine of r is
    next,       \* next[r]: index of the next event to submit
    processed,  \* processedTransactions: "absent", "recent" or over an hour "old"
    cleanups,   \* cleanupOldTransactions goroutines that have not run yet
    ran,        \* history: executions begun, per event
    finished,   \* history: the events with an execution that ended
    crashes,    \* history: crashes so far
    overlaps,   \* history: deliveries begun while another one was in its handler
    taskChan, stopChan, stopCall, worker, job, refused, outcome, accepted,
    received    \* the EventQueue

queueVars == <<taskChan, stopChan, stopCall, worker, job, refused, outcome,
               accepted, received>>
hsVars    == <<sending, reqTxn>>
vars == <<sending, reqTxn, handler, next, processed, cleanups, ran, finished,
          crashes, overlaps, queueVars>>

Queue == INSTANCE EventQueue

\* Handler states.  "ok", "503", "400" are answers; "dead" was killed.
InHandler == {"arrived", "checked", "submitting", "executing"}
Answered  == {"ok", "503", "400"}
HandlerState == {"unsent", "dead"} \cup InHandler \cup Answered

EventOf(r, i) == <<reqTxn[r], i>>
EventOfTask(t) == EventOf(t[1], t[2])

TypeOK == /\ Queue!TypeOK
          /\ sending \in 1..(MaxTxn + 1)
          /\ reqTxn \in [Request -> 0..MaxTxn]
          /\ handler \in [Request -> HandlerState]
          /\ next \in [Request -> 1..(TxnSize + 1)]
          /\ processed \in [Txn -> {"absent", "recent", "old"}]
          /\ cleanups \in Nat
          /\ ran \in [Event -> Nat]
          /\ finished \in SUBSET Event
          /\ crashes \in Nat /\ overlaps \in Nat /\ crashes + overlaps <= MaxMishap

Init == /\ Queue!Init
        /\ sending = 1
        /\ reqTxn = [r \in Request |-> 0]
        /\ handler = [r \in Request |-> "unsent"]
        /\ next = [r \in Request |-> 1]
        /\ processed = [x \in Txn |-> "absent"]
        /\ cleanups = 0
        /\ ran = [e \in Event |-> 0]
        /\ finished = {}
        /\ crashes = 0 /\ overlaps = 0

-----------------------------------------------------------------------------
(* The homeserver (external). *)

\* It sends the current transaction, again if an earlier delivery of it was
\* not answered in time, so that the two overlap, or its answer was lost.
Send(r) ==
    /\ sending \in Txn
    /\ handler[r] = "unsent"
    /\ \A q \in 1..(r - 1) : handler[q] # "unsent"
    /\ overlaps' = IF \E q \in Request : handler[q] \in InHandler THEN overlaps + 1 ELSE overlaps
    /\ crashes + overlaps' <= MaxMishap
    /\ reqTxn' = [reqTxn EXCEPT ![r] = sending]
    /\ handler' = [handler EXCEPT ![r] = "arrived"]
    /\ UNCHANGED <<sending, next, processed, cleanups, ran, finished, crashes,
                   queueVars>>

\* It sees a 200 for the current transaction and goes on to the next one.
SeeOk(r) ==
    /\ handler[r] = "ok"
    /\ reqTxn[r] = sending
    /\ sending' = sending + 1
    /\ UNCHANGED <<reqTxn, handler, next, processed, cleanups, ran, finished,
                   crashes, overlaps, queueVars>>

-----------------------------------------------------------------------------
(* The handler. *)

\* MatrixAuthorizationRequired: sync is disabled (or not configured).
Unavailable(r) ==
    /\ handler[r] = "arrived"
    /\ handler' = [handler EXCEPT ![r] = "503"]
    /\ UNCHANGED <<hsVars, overlaps, next, processed, cleanups, ran, finished, crashes,
                   queueVars>>

\* A handler without the lookup.
CheckDuplicate_Skipped(r) ==
    /\ handler[r] = "arrived"
    /\ handler' = [handler EXCEPT ![r] = "checked"]
    /\ UNCHANGED <<hsVars, overlaps, next, processed, cleanups, ran, finished, crashes,
                   queueVars>>

\* handleMatrixTransaction up to RUnlock, and the answer to a known one.
CheckDuplicate(r) ==
    /\ handler[r] = "arrived"
    /\ handler' = [handler EXCEPT ![r] =
                     IF processed[reqTxn[r]] = "absent" THEN "checked" ELSE "ok"]
    /\ UNCHANGED <<hsVars, overlaps, next, processed, cleanups, ran, finished, crashes,
                   queueVars>>

\* The body cannot be read or parsed: 400, and the transaction stays unknown.
BadBody(r) ==
    /\ handler[r] = "checked"
    /\ handler' = [handler EXCEPT ![r] = "400"]
    /\ UNCHANGED <<hsVars, overlaps, next, processed, cleanups, ran, finished, crashes,
                   queueVars>>

\* The second critical section: record the transaction, and start a cleanup
\* whenever the size of the map is a multiple of CleanupEvery.
MarkProcessed(r) ==
    /\ handler[r] = "checked"
    /\ handler' = [handler EXCEPT ![r] = "submitting"]
    /\ processed' = [processed EXCEPT ![reqTxn[r]] = "recent"]
    /\ LET size == Cardinality({x \in Txn : processed'[x] # "absent"})
       IN  cleanups' = IF size % CleanupEvery = 0 THEN cleanups + 1 ELSE cleanups
    /\ UNCHANGED <<hsVars, overlaps, next, ran, finished, crashes, queueVars>>

\* One turn of the loop over the events: Enqueue, or begin processMatrixEvent
\* in the handler when the queue is full.
SubmitEvent(r) ==
    /\ handler[r] = "submitting"
    /\ next[r] <= TxnSize
    /\ Queue!Enqueue(<<r, next[r]>>)
    /\ \/ /\ taskChan' # taskChan
          /\ next' = [next EXCEPT ![r] = @ + 1]
          /\ UNCHANGED <<handler, ran>>
       \/ /\ taskChan' = taskChan
          /\ handler' = [handler EXCEPT ![r] = "executing"]
          /\ ran' = [ran EXCEPT ![EventOf(r, next[r])] = @ + 1]
          /\ UNCHANGED next
    /\ UNCHANGED <<hsVars, overlaps, processed, cleanups, finished, crashes>>

\* processMatrixEvent returns in the handler; an error is only logged.
ExecuteInHandler(r) ==
    /\ handler[r] = "executing"
    /\ handler' = [handler EXCEPT ![r] = "submitting"]
    /\ next' = [next EXCEPT ![r] = @ + 1]
    /\ finished' = finished \cup {EventOf(r, next[r])}
    /\ UNCHANGED <<hsVars, overlaps, processed, cleanups, ran, crashes, queueVars>>

\* A handler that answers before the loop is over.
Answer_Early(r) ==
    /\ handler[r] = "submitting"
    /\ handler' = [handler EXCEPT ![r] = "ok"]
    /\ UNCHANGED <<hsVars, overlaps, next, processed, cleanups, ran, finished, crashes,
                   queueVars>>

\* All events are submitted: 200.
Answer(r) ==
    /\ handler[r] = "submitting"
    /\ next[r] = TxnSize + 1
    /\ handler' = [handler EXCEPT ![r] = "ok"]
    /\ UNCHANGED <<hsVars, overlaps, next, processed, cleanups, ran, finished, crashes,
                   queueVars>>

-----------------------------------------------------------------------------
(* The rest of the plugin process. *)

WorkerBegin(w) ==
    /\ Queue!WorkerReceive(w)
    /\ ran' = [ran EXCEPT ![EventOfTask(Head(taskChan))] = @ + 1]
    /\ UNCHANGED <<hsVars, overlaps, handler, next, processed, cleanups, finished, crashes>>

WorkerEnd(w) ==
    /\ \E result \in {"ok", "failed"} : Queue!ProcessTask(w, result)
    /\ finished' = finished \cup {EventOfTask(job[w])}
    /\ UNCHANGED <<hsVars, overlaps, handler, next, processed, cleanups, ran, crashes>>

\* An hour passes.  The homeserver has long seen the answer: transactions are
\* assumed not to be repeated an hour after they were first recorded.
GrowOld(x) ==
    /\ processed[x] = "recent"
    /\ x < sending
    /\ \A r \in Request : handler[r] \in InHandler => reqTxn[r] # x
    /\ processed' = [processed EXCEPT ![x] = "old"]
    /\ UNCHANGED <<hsVars, overlaps, handler, next, cleanups, ran, finished, crashes,
                   queueVars>>

\* cleanupOldTransactions.  It looks for old entries under the read lock and
\* looks again at each under the write lock before it deletes it, so it takes
\* effect at the second moment.
CleanupOldTransactions ==
    /\ cleanups > 0
    /\ cleanups' = cleanups - 1
    /\ processed' = [x \in Txn |-> IF processed[x] = "old" THEN "absent"
                                   ELSE processed[x]]
    /\ UNCHANGED <<hsVars, overlaps, handler, next, ran, finished, crashes, queueVars>>

\* The plugin process dies and is started again: queue and map begin empty,
\* the handlers that were running never answer.
Crash ==
    /\ crashes + overlaps < MaxMishap
    /\ crashes' = crashes + 1
    /\ handler' = [r \in Request |->
                     IF handler[r] \in InHandler THEN "dead" ELSE handler[r]]
    /\ processed' = [x \in Txn |-> "absent"]
    /\ cleanups' = 0
    /\ taskChan' = <<>> /\ accepted' = <<>> /\ received' = <<>>
    /\ stopChan' = "open" /\ stopCall' = "none"
    /\ worker' = [w \in Worker |-> "select"]
    /\ job' = [w \in Worker |-> NoTask]
    /\ refused' = {}
    /\ outcome' = [t \in Task |-> "none"]
    /\ UNCHANGED <<hsVars, overlaps, next, ran, finished>>

HandlerStep(r) == \/ CheckDuplicate(r)
                  \/ MarkProcessed(r)
                  \/ SubmitEvent(r)
                  \/ ExecuteInHandler(r)
                  \/ Answer(r)

WorkerStep(w) == WorkerBegin(w) \/ WorkerEnd(w)

Next == \/ \E r \in Request : \/ Send(r)
                              \/ SeeOk(r)
                              \/ Unavailable(r)
                              \/ BadBody(r)
                              \/ HandlerStep(r)
        \/ \E w \in Worker : WorkerStep(w)
        \/ \E x \in Txn : GrowOld(x)
        \/ CleanupOldTransactions
        \/ Crash

Spec == Init /\ [][Next]_vars

-----------------------------------------------------------------------------
(* Properties *)

Acked == {e \in Event : e[1] < sending}

\* The event is where the plugin will still come to it.
InHand(e) == \/ \E i \in 1..Len(taskChan) : EventOfTask(taskChan[i]) = e
             \/ \E w \in Worker : job[w] # NoTask /\ EventOfTask(job[w]) = e
             \/ \E r \in Request : /\ handler[r] \in {"submitting", "executing"}
                                   /\ reqTxn[r] = e[1]
                                   /\ next[r] <= e[2]

Lost == {e \in Acked : e \notin finished /\ ~InHand(e)}

\* Repeated deliveries, bad bodies, disabled sync and cleanups never make an
\* event execute twice: only a crash can, or a delivery that passes the
\* duplicate check before an earlier one is recorded, and each of these adds at
\* most one execution of any event.
RunsBound == \A e \in Event : ran[e] <= 1 + crashes + overlaps

\* The events of transactions that one handler is still submitting when
\* another, which found them recorded, has answered 200: of one transaction for
\* each overlap.
AnsweredAhead == overlaps * TxnSize

\* An answered transaction has all its events executed or in the plugin's
\* hands; a crash loses no more than the queue and the workers held, and what
\* was answered ahead.
LossBound ==
    /\ crashes = 0 => Lost = {}
    /\ Cardinality(Lost) <=
           crashes * (BufferSize + Cardinality(Worker)) + AnsweredAhead

ExecutionBound == RunsBound /\ LossBound

Before(d, e) == d[1] < e[1] \/ (d[1] = e[1] /\ d[2] < e[2])

\* Events are executed nearly in the homeserver's order: while the plugin has
\* not crashed, an event that ended has overtaken at most what fits in the
\* queue and the workers' hands, and what was answered ahead.
NearlyInOrder ==
    crashes = 0 =>
        \A e \in finished :
            Cardinality({d \in Event : Before(d, e) /\ d \notin finished})
                <= BufferSize + Cardinality(Worker) + AnsweredAhead
=============================================================================
