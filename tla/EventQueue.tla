----------------------------- MODULE EventQueue -----------------------------
(***************************************************************************)
(* server/queue.go: the worker pool behind every asynchronous step of the  *)
(* bridge.  A buffered Go channel (taskChan) feeds workerCount goroutines; *)
(* Enqueue never blocks and refuses when the buffer is full; Stop closes   *)
(* stopChan and waits for the workers.  A worker whose two channels are    *)
(* both ready takes either one: Go's select chooses at random.             *)
(*                                                                         *)
(* A member of Task is one call of Enqueue (the Task struct is built by    *)
(* the caller for that call), so it is submitted at most once.  Metrics    *)
(* and log lines are left out; Task.Retries is never written by the code.  *)
(***************************************************************************)
EXTENDS Naturals, Sequences, FiniteSets

CONSTANTS Task,         \* the tasks that callers may submit
          Worker,       \* the worker goroutines started by Start
          BufferSize,   \* capacity of taskChan (1000 in OnActivate)
          NoTask        \* what an idle worker holds

\* NewEventQueue makes workerCount at least 1.  A buffer of 0 would make
\* taskChan a rendezvous; the plugin passes 1000.
ASSUME EventQueueAssumption == /\ BufferSize \in Nat \ {0}
                               /\ Worker # {} /\ IsFiniteSet(Worker)
                               /\ NoTask \notin Task

VARIABLES
    taskChan,   \* the buffered tasks, oldest first
    stopChan,   \* "open", or "closed" once Stop has run its first line
    stopCall,   \* the call of Stop: "none", "waiting" in wg.Wait, "returned"
    worker,     \* worker[w]: "select", "processing" or "exited"
    job,        \* job[w]: the task w executes, or NoTask
    refused,    \* the tasks Enqueue returned "event queue is full" for
    outcome,    \* outcome[t]: "none" until Execute returned, then "ok"/"failed"
    accepted,   \* history: tasks Enqueue returned nil for, in that order
    received    \* history: tasks taken off taskChan, in that order

vars == <<taskChan, stopChan, stopCall, worker, job, refused, outcome,
          accepted, received>>

In(t, seq) == \E i \in 1..Len(seq) : seq[i] = t

TypeOK == /\ taskChan \in Seq(Task)
          /\ Len(taskChan) <= BufferSize
          /\ stopChan \in {"open", "closed"}
          /\ stopCall \in {"none", "waiting", "returned"}
          /\ worker \in [Worker -> {"select", "processing", "exited"}]
          /\ job \in [Worker -> Task \cup {NoTask}]
          /\ refused \in SUBSET Task
          /\ outcome \in [Task -> {"none", "ok", "failed"}]
          /\ accepted \in Seq(Task)
          /\ received \in Seq(Task)

-----------------------------------------------------------------------------
\* NewEventQueue followed by Start: OnActivate calls one after the other.
Init == /\ taskChan = <<>>
        /\ stopChan = "open"
        /\ stopCall = "none"
        /\ worker = [w \in Worker |-> "select"]
        /\ job = [w \in Worker |-> NoTask]
        /\ refused = {}
        /\ outcome = [t \in Task |-> "none"]
        /\ accepted = <<>>
        /\ received = <<>>

\* A send that does not notice a full buffer.
EnqueueSend_Unbounded(t) == /\ taskChan' = Append(taskChan, t)
                            /\ accepted' = Append(accepted, t)
                            /\ UNCHANGED <<stopChan, stopCall, worker, job,
                                           refused, outcome, received>>

\* The select of Enqueue: its send case, and its default case.  Neither looks
\* at stopChan, so a stopped queue goes on accepting.
EnqueueSend(t) == /\ Len(taskChan) < BufferSize
                  /\ taskChan' = Append(taskChan, t)
                  /\ accepted' = Append(accepted, t)
                  /\ UNCHANGED <<stopChan, stopCall, worker, job, refused,
                                 outcome, received>>

EnqueueFull(t) == /\ Len(taskChan) = BufferSize
                  /\ refused' = refused \cup {t}
                  /\ UNCHANGED <<taskChan, stopChan, stopCall, worker, job,
                                 outcome, accepted, received>>

Enqueue(t) == /\ ~In(t, accepted)
              /\ t \notin refused
              /\ EnqueueSend(t) \/ EnqueueFull(t)

\* A worker that reads the head of the channel without removing it.
WorkerReceive_Peek(w) ==
    /\ worker[w] = "select"
    /\ taskChan # <<>>
    /\ worker' = [worker EXCEPT ![w] = "processing"]
    /\ job' = [job EXCEPT ![w] = Head(taskChan)]
    /\ received' = Append(received, Head(taskChan))
    /\ UNCHANGED <<taskChan, stopChan, stopCall, refused, outcome, accepted>>

\* A worker that takes the newest task instead of the oldest.
WorkerReceive_Lifo(w) ==
    LET t == taskChan[Len(taskChan)] IN
    /\ worker[w] = "select"
    /\ taskChan # <<>>
    /\ worker' = [worker EXCEPT ![w] = "processing"]
    /\ job' = [job EXCEPT ![w] = t]
    /\ taskChan' = SubSeq(taskChan, 1, Len(taskChan) - 1)
    /\ received' = Append(received, t)
    /\ UNCHANGED <<stopChan, stopCall, refused, outcome, accepted>>

\* worker, the receive case of its select, and processTask up to Execute.
WorkerReceive(w) ==
    /\ worker[w] = "select"
    /\ taskChan # <<>>
    /\ worker' = [worker EXCEPT ![w] = "processing"]
    /\ job' = [job EXCEPT ![w] = Head(taskChan)]
    /\ taskChan' = Tail(taskChan)
    /\ received' = Append(received, Head(taskChan))
    /\ UNCHANGED <<stopChan, stopCall, refused, outcome, accepted>>

\* A worker goroutine that dies of a failed task.
ProcessTask_FailureEndsWorker(w, result) ==
    /\ worker[w] = "processing"
    /\ outcome' = [outcome EXCEPT ![job[w]] = result]
    /\ worker' = [worker EXCEPT ![w] =
                     IF result = "failed" THEN "exited" ELSE "select"]
    /\ job' = [job EXCEPT ![w] = NoTask]
    /\ UNCHANGED <<taskChan, stopChan, stopCall, refused, accepted, received>>

\* processTask from the return of Execute: the task ends with or without an
\* error, there is no second attempt, and the worker goes back to its select.
ProcessTask(w, result) ==
    /\ worker[w] = "processing"
    /\ outcome' = [outcome EXCEPT ![job[w]] = result]
    /\ worker' = [worker EXCEPT ![w] = "select"]
    /\ job' = [job EXCEPT ![w] = NoTask]
    /\ UNCHANGED <<taskChan, stopChan, stopCall, refused, accepted, received>>

\* worker, the stopChan case of its select.
WorkerExit(w) ==
    /\ worker[w] = "select"
    /\ stopChan = "closed"
    /\ worker' = [worker EXCEPT ![w] = "exited"]
    /\ UNCHANGED <<taskChan, stopChan, stopCall, job, refused, outcome,
                   accepted, received>>

\* Stop: close(stopChan), then wg.Wait.
Stop == /\ stopCall = "none"
        /\ stopChan' = "closed"
        /\ stopCall' = "waiting"
        /\ UNCHANGED <<taskChan, worker, job, refused, outcome, accepted,
                       received>>

\* A Stop that does not wait for the workers.
StopReturn_NoWait ==
    /\ stopCall = "waiting"
    /\ stopCall' = "returned"
    /\ UNCHANGED <<taskChan, stopChan, worker, job, refused, outcome,
                   accepted, received>>

StopReturn == /\ stopCall = "waiting"
              /\ \A w \in Worker : worker[w] = "exited"
              /\ stopCall' = "returned"
              /\ UNCHANGED <<taskChan, stopChan, worker, job, refused, outcome,
                             accepted, received>>

WorkerStep(w) == \/ WorkerReceive(w)
                 \/ \E result \in {"ok", "failed"} : ProcessTask(w, result)
                 \/ WorkerExit(w)

Next == \/ \E t \in Task : Enqueue(t)
        \/ \E w \in Worker : WorkerStep(w)
        \/ Stop
        \/ StopReturn

Spec == Init /\ [][Next]_vars

\* Every goroutine that can take a step is eventually scheduled, and Execute
\* returns (its HTTP calls carry their own timeouts).  Nothing makes a caller
\* submit a task or deactivate the plugin.
Fairness == /\ \A w \in Worker : WF_vars(WorkerStep(w))
            /\ WF_vars(StopReturn)

FairSpec == Spec /\ Fairness

-----------------------------------------------------------------------------
(* Properties *)

\* The channel hands tasks to the workers in the order Enqueue accepted them,
\* none twice and none skipped, however many workers race for the head.
FifoHandOver == accepted = received \o taskChan

\* A task is in at most one place: it is never both buffered and being
\* executed, never held by two workers, never executed again once it ended,
\* and a refused task (which its caller executes itself) is in none of them.
SinglePlace ==
    /\ \A i, j \in 1..Len(taskChan) : taskChan[i] = taskChan[j] => i = j
    /\ \A w \in Worker : worker[w] = "processing" <=> job[w] # NoTask
    /\ \A v, w \in Worker : job[v] = job[w] /\ job[v] # NoTask => v = w
    /\ \A t \in Task :
         /\ In(t, taskChan) => \A w \in Worker : job[w] # t
         /\ outcome[t] # "none" => /\ ~In(t, taskChan)
                                   /\ \A w \in Worker : job[w] # t
         /\ t \in refused => /\ ~In(t, accepted)
                             /\ ~In(t, taskChan)
                             /\ \A w \in Worker : job[w] # t
                             /\ outcome[t] = "none"

\* When Stop has returned, no worker is executing a task and none can start
\* one: what OnDeactivate does next runs alone.
StoppedIsQuiet ==
    stopCall = "returned" => \A w \in Worker : worker[w] = "exited"

\* A finished task has overtaken at most Cardinality(Worker) - 1 of the tasks
\* accepted before it: the reordering of edits and events that the pool can
\* cause is bounded by the number of its workers.
OvertakeBound ==
    \A i \in 1..Len(accepted) :
        outcome[accepted[i]] # "none" =>
            Cardinality({j \in 1..(i - 1) : outcome[accepted[j]] = "none"})
                < Cardinality(Worker)

\* Nothing that was accepted is forgotten while the plugin runs: it ends
\* unless Stop is called first.
AcceptedEnds ==
    \A t \in Task : In(t, accepted) ~> (outcome[t] # "none" \/ stopChan = "closed")

\* Stop returns: no worker can keep OnDeactivate in wg.Wait for ever.
StopEnds == (stopCall = "waiting") ~> (stopCall = "returned")

\* Both: the pool neither forgets nor hangs.
Ends == AcceptedEnds /\ StopEnds

\* The pool implements TaskPool: the task's place tells how far it has come.
statusBar ==
    [t \in Task |->
        IF t \in refused THEN "refused"
        ELSE IF outcome[t] # "none" THEN "finished"
        ELSE IF \E w \in Worker : job[w] = t THEN "running"
        ELSE IF In(t, taskChan) THEN "accepted"
        ELSE "new"]

phaseBar == IF stopCall = "none" THEN "open"
            ELSE IF stopCall = "waiting" THEN "closing"
            ELSE "down"

Pool == INSTANCE TaskPool WITH status <- statusBar, phase <- phaseBar

\* Every behaviour of the queue is a behaviour of the abstract pool.
ImplementsPool == Pool!Spec
=============================================================================
