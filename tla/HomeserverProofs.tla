--------------------------- MODULE HomeserverProofs ---------------------------
(***************************************************************************)
(* What comes from the homeserver and what goes to it.  First the intake   *)
(* of events (MatrixIntake), for every number of transactions, deliveries, *)
(* crashes and overlaps and every queue: how often an event is executed,   *)
(* what may be lost, and how far events are reordered.  Then the limiter   *)
(* of requests (TokenBucket): its types, the bound on what it lets         *)
(* through, and that it lets through no less.  BurstBound speaks of the    *)
(* past and not of the tokens, so it is not inductive; Paid adds what the  *)
(* tokens still in the bucket will allow.  LimitIsExact needs what every   *)
(* waiting call has seen so far (WInv).                                    *)
(***************************************************************************)
EXTENDS MatrixIntake, TokenBucket, Integers, FiniteSetTheorems, TLAPS

Submitting == {"submitting", "executing"}

-----------------------------------------------------------------------------
(* What handlers and tasks know *)

\* Handlers that have not got to the events; those that executed one themselves.
Requests ==
    \A r \in Request :
        /\ handler[r] = "unsent" <=> reqTxn[r] = 0
        /\ reqTxn[r] <= sending
        /\ handler[r] \notin Submitting \cup {"ok", "dead"} => next[r] = 1
        /\ handler[r] = "executing" => next[r] <= TxnSize
        /\ handler[r] = "dead" => crashes > 0

\* The pool has only what its handler has gone past, and buffers it once.
Tasks ==
    /\ \A k \in 1..Len(taskChan) : taskChan[k][2] < next[taskChan[k][1]]
    /\ \A k, l \in 1..Len(taskChan) : taskChan[k] = taskChan[l] => k = l
    /\ \A w \in Worker : /\ worker[w] = "processing" <=> job[w] # NoTask
                         /\ job[w] # NoTask => job[w][2] < next[job[w][1]]

\* Nobody comes back to a transaction that may be forgotten.
Olds ==
    \A x \in Txn :
        processed[x] = "old" =>
            /\ x < sending
            /\ \A r \in Request : reqTxn[r] = x => handler[r] \notin InHandler

Formed == TypeOK /\ Requests /\ Tasks /\ Olds

-----------------------------------------------------------------------------
(* Pieces *)

LEMMA Constants ==
    /\ MaxTxn \in Nat /\ TxnSize \in Nat /\ MaxRequest \in Nat
    /\ BufferSize \in Nat \ {0} /\ IsFiniteSet(Worker) /\ NoTask \notin Task
BY MatrixIntakeAssumption DEF Task, Request

\* A task is a request and the index of an event.
LEMMA TaskParts ==
    ASSUME NEW t \in Task
    PROVE  t = <<t[1], t[2]>> /\ t[1] \in Request /\ t[2] \in 1..TxnSize /\ t[2] \in Nat
BY Constants DEF Task

LEMMA EventParts ==
    ASSUME NEW e \in Event
    PROVE  /\ e = <<e[1], e[2]>> /\ e[1] \in Txn /\ e[2] \in 1..TxnSize
           /\ e[1] \in Nat /\ e[2] \in Nat /\ e[1] >= 1 /\ e[2] >= 1
BY Constants DEF Event, Txn

\* The queue and the functions of the state, each with its type.
LEMMA Types ==
    ASSUME Formed
    PROVE  /\ taskChan \in Seq(Task) /\ Len(taskChan) \in Nat /\ Len(taskChan) <= BufferSize
           /\ \A k \in 1..Len(taskChan) : taskChan[k] \in Task
           /\ worker \in [Worker -> {"select", "processing", "exited"}]
           /\ job \in [Worker -> Task \cup {NoTask}]
           /\ sending \in Nat /\ sending \in 1..(MaxTxn + 1)
           /\ reqTxn \in [Request -> 0..MaxTxn] /\ \A r \in Request : reqTxn[r] \in Nat
           /\ handler \in [Request -> HandlerState]
           /\ next \in [Request -> 1..(TxnSize + 1)] /\ \A r \in Request : next[r] \in Nat
           /\ processed \in [Txn -> {"absent", "recent", "old"}]
           /\ ran \in [Event -> Nat] /\ finished \in SUBSET Event
           /\ crashes \in Nat /\ overlaps \in Nat
<1>1. taskChan \in Seq(Task)
  BY DEF Formed, TypeOK, Queue!TypeOK
<1>2. Len(taskChan) \in Nat /\ \A k \in 1..Len(taskChan) : taskChan[k] \in Task
  BY <1>1
<1>. QED  BY <1>1, <1>2, Constants DEF Formed, TypeOK, Queue!TypeOK

\* What the pool has belongs to a transaction that was sent.
LEMMA SentRequest ==
    ASSUME Formed, NEW r \in Request, handler[r] # "unsent" \/ next[r] > 1
    PROVE  reqTxn[r] \in Txn /\ reqTxn[r] # 0
<1>1. handler[r] = "unsent" => next[r] = 1
  BY DEF Formed, Requests, Submitting
<1>2. handler[r] # "unsent"
  BY <1>1
<1>3. reqTxn[r] # 0 /\ reqTxn[r] \in 0..MaxTxn
  BY <1>2, Types DEF Formed, Requests
<1>. QED  BY <1>3, Constants DEF Txn

LEMMA BufferedEvent ==
    ASSUME Formed, NEW t \in Task, t[2] < next[t[1]]
    PROVE  EventOfTask(t) \in Event /\ EventOfTask(t) = <<reqTxn[t[1]], t[2]>>
<1>1. next[t[1]] > 1 /\ t[1] \in Request
  BY TaskParts, Types
<1>2. reqTxn[t[1]] \in Txn
  BY <1>1, SentRequest
<1>. QED  BY <1>2, TaskParts DEF EventOfTask, EventOf, Event

-----------------------------------------------------------------------------
(* What the steps do *)

queueData == <<taskChan, worker, job>>

\* A handler goes on: its state and index change, those of others do not.
Moves(r, h, n) ==
    /\ handler' = [handler EXCEPT ![r] = h]
    /\ \A q \in Request : handler'[q] = IF q = r THEN h ELSE handler[q]
    /\ \A q \in Request : next'[q] = IF q = r THEN n ELSE next[q]

\* A handler that goes on leaves what it knows, and the pool, in order.
LEMMA MovesFormed ==
    ASSUME Formed, NEW r \in Request, NEW h \in HandlerState, NEW n \in 1..(TxnSize + 1),
           Moves(r, h, n), next' = [next EXCEPT ![r] = n], n >= next[r],
           handler[r] \in InHandler, h \notin {"unsent", "arrived", "dead"},
           h \notin Submitting \cup {"ok"} => n = 1,
           h = "executing" => n <= TxnSize,
           UNCHANGED <<sending, reqTxn, crashes>>
    PROVE  /\ Requests'
           /\ handler' \in [Request -> HandlerState] /\ next' \in [Request -> 1..(TxnSize + 1)]
           /\ UNCHANGED <<taskChan, worker, job>> => Tasks'
           /\ UNCHANGED processed => Olds'
<1>1. /\ handler' \in [Request -> HandlerState] /\ next' \in [Request -> 1..(TxnSize + 1)]
      /\ handler[r] # "unsent" /\ h # "unsent" 
  BY Types DEF InHandler, Moves
<1>2. Requests'
  BY <1>1 DEF Formed, Requests, Moves
<1>3. ASSUME UNCHANGED <<taskChan, worker, job>>  PROVE Tasks'
  <2>1. \A q \in Request : next'[q] >= next[q] /\ next'[q] \in Nat
    BY Types, <1>1, Constants DEF Moves
  <2>2. \A t \in Task : t[2] < next[t[1]] => t[2] < next'[t[1]]
    BY <2>1, TaskParts, Types
  <2>. QED  BY <1>3, <2>2, Types DEF Formed, Tasks
<1>4. ASSUME UNCHANGED processed  PROVE Olds'
  BY <1>1, <1>4 DEF Formed, Olds, Moves
<1>. QED  BY <1>1, <1>2, <1>3, <1>4

LEMMA SendSteps ==
    ASSUME Formed, NEW r \in Request, Send(r)
    PROVE  /\ handler[r] = "unsent" /\ sending \in Txn /\ Moves(r, "arrived", 1) /\ next' = next
           /\ \A q \in Request : reqTxn'[q] = IF q = r THEN sending ELSE reqTxn[q]
           /\ overlaps' = IF \E q \in Request : handler[q] \in InHandler
                          THEN overlaps + 1 ELSE overlaps
           /\ UNCHANGED <<sending, processed, ran, finished, crashes, queueData>>
           /\ Formed'
<1>1. /\ handler[r] = "unsent" /\ sending \in Txn /\ next' = next /\ next[r] = 1
      /\ reqTxn' = [reqTxn EXCEPT ![r] = sending]
      /\ handler' = [handler EXCEPT ![r] = "arrived"]
      /\ overlaps' = IF \E q \in Request : handler[q] \in InHandler
                     THEN overlaps + 1 ELSE overlaps
      /\ crashes + overlaps' <= MaxMishap
      /\ UNCHANGED <<sending, processed, cleanups, ran, finished, crashes, queueVars>>
  BY DEF Send, Formed, Requests, Submitting
<1>2. UNCHANGED <<queueData, taskChan, worker, job>> /\ Moves(r, "arrived", 1)
  BY <1>1, Types DEF queueVars, queueData, Moves
<1>3. /\ reqTxn' \in [Request -> 0..MaxTxn] /\ overlaps' \in Nat /\ sending # 0
      /\ \A q \in Request : reqTxn'[q] = IF q = r THEN sending ELSE reqTxn[q]
      /\ handler' \in [Request -> HandlerState]
  BY <1>1, Types, Constants DEF Txn, HandlerState, InHandler
<1>4. TypeOK'
  BY <1>1, <1>3 DEF Formed, TypeOK, Queue!TypeOK, queueVars
<1>5. Requests'
  BY <1>1, <1>2, <1>3, Types DEF Formed, Requests, Moves, Submitting
<1>6. Tasks'
  BY <1>1, <1>2 DEF Formed, Tasks
<1>7. Olds'
  BY <1>1, <1>2, <1>3, Types DEF Formed, Olds, Moves
<1>. QED  BY <1>1, <1>2, <1>3, <1>4, <1>5, <1>6, <1>7 DEF Formed

LEMMA SeeOkSteps ==
    ASSUME Formed, NEW r \in Request, SeeOk(r)
    PROVE  /\ handler[r] = "ok" /\ reqTxn[r] = sending /\ sending \in Txn /\ sending' = sending + 1
           /\ UNCHANGED <<reqTxn, handler, next, processed, ran, finished, crashes, overlaps,
                          queueData>>
           /\ Formed'
<1>1. /\ handler[r] = "ok" /\ reqTxn[r] = sending /\ sending' = sending + 1
      /\ UNCHANGED <<reqTxn, handler, next, processed, cleanups, ran, finished, crashes,
                     overlaps, queueVars>>
  BY DEF SeeOk
<1>2. UNCHANGED <<queueData, taskChan, worker, job>>
  BY <1>1 DEF queueVars, queueData
<1>3. sending \in Txn /\ sending' \in 1..(MaxTxn + 1) /\ sending < sending'
  BY <1>1, SentRequest, Types, Constants DEF Txn
<1>4. TypeOK'
  BY <1>1, <1>3 DEF Formed, TypeOK, Queue!TypeOK, queueVars
<1>5. Requests'
  BY <1>1, <1>3, Types DEF Formed, Requests
<1>6. Tasks' /\ Olds'
  BY <1>1, <1>2, <1>3, Types DEF Formed, Tasks, Olds, Txn
<1>. QED  BY <1>1, <1>2, <1>3, <1>4, <1>5, <1>6 DEF Formed

\* Answers that change nothing else: 503 before the lookup, 400 after it.
LEMMA RefusalSteps ==
    ASSUME Formed, NEW r \in Request, Unavailable(r) \/ BadBody(r)
    PROVE  /\ handler[r] \in {"arrived", "checked"} /\ next[r] = 1 /\ next' = next
           /\ \E h \in {"503", "400"} : Moves(r, h, 1)
           /\ UNCHANGED <<hsVars, processed, ran, finished, crashes, overlaps, queueData>>
           /\ Formed'
<1>1. PICK h \in {"503", "400"} :
         /\ handler[r] \in {"arrived", "checked"}
         /\ handler' = [handler EXCEPT ![r] = h]
         /\ UNCHANGED <<hsVars, overlaps, next, processed, cleanups, ran, finished, crashes,
                        queueVars>>
  BY DEF Unavailable, BadBody
<1>2. UNCHANGED <<queueData, taskChan, worker, job, sending, reqTxn>>
  BY <1>1 DEF queueVars, queueData, hsVars
<1>3. next[r] = 1
  BY <1>1 DEF Formed, Requests, Submitting
<1>4. Moves(r, h, 1) /\ next' = [next EXCEPT ![r] = 1]
  BY <1>1, <1>3, Types DEF Moves
<1>5. /\ h \in HandlerState /\ 1 \in 1..(TxnSize + 1) /\ 1 >= next[r]
      /\ handler[r] \in InHandler /\ h \notin {"unsent", "arrived", "dead", "executing"}
  BY <1>1, <1>3, Constants DEF HandlerState, Answered, InHandler
<1>6. /\ Requests' /\ Tasks' /\ Olds'
      /\ handler' \in [Request -> HandlerState] /\ next' \in [Request -> 1..(TxnSize + 1)]
  BY <1>1, <1>2, <1>3, <1>4, <1>5, MovesFormed
<1>7. TypeOK'
  BY <1>1, <1>2, <1>6 DEF Formed, TypeOK, Queue!TypeOK, queueVars
<1>. QED  BY <1>1, <1>2, <1>3, <1>4, <1>6, <1>7 DEF Formed

LEMMA CheckDuplicateSteps ==
    ASSUME Formed, NEW r \in Request, CheckDuplicate(r)
    PROVE  /\ handler[r] = "arrived" /\ next[r] = 1 /\ next' = next /\ reqTxn[r] \in Txn
           /\ \/ processed[reqTxn[r]] = "absent" /\ Moves(r, "checked", 1)
              \/ processed[reqTxn[r]] # "absent" /\ Moves(r, "ok", 1)
           /\ UNCHANGED <<hsVars, processed, ran, finished, crashes, overlaps, queueData>>
           /\ Formed'
<1>1. PICK h \in {"checked", "ok"} :
         /\ handler[r] = "arrived"
         /\ handler' = [handler EXCEPT ![r] = h]
         /\ h = "checked" <=> processed[reqTxn[r]] = "absent"
         /\ UNCHANGED <<hsVars, overlaps, next, processed, cleanups, ran, finished, crashes,
                        queueVars>>
  BY DEF CheckDuplicate
<1>2. UNCHANGED <<queueData, taskChan, worker, job, sending, reqTxn>>
  BY <1>1 DEF queueVars, queueData, hsVars
<1>3. next[r] = 1 /\ reqTxn[r] \in Txn
  BY <1>1, SentRequest DEF Formed, Requests, Submitting
<1>4. Moves(r, h, 1) /\ next' = [next EXCEPT ![r] = 1]
  BY <1>1, <1>3, Types DEF Moves
<1>5. /\ h \in HandlerState /\ 1 \in 1..(TxnSize + 1) /\ 1 >= next[r]
      /\ handler[r] \in InHandler /\ h \notin {"unsent", "arrived", "dead", "executing"}
  BY <1>1, <1>3, Constants DEF HandlerState, Answered, InHandler
<1>6. /\ Requests' /\ Tasks' /\ Olds'
      /\ handler' \in [Request -> HandlerState] /\ next' \in [Request -> 1..(TxnSize + 1)]
  BY <1>1, <1>2, <1>3, <1>4, <1>5, MovesFormed
<1>7. TypeOK'
  BY <1>1, <1>2, <1>6 DEF Formed, TypeOK, Queue!TypeOK, queueVars
<1>. QED  BY <1>1, <1>2, <1>3, <1>4, <1>6, <1>7 DEF Formed

LEMMA MarkProcessedSteps ==
    ASSUME Formed, NEW r \in Request, MarkProcessed(r)
    PROVE  /\ handler[r] = "checked" /\ next[r] = 1 /\ next' = next /\ reqTxn[r] \in Txn
           /\ Moves(r, "submitting", 1)
           /\ \A x \in Txn : processed'[x] = IF x = reqTxn[r] THEN "recent" ELSE processed[x]
           /\ UNCHANGED <<hsVars, ran, finished, crashes, overlaps, queueData>>
           /\ Formed'
<1>1. /\ handler[r] = "checked"
      /\ handler' = [handler EXCEPT ![r] = "submitting"]
      /\ processed' = [processed EXCEPT ![reqTxn[r]] = "recent"]
      /\ UNCHANGED <<hsVars, overlaps, next, ran, finished, crashes, queueVars>>
  BY DEF MarkProcessed
<1>2. UNCHANGED <<queueData, taskChan, worker, job, sending, reqTxn>>
  BY <1>1 DEF queueVars, queueData, hsVars
<1>3. next[r] = 1 /\ reqTxn[r] \in Txn
  BY <1>1, SentRequest DEF Formed, Requests, Submitting
<1>4. Moves(r, "submitting", 1) /\ next' = [next EXCEPT ![r] = 1]
  BY <1>1, <1>3, Types DEF Moves
<1>5. /\ "submitting" \in HandlerState /\ 1 \in 1..(TxnSize + 1) /\ 1 >= next[r]
      /\ handler[r] \in InHandler
  BY <1>1, <1>3, Constants DEF HandlerState, InHandler
<1>6. /\ Requests' /\ Tasks'
      /\ handler' \in [Request -> HandlerState] /\ next' \in [Request -> 1..(TxnSize + 1)]
  BY <1>1, <1>2, <1>3, <1>4, <1>5, MovesFormed
<1>7. /\ \A x \in Txn : processed'[x] = IF x = reqTxn[r] THEN "recent" ELSE processed[x]
      /\ processed' \in [Txn -> {"absent", "recent", "old"}]
  BY <1>1, Types
<1>8. cleanups' \in Nat
  BY DEF MarkProcessed, Formed, TypeOK
<1>9. Olds'
  BY <1>1, <1>2, <1>4, <1>7 DEF Formed, Olds, Moves, InHandler
<1>10. TypeOK'
  BY <1>1, <1>2, <1>6, <1>7, <1>8 DEF Formed, TypeOK, Queue!TypeOK, queueVars
<1>. QED  BY <1>1, <1>2, <1>3, <1>4, <1>6, <1>7, <1>9, <1>10 DEF Formed

-----------------------------------------------------------------------------
(* Steps that touch the pool *)

Buffered(t) == Queue!In(t, taskChan)
Pooled(t) == Buffered(t) \/ \E w \in Worker : job[w] = t

LEMMA BufferedIs ==
    ASSUME Formed, NEW t, Buffered(t)
    PROVE  /\ t \in Task /\ t[2] < next[t[1]]
           /\ \E k \in 1..Len(taskChan) : taskChan[k] = t
BY Types DEF Buffered, Queue!In, Formed, Tasks

LEMMA PooledIs ==
    ASSUME Formed, NEW t \in Task, Pooled(t)
    PROVE  t[2] < next[t[1]] /\ t[1] \in Request /\ t[2] \in 1..TxnSize /\ reqTxn[t[1]] \in Txn
<1>1. t[2] < next[t[1]]
  BY BufferedIs, Constants DEF Pooled, Formed, Tasks
<1>2. t[1] \in Request /\ t[2] \in 1..TxnSize /\ next[t[1]] > 1
  BY <1>1, TaskParts, Types
<1>. QED  BY <1>1, <1>2, SentRequest

\* Enqueue accepts an event.
Accepts(r) ==
    /\ \A t : Buffered(t)' <=> Buffered(t) \/ t = <<r, next[r]>>
    /\ Moves(r, "submitting", next[r] + 1)
    /\ UNCHANGED <<worker, job, ran>>

\* The queue is full: the handler executes the event itself.
Refuses(r) ==
    /\ Moves(r, "executing", next[r])
    /\ \A e \in Event : ran'[e] = IF e = EventOf(r, next[r]) THEN ran[e] + 1 ELSE ran[e]
    /\ UNCHANGED <<next, queueData>>

LEMMA SubmitEventSteps ==
    ASSUME Formed, NEW r \in Request, SubmitEvent(r)
    PROVE  /\ handler[r] = "submitting" /\ next[r] \in 1..TxnSize /\ reqTxn[r] \in Txn
           /\ ~Buffered(<<r, next[r]>>) /\ <<r, next[r]>> \in Task
           /\ EventOf(r, next[r]) \in Event
           /\ Accepts(r) \/ Refuses(r)
           /\ UNCHANGED <<hsVars, processed, finished, crashes, overlaps>>
           /\ Formed'
<1>0. PICK n, t : n = next[r] /\ t = <<r, n>>
  OBVIOUS
<1>1. /\ handler[r] = "submitting" /\ n \in 1..TxnSize /\ n \in Nat /\ reqTxn[r] \in Txn
      /\ t \in Task /\ EventOf(r, n) \in Event
      /\ UNCHANGED <<hsVars, overlaps, processed, cleanups, finished, crashes>>
      /\ UNCHANGED <<sending, reqTxn>>
  <2>1. handler[r] = "submitting" /\ n <= TxnSize /\ n \in 1..(TxnSize + 1)
        /\ UNCHANGED <<hsVars, overlaps, processed, cleanups, finished, crashes>>
    BY <1>0, Types DEF SubmitEvent
  <2>2. reqTxn[r] \in Txn
    BY <2>1, SentRequest
  <2>. QED  BY <1>0, <2>1, <2>2, Constants DEF hsVars, Task, Event, EventOf
<1>2. ~Buffered(t) /\ t[1] = r /\ t[2] = n
  BY <1>0, <1>1, BufferedIs
<1>3. /\ "submitting" \in HandlerState /\ "executing" \in HandlerState
      /\ n + 1 \in 1..(TxnSize + 1) /\ n \in 1..(TxnSize + 1) /\ handler[r] \in InHandler
      /\ n + 1 >= next[r] /\ n >= next[r] /\ n <= TxnSize
      /\ "submitting" \in Submitting /\ "executing" \in Submitting
  BY <1>0, <1>1, Constants DEF HandlerState, InHandler, Submitting
<1>4. CASE Queue!EnqueueSend(t)
  <2>1. /\ taskChan' = Append(taskChan, t) /\ Len(taskChan) < BufferSize
        /\ accepted' = Append(accepted, t)
        /\ UNCHANGED <<stopChan, stopCall, worker, job, refused, outcome, received>>
    BY <1>4 DEF Queue!EnqueueSend
  <2>2. PICK l : l = Len(taskChan) /\ l \in Nat
    BY Types
  <2>3. /\ Len(taskChan') = l + 1 /\ taskChan' \in Seq(Task)
        /\ \A k \in 1..(l + 1) : taskChan'[k] = IF k = l + 1 THEN t ELSE taskChan[k]
    BY <1>1, <2>1, <2>2, Types
  <2>4. next' = [next EXCEPT ![r] = n + 1] /\ UNCHANGED <<handler, ran>>
    <3>1. taskChan' # taskChan
      BY <2>2, <2>3
    <3>. QED  BY <1>0, <3>1 DEF SubmitEvent
  <2>5. Moves(r, "submitting", n + 1)
    BY <1>1, <2>4, Types DEF Moves
  <2>6. \A u : Buffered(u)' <=> Buffered(u) \/ u = t
    BY <2>2, <2>3 DEF Buffered, Queue!In
  <2>7. /\ Requests' /\ Olds'
        /\ handler' \in [Request -> HandlerState] /\ next' \in [Request -> 1..(TxnSize + 1)]
    BY <1>1, <1>3, <2>4, <2>5, MovesFormed
  <2>8. Tasks'
    <3>1. \A k \in 1..l : taskChan[k] # t /\ taskChan[k] \in Task
      BY <1>2, <2>2, Types DEF Buffered, Queue!In
    <3>2. ASSUME NEW u \in Task, u[2] < next[u[1]]  PROVE u[2] < next'[u[1]]
      <4>1. u[1] \in Request /\ u[2] \in Nat
        BY TaskParts
      <4>2. next'[u[1]] = IF u[1] = r THEN n + 1 ELSE next[u[1]]
        BY <2>5, <4>1 DEF Moves
      <4>. QED  BY <1>0, <1>1, <3>2, <4>1, <4>2
    <3>3. t[2] < next'[t[1]]
      BY <1>1, <1>2, <2>5 DEF Moves
    <3>4. \A k \in 1..Len(taskChan') : taskChan'[k][2] < next'[taskChan'[k][1]]
      BY <2>2, <2>3, <3>1, <3>2, <3>3 DEF Formed, Tasks
    <3>5. \A k, m \in 1..Len(taskChan') : taskChan'[k] = taskChan'[m] => k = m
      BY <2>2, <2>3, <3>1 DEF Formed, Tasks
    <3>6. \A w \in Worker : job[w] # NoTask => job[w] \in Task
      BY Types
    <3>. QED  BY <2>1, <3>2, <3>4, <3>5, <3>6 DEF Formed, Tasks
  <2>9. TypeOK'
    <3>1. accepted' \in Seq(Task)
      BY <1>1, <2>1 DEF Formed, TypeOK, Queue!TypeOK
    <3>2. Len(taskChan') <= BufferSize
      BY <2>1, <2>2, <2>3, Constants
    <3>3. Queue!TypeOK'
      BY <2>1, <2>3, <3>1, <3>2 DEF Formed, TypeOK, Queue!TypeOK
    <3>. QED  BY <1>1, <2>4, <2>7, <3>3 DEF Formed, TypeOK
  <2>10. Accepts(r)
    BY <1>0, <2>1, <2>4, <2>5, <2>6 DEF Accepts
  <2>. QED  BY <1>0, <1>1, <1>2, <2>7, <2>8, <2>9, <2>10 DEF Formed
<1>5. CASE Queue!EnqueueFull(t)
  <2>1. /\ refused' = refused \cup {t} /\ queueData' = queueData
        /\ UNCHANGED <<taskChan, stopChan, stopCall, worker, job, outcome, accepted, received>>
    BY <1>5 DEF Queue!EnqueueFull, queueData
  <2>2. /\ handler' = [handler EXCEPT ![r] = "executing"] /\ UNCHANGED next
        /\ ran' = [ran EXCEPT ![EventOf(r, n)] = @ + 1]
    BY <1>0, <2>1 DEF SubmitEvent
  <2>3. Moves(r, "executing", n) /\ next' = [next EXCEPT ![r] = n]
    BY <1>0, <1>1, <2>2, Types DEF Moves
  <2>4. /\ \A e \in Event : ran'[e] = IF e = EventOf(r, n) THEN ran[e] + 1 ELSE ran[e]
        /\ ran' \in [Event -> Nat]
    BY <1>1, <2>2, Types
  <2>5. /\ Requests' /\ Tasks' /\ Olds'
        /\ handler' \in [Request -> HandlerState] /\ next' \in [Request -> 1..(TxnSize + 1)]
    BY <1>1, <1>3, <2>1, <2>3, MovesFormed
  <2>6. TypeOK'
    BY <1>1, <2>1, <2>4, <2>5 DEF Formed, TypeOK, Queue!TypeOK
  <2>7. Refuses(r)
    BY <1>0, <2>1, <2>2, <2>3, <2>4 DEF Refuses
  <2>. QED  BY <1>0, <1>1, <1>2, <2>5, <2>6, <2>7 DEF Formed
<1>. QED  BY <1>0, <1>4, <1>5 DEF SubmitEvent, Queue!Enqueue

LEMMA ExecuteInHandlerSteps ==
    ASSUME Formed, NEW r \in Request, ExecuteInHandler(r)
    PROVE  /\ handler[r] = "executing" /\ next[r] \in 1..TxnSize /\ reqTxn[r] \in Txn
           /\ EventOf(r, next[r]) \in Event
           /\ Moves(r, "submitting", next[r] + 1)
           /\ finished' = finished \cup {EventOf(r, next[r])}
           /\ UNCHANGED <<hsVars, processed, ran, crashes, overlaps, queueData>>
           /\ Formed'
<1> DEFINE n == next[r]
<1>1. /\ handler[r] = "executing" /\ n \in 1..TxnSize /\ n \in Nat
      /\ handler' = [handler EXCEPT ![r] = "submitting"]
      /\ next' = [next EXCEPT ![r] = n + 1]
      /\ finished' = finished \cup {EventOf(r, n)}
      /\ UNCHANGED <<hsVars, overlaps, processed, cleanups, ran, crashes, queueVars>>
      /\ UNCHANGED <<sending, reqTxn, taskChan, worker, job, queueData>>
  BY Types DEF ExecuteInHandler, Formed, Requests, queueVars, queueData, hsVars
<1>2. reqTxn[r] \in Txn
  BY <1>1, SentRequest
<1>3. EventOf(r, n) \in Event
  BY <1>1, <1>2 DEF Event, EventOf
<1>4. /\ "submitting" \in HandlerState /\ handler[r] \in InHandler
      /\ n + 1 \in 1..(TxnSize + 1) /\ n + 1 >= n /\ "submitting" \in Submitting
  BY <1>1, Constants DEF HandlerState, InHandler, Submitting
<1>5. Moves(r, "submitting", n + 1)
  BY <1>1, Types DEF Moves
<1>6. /\ Requests' /\ Tasks' /\ Olds'
      /\ handler' \in [Request -> HandlerState] /\ next' \in [Request -> 1..(TxnSize + 1)]
  BY <1>1, <1>4, <1>5, MovesFormed
<1>7. TypeOK'
  BY <1>1, <1>3, <1>6 DEF Formed, TypeOK, Queue!TypeOK, queueVars
<1>. QED  BY <1>1, <1>2, <1>3, <1>5, <1>6, <1>7 DEF Formed

LEMMA AnswerSteps ==
    ASSUME Formed, NEW r \in Request, Answer(r)
    PROVE  /\ handler[r] = "submitting" /\ next[r] = TxnSize + 1 /\ reqTxn[r] \in Txn
           /\ Moves(r, "ok", next[r])
           /\ UNCHANGED <<hsVars, next, processed, ran, finished, crashes, overlaps, queueData>>
           /\ Formed'
<1> DEFINE n == next[r]
<1>1. /\ handler[r] = "submitting" /\ n = TxnSize + 1 /\ n \in 1..(TxnSize + 1) /\ n \in Nat
      /\ handler' = [handler EXCEPT ![r] = "ok"]
      /\ UNCHANGED <<hsVars, overlaps, next, processed, cleanups, ran, finished, crashes,
                     queueVars>>
      /\ UNCHANGED <<sending, reqTxn, taskChan, worker, job, queueData>>
  BY Types DEF Answer, queueVars, queueData, hsVars
<1>2. reqTxn[r] \in Txn
  BY <1>1, SentRequest
<1>3. "ok" \in HandlerState /\ handler[r] \in InHandler /\ n >= n
  BY <1>1 DEF HandlerState, InHandler, Answered
<1>4. Moves(r, "ok", n) /\ next' = [next EXCEPT ![r] = n]
  BY <1>1, Types DEF Moves
<1>5. /\ Requests' /\ Tasks' /\ Olds'
      /\ handler' \in [Request -> HandlerState] /\ next' \in [Request -> 1..(TxnSize + 1)]
  BY <1>1, <1>3, <1>4, MovesFormed
<1>6. TypeOK'
  BY <1>1, <1>5 DEF Formed, TypeOK, Queue!TypeOK, queueVars
<1>. QED  BY <1>1, <1>2, <1>4, <1>5, <1>6 DEF Formed

LEMMA WorkerBeginSteps ==
    ASSUME Formed, NEW w \in Worker, WorkerBegin(w)
    PROVE  /\ job[w] = NoTask
           /\ \E t \in Task :
                 /\ Buffered(t) /\ EventOfTask(t) \in Event
                 /\ \A u : Buffered(u)' <=> Buffered(u) /\ u # t
                 /\ \A v \in Worker : job'[v] = IF v = w THEN t ELSE job[v]
                 /\ \A e \in Event :
                       ran'[e] = IF e = EventOfTask(t) THEN ran[e] + 1 ELSE ran[e]
           /\ UNCHANGED <<hsVars, handler, next, processed, finished, crashes, overlaps>>
           /\ Formed'
<1>1. PICK t, l : t = Head(taskChan) /\ l = Len(taskChan) /\ l \in Nat
  BY Types
<1>2. /\ worker[w] = "select" /\ taskChan # <<>>
      /\ worker' = [worker EXCEPT ![w] = "processing"]
      /\ job' = [job EXCEPT ![w] = t]
      /\ taskChan' = Tail(taskChan)
      /\ received' = Append(received, t)
      /\ UNCHANGED <<stopChan, stopCall, refused, outcome, accepted>>
      /\ ran' = [ran EXCEPT ![EventOfTask(t)] = @ + 1]
      /\ UNCHANGED <<hsVars, overlaps, handler, next, processed, cleanups, finished, crashes>>
      /\ UNCHANGED <<sending, reqTxn>>
  BY <1>1 DEF WorkerBegin, Queue!WorkerReceive, hsVars
<1>3. /\ l >= 1 /\ t = taskChan[1] /\ t \in Task
      /\ taskChan' \in Seq(Task) /\ Len(taskChan') = l - 1
      /\ \A k \in 1..(l - 1) : taskChan'[k] = taskChan[k + 1]
  BY <1>1, <1>2, Types
<1>4. job[w] = NoTask
  BY <1>2 DEF Formed, Tasks
<1>5. Buffered(t)
  BY <1>1, <1>3 DEF Buffered, Queue!In
<1>6. t[2] < next[t[1]] /\ EventOfTask(t) \in Event
  BY <1>3, <1>5, BufferedIs, BufferedEvent
<1>7. \A k, m \in 1..l : taskChan[k] = taskChan[m] => k = m
  BY <1>1 DEF Formed, Tasks
<1>8. \A u : Buffered(u)' <=> Buffered(u) /\ u # t
  <2>1. ASSUME NEW u, Buffered(u), u # t  PROVE Buffered(u)'
    <3>1. PICK k \in 1..l : taskChan[k] = u
      BY <1>1, <2>1 DEF Buffered, Queue!In
    <3>2. k - 1 \in 1..(l - 1) /\ taskChan'[k - 1] = u
      BY <1>1, <1>3, <2>1, <3>1
    <3>. QED  BY <1>3, <3>2 DEF Buffered, Queue!In
  <2>2. ASSUME NEW u, Buffered(u)'  PROVE Buffered(u) /\ u # t
    <3>1. PICK k \in 1..(l - 1) : taskChan'[k] = u
      BY <1>3, <2>2 DEF Buffered, Queue!In
    <3>2. k + 1 \in 1..l /\ taskChan[k + 1] = u /\ k + 1 # 1 /\ 1 \in 1..l
      BY <1>1, <1>3, <3>1
    <3>. QED  BY <1>1, <1>3, <1>7, <3>2 DEF Buffered, Queue!In
  <2>. QED  BY <2>1, <2>2
<1>9. /\ \A v \in Worker : job'[v] = IF v = w THEN t ELSE job[v]
      /\ \A v \in Worker : worker'[v] = IF v = w THEN "processing" ELSE worker[v]
      /\ job' \in [Worker -> Task \cup {NoTask}]
      /\ worker' \in [Worker -> {"select", "processing", "exited"}]
      /\ t # NoTask
  BY <1>2, <1>3, Types, Constants
<1>10. /\ ran' \in [Event -> Nat]
       /\ \A e \in Event : ran'[e] = IF e = EventOfTask(t) THEN ran[e] + 1 ELSE ran[e]
  BY <1>2, <1>6, Types
<1>11. TypeOK'
  <2>1. received' \in Seq(Task)
    BY <1>2, <1>3 DEF Formed, TypeOK, Queue!TypeOK
  <2>2. Len(taskChan') <= BufferSize
    BY <1>1, <1>3, Types, Constants
  <2>3. Queue!TypeOK'
    BY <1>2, <1>3, <1>9, <2>1, <2>2 DEF Formed, TypeOK, Queue!TypeOK
  <2>. QED  BY <1>2, <1>10, <2>3 DEF Formed, TypeOK
<1>12. Requests' /\ Olds'
  BY <1>2 DEF Formed, Requests, Olds
<1>13. Tasks'
  <2>1. \A k \in 1..(l - 1) : k + 1 \in 1..l /\ taskChan'[k] = taskChan[k + 1]
    BY <1>1, <1>3
  <2>2. \A k \in 1..Len(taskChan') : taskChan'[k][2] < next'[taskChan'[k][1]]
    BY <1>1, <1>2, <1>3, <2>1 DEF Formed, Tasks
  <2>3. \A k, m \in 1..Len(taskChan') : taskChan'[k] = taskChan'[m] => k = m
    BY <1>1, <1>3, <1>7, <2>1
  <2>. QED  BY <1>2, <1>6, <1>9, <2>2, <2>3 DEF Formed, Tasks
<1>. QED  BY <1>2, <1>3, <1>4, <1>5, <1>6, <1>8, <1>9, <1>10, <1>11, <1>12, <1>13 DEF Formed

LEMMA WorkerEndSteps ==
    ASSUME Formed, NEW w \in Worker, WorkerEnd(w)
    PROVE  /\ job[w] \in Task /\ EventOfTask(job[w]) \in Event
           /\ \A v \in Worker : job'[v] = IF v = w THEN NoTask ELSE job[v]
           /\ finished' = finished \cup {EventOfTask(job[w])}
           /\ UNCHANGED <<hsVars, handler, next, processed, ran, taskChan, crashes, overlaps>>
           /\ Formed'
<1>1. PICK t : t = job[w]
  OBVIOUS
<1>2. PICK result \in {"ok", "failed"} : Queue!ProcessTask(w, result)
  BY DEF WorkerEnd
<1>3. /\ worker[w] = "processing"
      /\ outcome' = [outcome EXCEPT ![t] = result]
      /\ worker' = [worker EXCEPT ![w] = "select"]
      /\ job' = [job EXCEPT ![w] = NoTask]
      /\ UNCHANGED <<taskChan, stopChan, stopCall, refused, accepted, received>>
      /\ finished' = finished \cup {EventOfTask(t)}
      /\ UNCHANGED <<hsVars, overlaps, handler, next, processed, cleanups, ran, crashes>>
      /\ UNCHANGED <<sending, reqTxn>>
  BY <1>1, <1>2 DEF WorkerEnd, Queue!ProcessTask, hsVars
<1>4. t # NoTask /\ t \in Task /\ t[2] < next[t[1]]
  BY <1>1, <1>3, Types DEF Formed, Tasks
<1>5. EventOfTask(t) \in Event
  BY <1>4, BufferedEvent
<1>6. /\ \A v \in Worker : job'[v] = IF v = w THEN NoTask ELSE job[v]
      /\ \A v \in Worker : worker'[v] = IF v = w THEN "select" ELSE worker[v]
      /\ job' \in [Worker -> Task \cup {NoTask}]
      /\ worker' \in [Worker -> {"select", "processing", "exited"}]
  BY <1>3, Types
<1>7. TypeOK'
  <2>1. Queue!TypeOK'
    BY <1>3, <1>4, <1>6 DEF Formed, TypeOK, Queue!TypeOK
  <2>. QED  BY <1>3, <1>5, <2>1 DEF Formed, TypeOK
<1>8. Requests' /\ Olds'
  BY <1>3 DEF Formed, Requests, Olds
<1>9. Tasks'
  BY <1>3, <1>6 DEF Formed, Tasks
<1>. QED  BY <1>1, <1>3, <1>4, <1>5, <1>6, <1>7, <1>8, <1>9 DEF Formed

LEMMA AgingSteps ==
    ASSUME Formed, CleanupOldTransactions \/ \E x \in Txn : GrowOld(x)
    PROVE  /\ \A x \in Txn :
                 \/ processed'[x] = processed[x]
                 \/ processed[x] = "recent" /\ processed'[x] = "old"
                 \/ processed[x] = "old" /\ processed'[x] = "absent"
           /\ \A x \in Txn :
                 processed'[x] # processed[x] =>
                    /\ x < sending
                    /\ \A r \in Request : reqTxn[r] = x => handler[r] \notin InHandler
           /\ UNCHANGED <<hsVars, handler, next, ran, finished, crashes, overlaps, queueData>>
           /\ Formed'
<1>1. /\ UNCHANGED <<hsVars, overlaps, handler, next, ran, finished, crashes, queueVars>>
      /\ UNCHANGED <<sending, reqTxn, taskChan, worker, job, queueData>>
      /\ cleanups' \in Nat
  BY DEF CleanupOldTransactions, GrowOld, queueVars, queueData, hsVars, Formed, TypeOK
<1>2. /\ processed' \in [Txn -> {"absent", "recent", "old"}]
      /\ \A x \in Txn :
            \/ processed'[x] = processed[x]
            \/ processed[x] = "recent" /\ processed'[x] = "old"
            \/ processed[x] = "old" /\ processed'[x] = "absent"
      /\ \A x \in Txn :
            processed'[x] # processed[x] =>
               /\ x < sending
               /\ \A r \in Request : reqTxn[r] = x => handler[r] \notin InHandler
  <2>1. CASE CleanupOldTransactions
    BY <2>1, Types DEF CleanupOldTransactions, Formed, Olds
  <2>2. ASSUME NEW x \in Txn, GrowOld(x)
        PROVE  /\ processed' = [processed EXCEPT ![x] = "old"] /\ processed[x] = "recent"
               /\ x < sending
               /\ \A r \in Request : reqTxn[r] = x => handler[r] \notin InHandler
    BY <2>2 DEF GrowOld
  <2>. QED  BY <2>1, <2>2, Types
<1>3. TypeOK'
  BY <1>1, <1>2 DEF Formed, TypeOK, Queue!TypeOK, queueVars
<1>4. Requests' /\ Tasks'
  BY <1>1 DEF Formed, Requests, Tasks
<1>5. Olds'
  BY <1>1, <1>2 DEF Formed, Olds
<1>. QED  BY <1>1, <1>2, <1>3, <1>4, <1>5 DEF Formed

LEMMA CrashSteps ==
    ASSUME Formed, Crash
    PROVE  /\ crashes' = crashes + 1
           /\ \A r \in Request :
                 handler'[r] = IF handler[r] \in InHandler THEN "dead" ELSE handler[r]
           /\ \A x \in Txn : processed'[x] = "absent"
           /\ taskChan' = <<>>
           /\ \A t : ~Buffered(t)'
           /\ \A w \in Worker : job'[w] = NoTask
           /\ UNCHANGED <<hsVars, next, ran, finished, overlaps>>
           /\ Formed'
<1>1. /\ crashes + overlaps < MaxMishap /\ crashes' = crashes + 1
      /\ handler' = [r \in Request |->
                        IF handler[r] \in InHandler THEN "dead" ELSE handler[r]]
      /\ processed' = [x \in Txn |-> "absent"] /\ cleanups' = 0
      /\ taskChan' = <<>> /\ accepted' = <<>> /\ received' = <<>>
      /\ stopChan' = "open" /\ stopCall' = "none"
      /\ worker' = [w \in Worker |-> "select"] /\ job' = [w \in Worker |-> NoTask]
      /\ refused' = {} /\ outcome' = [t \in Task |-> "none"]
      /\ UNCHANGED <<hsVars, overlaps, next, ran, finished>>
      /\ UNCHANGED <<sending, reqTxn>>
  BY DEF Crash, hsVars
<1>2. \A t : ~Buffered(t)'
  BY <1>1 DEF Buffered, Queue!In
<1>3. handler' \in [Request -> HandlerState]
  BY <1>1, Types DEF HandlerState
<1>4. Queue!TypeOK'
  BY <1>1, Constants DEF Queue!TypeOK
<1>5. TypeOK'
  BY <1>1, <1>3, <1>4, MatrixIntakeAssumption DEF Formed, TypeOK
<1>6. Requests'
  <2>1. \A r \in Request : handler[r] \in InHandler => handler[r] # "unsent" /\ handler'[r] = "dead"
    BY <1>1 DEF InHandler
  <2>2. \A r \in Request : handler[r] \notin InHandler => handler'[r] = handler[r]
    BY <1>1
  <2>. QED  BY <1>1, <2>1, <2>2, Types DEF Formed, Requests, InHandler
<1>7. Tasks' /\ Olds'
  BY <1>1 DEF Tasks, Olds
<1>. QED  BY <1>1, <1>2, <1>5, <1>6, <1>7 DEF Formed

LEMMA InitFormed == Init => Formed
<1> SUFFICES ASSUME Init  PROVE Formed
  OBVIOUS
<1>1. TypeOK
  <2>1. Queue!TypeOK
    BY Constants DEF Init, Queue!Init, Queue!TypeOK
  <2>. QED  BY <2>1, MatrixIntakeAssumption DEF Init, TypeOK, HandlerState, Txn
<1>2. Requests /\ Tasks /\ Olds
  BY Constants DEF Init, Queue!Init, Requests, Tasks, Olds, Submitting
<1>. QED  BY <1>1, <1>2 DEF Formed

LEMMA StutterFormed ==
    ASSUME Formed, UNCHANGED vars
    PROVE  /\ UNCHANGED <<sending, reqTxn, handler, next, processed, ran, finished, crashes,
                          overlaps, taskChan, worker, job>>
           /\ Formed'
<1>1. UNCHANGED <<sending, reqTxn, handler, next, processed, cleanups, ran, finished, crashes,
                  overlaps, taskChan, stopChan, stopCall, worker, job, refused, outcome,
                  accepted, received>>
  BY DEF vars, queueVars
<1>2. TypeOK'
  BY <1>1 DEF Formed, TypeOK, Queue!TypeOK
<1>3. Requests' /\ Tasks' /\ Olds'
  BY <1>1 DEF Formed, Requests, Tasks, Olds
<1>. QED  BY <1>1, <1>2, <1>3 DEF Formed

LEMMA StepFormed == Formed /\ [Next]_vars => Formed'
<1> SUFFICES ASSUME Formed, [Next]_vars  PROVE Formed'
  OBVIOUS
<1>1. ASSUME NEW r \in Request,
             \/ Send(r) \/ SeeOk(r) \/ Unavailable(r) \/ BadBody(r) \/ HandlerStep(r)
      PROVE  Formed'
  BY <1>1, SendSteps, SeeOkSteps, RefusalSteps, CheckDuplicateSteps, MarkProcessedSteps,
     SubmitEventSteps, ExecuteInHandlerSteps, AnswerSteps DEF HandlerStep
<1>2. ASSUME NEW w \in Worker, WorkerStep(w)  PROVE Formed'
  BY <1>2, WorkerBeginSteps, WorkerEndSteps DEF WorkerStep
<1>3. CASE CleanupOldTransactions \/ \E x \in Txn : GrowOld(x)
  BY <1>3, AgingSteps
<1>4. CASE Crash
  BY <1>4, CrashSteps
<1>5. CASE UNCHANGED vars
  BY <1>5, StutterFormed
<1>. QED  BY <1>1, <1>2, <1>3, <1>4, <1>5 DEF Next

\* The queue, the map of transactions and the handlers keep their types, and
\* the buffer its capacity, whatever overlaps and crashes.
THEOREM MatrixIntakeTypeOK == Spec => []TypeOK
<1>1. Formed => TypeOK
  BY DEF Formed
<1>. QED  BY <1>1, InitFormed, StepFormed, PTL DEF Spec

-----------------------------------------------------------------------------
(* How often an event is executed *)

\* The requests that may still execute the event, or have it executed.
Pending(e) ==
    {r \in Request :
        \/ /\ reqTxn[r] = e[1]
           /\ \/ handler[r] = "arrived" /\ processed[e[1]] = "absent"
              \/ handler[r] = "checked"
              \/ handler[r] = "submitting" /\ next[r] <= e[2]
              \/ handler[r] = "executing" /\ next[r] < e[2]
        \/ reqTxn[r] = e[1] /\ Buffered(<<r, e[2]>>)}

Due(e) == ran[e] + Cardinality(Pending(e))

\* The homeserver may yet send the transaction, which nobody remembers or is
\* about to record.
Open(x) == /\ x >= sending /\ processed[x] = "absent"
           /\ \A r \in Request : reqTxn[r] = x => handler[r] \notin {"arrived", "checked"}

RunsOK(e) == /\ Due(e) <= 1 + crashes + overlaps
             /\ Open(e[1]) => Due(e) <= crashes + overlaps

Runs == \A e \in Event : RunsOK(e)

LEMMA Counted ==
    ASSUME NEW P \in SUBSET Request
    PROVE  IsFiniteSet(P) /\ Cardinality(P) \in Nat
<1>1. IsFiniteSet(Request)
  BY Constants, FS_Interval DEF Request
<1>. QED  BY <1>1, FS_Subset, FS_CardinalityType

LEMMA Fewer ==
    ASSUME NEW P \in SUBSET Request, NEW Q \in SUBSET P
    PROVE  Cardinality(Q) <= Cardinality(P)
BY Counted, FS_Subset

LEMMA OneFewer ==
    ASSUME NEW P \in SUBSET Request, NEW r \in P, NEW Q \in SUBSET (P \ {r})
    PROVE  Cardinality(Q) + 1 <= Cardinality(P)
<1>1. IsFiniteSet(P) /\ Cardinality(P \ {r}) = Cardinality(P) - 1 /\ IsFiniteSet(P \ {r})
  BY Counted, FS_RemoveElement
<1>2. Cardinality(Q) <= Cardinality(P \ {r}) /\ Cardinality(Q) \in Nat /\ Cardinality(P) \in Nat
  BY <1>1, Counted, FS_Subset, FS_CardinalityType
<1>. QED  BY <1>1, <1>2

LEMMA OneMore ==
    ASSUME NEW P \in SUBSET Request, NEW r \in Request, NEW Q \in SUBSET (P \cup {r})
    PROVE  Cardinality(Q) <= Cardinality(P) + 1
<1>1. /\ IsFiniteSet(P) /\ IsFiniteSet(P \cup {r}) /\ Cardinality(P) \in Nat
      /\ Cardinality(P \cup {r}) = IF r \in P THEN Cardinality(P) ELSE Cardinality(P) + 1
  BY Counted, FS_AddElement
<1>2. /\ Cardinality(Q) <= Cardinality(P \cup {r}) /\ Cardinality(Q) \in Nat
      /\ Cardinality(P \cup {r}) \in Nat
  BY <1>1, Counted, FS_Subset, FS_CardinalityType
<1>. QED  BY <1>1, <1>2

LEMMA DueIs ==
    ASSUME Formed, NEW e \in Event
    PROVE  /\ Pending(e) \in SUBSET Request /\ ran[e] \in Nat
           /\ Due(e) = ran[e] + Cardinality(Pending(e)) /\ Due(e) \in Nat
<1>1. Pending(e) \in SUBSET Request
  BY DEF Pending
<1>2. Cardinality(Pending(e)) \in Nat /\ ran[e] \in Nat
  BY <1>1, Counted, Types
<1>. QED  BY <1>1, <1>2 DEF Due

\* Nothing more is due, and nothing is open that was not, or something less is
\* due.
LEMMA RunsKept ==
    ASSUME Formed, Formed', NEW e \in Event, RunsOK(e), UNCHANGED <<crashes, overlaps>>,
           \/ Due(e)' <= Due(e) /\ (Open(e[1])' => Open(e[1]))
           \/ Due(e)' + 1 <= Due(e)
    PROVE  RunsOK(e)'
<1>1. Due(e) \in Nat /\ Due(e)' \in Nat
  <2>1. Due(e)' = (ran[e] + Cardinality(Pending(e)))' /\ Pending(e)' \in SUBSET Request
    BY DEF Due, Pending
  <2>2. Cardinality(Pending(e)') \in Nat
    BY <2>1, Counted
  <2>3. ran'[e] \in Nat
    BY DEF Formed, TypeOK
  <2>. QED  BY <2>1, <2>2, <2>3, DueIs
<1>2. crashes \in Nat /\ overlaps \in Nat
  BY Types
<1>. QED  BY <1>1, <1>2 DEF RunsOK

\* The same, said of the requests.
LEMMA RunsGoOn ==
    ASSUME Formed, Formed', NEW e \in Event, RunsOK(e), UNCHANGED <<crashes, overlaps>>,
           \/ /\ ran'[e] = ran[e] /\ Pending(e)' \in SUBSET Pending(e)
              /\ Open(e[1])' => Open(e[1])
           \/ \E r \in Pending(e) :
                 /\ Pending(e)' \in SUBSET (Pending(e) \ {r})
                 /\ \/ ran'[e] = ran[e]
                    \/ ran'[e] = ran[e] + 1 /\ (Open(e[1])' => Open(e[1]))
    PROVE  RunsOK(e)'
<1>1. /\ Pending(e) \in SUBSET Request /\ ran[e] \in Nat /\ Cardinality(Pending(e)) \in Nat
      /\ Due(e) = ran[e] + Cardinality(Pending(e))
  BY DueIs, Counted
<1>2. PICK Q : Q = Pending(e)'
  OBVIOUS
<1>3. Due(e)' = ran'[e] + Cardinality(Q) /\ Q \in SUBSET Request /\ Cardinality(Q) \in Nat
  BY <1>2, Counted DEF Due, Pending
<1>4. CASE /\ ran'[e] = ran[e] /\ Q \in SUBSET Pending(e)
           /\ Open(e[1])' => Open(e[1])
  <2>1. Cardinality(Q) <= Cardinality(Pending(e))
    BY <1>1, <1>4, Fewer
  <2>2. Due(e)' <= Due(e)
    BY <1>1, <1>3, <1>4, <2>1
  <2>. QED  BY <1>4, <2>2, RunsKept
<1>5. ASSUME NEW r \in Pending(e), Q \in SUBSET (Pending(e) \ {r}),
             \/ ran'[e] = ran[e]
             \/ ran'[e] = ran[e] + 1 /\ (Open(e[1])' => Open(e[1]))
      PROVE  RunsOK(e)'
  <2>1. Cardinality(Q) + 1 <= Cardinality(Pending(e))
    BY <1>1, <1>5, OneFewer
  <2>2. \/ Due(e)' + 1 <= Due(e)
        \/ Due(e)' <= Due(e) /\ (Open(e[1])' => Open(e[1]))
    BY <1>1, <1>3, <1>5, <2>1
  <2>. QED  BY <2>2, RunsKept
<1>. QED  BY <1>2, <1>4, <1>5

\* A delivery adds a request to those that may execute an event; one that
\* nobody else may execute, unless the delivery overlaps another.
LEMMA SendRuns ==
    ASSUME Formed, Runs, NEW r \in Request, Send(r)
    PROVE  Runs'
<1>1. /\ handler[r] = "unsent" /\ sending \in Txn /\ Moves(r, "arrived", 1) /\ next' = next
      /\ \A q \in Request : reqTxn'[q] = IF q = r THEN sending ELSE reqTxn[q]
      /\ overlaps' = IF \E q \in Request : handler[q] \in InHandler
                     THEN overlaps + 1 ELSE overlaps
      /\ UNCHANGED <<sending, processed, ran, finished, crashes, queueData>>
      /\ Formed'
  BY SendSteps
<1>2. \A t : Buffered(t)' <=> Buffered(t)
  BY <1>1 DEF Buffered, Queue!In, queueData
<1>3. next[r] = 1 /\ reqTxn[r] = 0
  BY <1>1 DEF Formed, Requests, Submitting
<1>4. SUFFICES ASSUME NEW e \in Event  PROVE RunsOK(e)'
  BY DEF Runs
<1>5. e[1] \in Nat /\ e[1] >= 1 /\ RunsOK(e)
  BY <1>4, EventParts DEF Runs
<1>6. ~Buffered(<<r, e[2]>>)
  BY <1>3, <1>4, BufferedIs, EventParts
<1>7. CASE e[1] = sending /\ processed[sending] = "absent"
  <2>1. PICK Q : Q = Pending(e)' /\ Q \in SUBSET Request
    BY DEF Pending
  <2>2. Q \in SUBSET (Pending(e) \cup {r})
    BY <1>1, <1>2, <2>1 DEF Pending, Moves
  <2>3. Cardinality(Q) <= Cardinality(Pending(e)) + 1 /\ Cardinality(Q) \in Nat
    BY <1>4, <2>1, <2>2, DueIs, OneMore, Counted
  <2>4. Due(e)' <= Due(e) + 1 /\ Due(e) \in Nat /\ Due(e)' \in Nat
    BY <1>1, <1>4, <2>1, <2>3, DueIs, Counted DEF Due
  <2>5. ~Open(e[1])'
    BY <1>1, <1>7 DEF Open, Moves
  <2>6. crashes \in Nat /\ overlaps \in Nat
    BY Types
  <2>7. CASE \E q \in Request : handler[q] \in InHandler
    BY <1>1, <1>5, <2>4, <2>5, <2>6, <2>7 DEF RunsOK
  <2>8. CASE \A q \in Request : handler[q] \notin InHandler
    <3>1. Open(e[1])
      BY <1>5, <1>7, <2>8 DEF Open, InHandler
    <3>. QED  BY <1>1, <1>5, <2>4, <2>5, <2>6, <2>8, <3>1 DEF RunsOK
  <2>. QED  BY <2>7, <2>8
<1>8. CASE ~(e[1] = sending /\ processed[sending] = "absent")
  <2>1. Pending(e)' \in SUBSET Pending(e)
    BY <1>1, <1>2, <1>6, <1>8 DEF Pending, Moves
  <2>2. Open(e[1])' => Open(e[1])
    BY <1>1, <1>3, <1>5, <1>8 DEF Open, Moves
  <2>3. Due(e)' <= Due(e)
    <3>1. PICK Q : Q = Pending(e)'
      OBVIOUS
    <3>2. Cardinality(Q) <= Cardinality(Pending(e)) /\ Cardinality(Q) \in Nat
      BY <1>4, <2>1, <3>1, DueIs, Fewer, Counted
    <3>. QED  BY <1>1, <1>4, <3>1, <3>2, DueIs, Counted DEF Due
  <2>4. Due(e) \in Nat /\ Due(e)' \in Nat
    <3>1. PICK Q : Q = Pending(e)' /\ Q \in SUBSET Request
      BY DEF Pending
    <3>. QED  BY <1>1, <1>4, <3>1, DueIs, Counted DEF Due
  <2>5. crashes \in Nat /\ overlaps \in Nat /\ overlaps' \in Nat /\ overlaps' >= overlaps
    BY <1>1, Types
  <2>. QED  BY <1>1, <1>5, <2>2, <2>3, <2>4, <2>5 DEF RunsOK
<1>. QED  BY <1>7, <1>8

\* An overlap apart, steps that leave the buffer and the executions alone.
LEMMA HandlerRuns ==
    ASSUME Formed, Runs, NEW r \in Request,
           \/ SeeOk(r) \/ Unavailable(r) \/ BadBody(r) \/ CheckDuplicate(r)
           \/ MarkProcessed(r) \/ ExecuteInHandler(r) \/ Answer(r)
    PROVE  Runs'
<1>1. SUFFICES ASSUME NEW e \in Event  PROVE RunsOK(e)'
  BY DEF Runs
<1>2. RunsOK(e) /\ e[1] \in Txn /\ e[1] \in Nat /\ e[2] \in Nat /\ e[2] >= 1
  BY <1>1, EventParts DEF Runs
<1>3. ASSUME UNCHANGED queueData  PROVE \A t : Buffered(t)' <=> Buffered(t)
  BY <1>3 DEF Buffered, Queue!In, queueData
<1>4. CASE SeeOk(r)
  <2>1. /\ sending' = sending + 1 /\ sending \in Nat
        /\ UNCHANGED <<reqTxn, handler, next, processed, ran, crashes, overlaps, queueData>>
        /\ Formed'
    BY <1>4, SeeOkSteps, Types
  <2>2. Pending(e)' \in SUBSET Pending(e)
    BY <1>3, <2>1 DEF Pending
  <2>3. Open(e[1])' => Open(e[1])
    BY <1>2, <2>1 DEF Open
  <2>. QED  BY <1>1, <1>2, <2>1, <2>2, <2>3, RunsGoOn
<1>5. CASE Unavailable(r) \/ BadBody(r)
  <2>1. PICK h \in {"503", "400"} :
           /\ handler[r] \in {"arrived", "checked"} /\ next' = next /\ Moves(r, h, 1)
           /\ UNCHANGED <<sending, reqTxn, processed, ran, crashes, overlaps, queueData>>
           /\ Formed'
    BY <1>5, RefusalSteps DEF hsVars
  <2>2. Pending(e)' \in SUBSET Pending(e)
    BY <1>3, <2>1 DEF Pending, Moves
  <2>3. CASE r \in Pending(e)
    <3>1. next[r] = 1
      BY <2>1 DEF Formed, Requests, Submitting
    <3>2. ~Buffered(<<r, e[2]>>)
      BY <1>2, <3>1, BufferedIs
    <3>3. r \notin Pending(e)'
      BY <1>3, <2>1, <3>2 DEF Pending, Moves
    <3>. QED  BY <1>1, <1>2, <2>1, <2>2, <2>3, <3>3, RunsGoOn
  <2>4. CASE r \notin Pending(e)
    <3>1. reqTxn[r] = e[1] => processed[e[1]] # "absent"
      BY <2>1, <2>4 DEF Pending
    <3>2. Open(e[1])' => Open(e[1])
      BY <2>1, <3>1 DEF Open, Moves
    <3>. QED  BY <1>1, <1>2, <2>1, <2>2, <3>2, RunsGoOn
  <2>. QED  BY <2>3, <2>4
<1>6. CASE CheckDuplicate(r)
  <2>1. PICK h \in {"checked", "ok"} :
           /\ handler[r] = "arrived" /\ next' = next /\ Moves(r, h, 1)
           /\ h = "checked" <=> processed[reqTxn[r]] = "absent"
           /\ UNCHANGED <<sending, reqTxn, processed, ran, crashes, overlaps, queueData>>
           /\ Formed'
    BY <1>6, CheckDuplicateSteps DEF hsVars
  <2>2. Pending(e)' \in SUBSET Pending(e)
    BY <1>3, <2>1 DEF Pending, Moves
  <2>3. Open(e[1])' => Open(e[1])
    BY <2>1 DEF Open, Moves
  <2>. QED  BY <1>1, <1>2, <2>1, <2>2, <2>3, RunsGoOn
<1>7. CASE MarkProcessed(r)
  <2>1. /\ handler[r] = "checked" /\ next' = next /\ Moves(r, "submitting", 1)
        /\ \A x \in Txn : processed'[x] = IF x = reqTxn[r] THEN "recent" ELSE processed[x]
        /\ UNCHANGED <<sending, reqTxn, ran, crashes, overlaps, queueData>>
        /\ Formed'
    BY <1>7, MarkProcessedSteps DEF hsVars
  <2>2. Pending(e)' \in SUBSET Pending(e)
    BY <1>2, <1>3, <2>1 DEF Pending, Moves
  <2>3. Open(e[1])' => Open(e[1])
    BY <1>2, <2>1 DEF Open, Moves
  <2>. QED  BY <1>1, <1>2, <2>1, <2>2, <2>3, RunsGoOn
<1>8. CASE ExecuteInHandler(r) \/ Answer(r)
  <2>1. PICK n, h :
           /\ \/ handler[r] = "executing" /\ h = "submitting" /\ n = next[r] + 1
              \/ handler[r] = "submitting" /\ h = "ok" /\ n = next[r]
           /\ Moves(r, h, n)
           /\ UNCHANGED <<sending, reqTxn, processed, ran, crashes, overlaps, queueData>>
           /\ Formed'
    BY <1>8, ExecuteInHandlerSteps, AnswerSteps DEF hsVars
  <2>2. \A q \in Request : next[q] \in Nat
    BY Types
  <2>3. Pending(e)' \in SUBSET Pending(e)
    BY <1>2, <1>3, <2>1, <2>2 DEF Pending, Moves
  <2>4. Open(e[1])' => Open(e[1])
    BY <2>1 DEF Open, Moves
  <2>. QED  BY <1>1, <1>2, <2>1, <2>3, <2>4, RunsGoOn
<1>. QED  BY <1>4, <1>5, <1>6, <1>7, <1>8

LEMMA SubmitRuns ==
    ASSUME Formed, Runs, NEW r \in Request, SubmitEvent(r)
    PROVE  Runs'
<1>1. PICK n : n = next[r]
  OBVIOUS
<1>2. /\ handler[r] = "submitting" /\ n \in 1..TxnSize /\ n \in Nat
      /\ ~Buffered(<<r, n>>) /\ EventOf(r, n) \in Event /\ EventOf(r, n) = <<reqTxn[r], n>>
      /\ Accepts(r) \/ Refuses(r)
      /\ UNCHANGED <<sending, reqTxn, processed, crashes, overlaps>>
      /\ Formed'
  BY <1>1, SubmitEventSteps, Constants DEF hsVars, EventOf
<1>3. SUFFICES ASSUME NEW e \in Event  PROVE RunsOK(e)'
  BY DEF Runs
<1>4. RunsOK(e) /\ e = <<e[1], e[2]>> /\ e[2] \in Nat
  BY <1>3, EventParts DEF Runs
<1>5. \A q \in Request : next[q] \in Nat
  BY Types
<1>6. CASE Accepts(r)
  <2>1. /\ \A t : Buffered(t)' <=> Buffered(t) \/ t = <<r, n>>
        /\ Moves(r, "submitting", n + 1) /\ ran' = ran
    BY <1>1, <1>6 DEF Accepts
  <2>2. ASSUME NEW q \in Pending(e)'  PROVE q \in Pending(e)
    <3>1. CASE q = r
      BY <1>1, <1>2, <1>4, <2>1, <2>2, <3>1 DEF Pending, Moves
    <3>2. CASE q # r
      BY <1>2, <2>1, <2>2, <3>2 DEF Pending, Moves
    <3>. QED  BY <3>1, <3>2
  <2>3. Open(e[1])' => Open(e[1])
    BY <1>2, <2>1 DEF Open, Moves
  <2>. QED  BY <1>2, <1>3, <1>4, <2>1, <2>2, <2>3, RunsGoOn
<1>7. CASE Refuses(r)
  <2>1. /\ \A t : Buffered(t)' <=> Buffered(t)
        /\ Moves(r, "executing", n)
        /\ ran'[e] = IF e = <<reqTxn[r], n>> THEN ran[e] + 1 ELSE ran[e]
    BY <1>1, <1>2, <1>3, <1>7 DEF Refuses, Buffered, Queue!In, queueData
  <2>2. Pending(e)' \in SUBSET Pending(e)
    BY <1>1, <1>2, <1>4, <1>5, <2>1 DEF Pending, Moves
  <2>3. Open(e[1])' => Open(e[1])
    BY <1>2, <2>1 DEF Open, Moves
  <2>4. CASE e = <<reqTxn[r], n>>
    <3>1. e[1] = reqTxn[r] /\ e[2] = n
      BY <2>4
    <3>2. r \in Pending(e)
      BY <1>1, <1>2, <3>1 DEF Pending
    <3>3. r \notin Pending(e)'
      BY <1>1, <1>2, <2>1, <3>1 DEF Pending, Moves
    <3>. QED  BY <1>2, <1>3, <1>4, <2>1, <2>2, <2>3, <3>2, <3>3, RunsGoOn
  <2>5. CASE e # <<reqTxn[r], n>>
    BY <1>2, <1>3, <1>4, <2>1, <2>2, <2>3, <2>5, RunsGoOn
  <2>. QED  BY <2>4, <2>5
<1>. QED  BY <1>2, <1>6, <1>7

LEMMA WorkerRuns ==
    ASSUME Formed, Runs, NEW w \in Worker, WorkerStep(w)
    PROVE  Runs'
<1>1. SUFFICES ASSUME NEW e \in Event  PROVE RunsOK(e)'
  BY DEF Runs
<1>2. RunsOK(e) /\ e = <<e[1], e[2]>> /\ e[2] \in Nat
  BY <1>1, EventParts DEF Runs
<1>3. CASE WorkerBegin(w)
  <2>1. PICK t \in Task :
           /\ Buffered(t)
           /\ \A u : Buffered(u)' <=> Buffered(u) /\ u # t
           /\ \A d \in Event : ran'[d] = IF d = EventOfTask(t) THEN ran[d] + 1 ELSE ran[d]
    BY <1>3, WorkerBeginSteps
  <2>2. /\ UNCHANGED <<sending, reqTxn, handler, next, processed, crashes, overlaps>>
        /\ Formed'
    BY <1>3, WorkerBeginSteps DEF hsVars
  <2>3. Open(e[1])' => Open(e[1])
    BY <2>2 DEF Open
  <2>4. Pending(e)' \in SUBSET Pending(e)
    BY <2>1, <2>2 DEF Pending
  <2>5. CASE e = EventOfTask(t)
    <3>1. PICK r, i : r = t[1] /\ i = t[2]
      OBVIOUS
    <3>2. r \in Request /\ t = <<r, i>> /\ e[1] = reqTxn[r] /\ e[2] = i /\ i \in Nat /\ i >= 1
      BY <2>5, <3>1, TaskParts DEF EventOfTask, EventOf
    <3>3. i < next[r] /\ next[r] \in Nat
      BY <2>1, <3>1, <3>2, BufferedIs, Types
    <3>4. handler[r] \notin {"arrived", "checked"}
      BY <3>2, <3>3 DEF Formed, Requests, Submitting
    <3>5. r \in Pending(e)
      BY <2>1, <3>2 DEF Pending
    <3>6. r \notin Pending(e)'
      BY <2>1, <2>2, <3>2, <3>3, <3>4 DEF Pending
    <3>. QED  BY <1>1, <1>2, <2>1, <2>2, <2>3, <2>4, <2>5, <3>5, <3>6, RunsGoOn
  <2>6. CASE e # EventOfTask(t)
    BY <1>1, <1>2, <2>1, <2>2, <2>3, <2>4, <2>6, RunsGoOn
  <2>. QED  BY <2>5, <2>6
<1>4. CASE WorkerEnd(w)
  <2>1. /\ UNCHANGED <<sending, reqTxn, handler, next, processed, ran, taskChan, crashes,
                       overlaps>>
        /\ Formed'
    BY <1>4, WorkerEndSteps DEF hsVars
  <2>2. Pending(e)' \in SUBSET Pending(e) /\ (Open(e[1])' => Open(e[1]))
    BY <2>1 DEF Pending, Open, Buffered, Queue!In
  <2>. QED  BY <1>1, <1>2, <2>1, <2>2, RunsGoOn
<1>. QED  BY <1>3, <1>4 DEF WorkerStep

\* A transaction that is forgotten is one that the homeserver is past; a crash
\* leaves nothing to be executed and counts once.
LEMMA WorldRuns ==
    ASSUME Formed, Runs,
           \/ CleanupOldTransactions \/ \E x \in Txn : GrowOld(x)
           \/ Crash
           \/ UNCHANGED vars
    PROVE  Runs'
<1>1. SUFFICES ASSUME NEW e \in Event  PROVE RunsOK(e)'
  BY DEF Runs
<1>2. RunsOK(e) /\ e[1] \in Txn /\ e[1] \in Nat
  BY <1>1, EventParts DEF Runs
<1>3. CASE CleanupOldTransactions \/ \E x \in Txn : GrowOld(x)
  <2>1. /\ processed'[e[1]] # processed[e[1]] =>
              /\ e[1] < sending
              /\ \A r \in Request : reqTxn[r] = e[1] => handler[r] \notin InHandler
        /\ UNCHANGED <<sending, reqTxn, handler, next, ran, crashes, overlaps, queueData>>
        /\ Formed'
    BY <1>2, <1>3, AgingSteps DEF hsVars
  <2>2. \A t : Buffered(t)' <=> Buffered(t)
    BY <2>1 DEF Buffered, Queue!In, queueData
  <2>3. Pending(e)' \in SUBSET Pending(e)
    BY <2>1, <2>2 DEF Pending, InHandler
  <2>4. Open(e[1])' => Open(e[1])
    BY <1>2, <2>1, Types DEF Open
  <2>. QED  BY <1>1, <1>2, <2>1, <2>3, <2>4, RunsGoOn
<1>4. CASE Crash
  <2>1. /\ crashes' = crashes + 1
        /\ \A r \in Request :
              handler'[r] = IF handler[r] \in InHandler THEN "dead" ELSE handler[r]
        /\ \A t : ~Buffered(t)'
        /\ UNCHANGED <<ran, overlaps>>
    BY <1>4, CrashSteps
  <2>2. Pending(e)' = {}
    BY <2>1 DEF Pending, InHandler
  <2>3. Due(e)' <= Due(e) /\ Due(e) \in Nat /\ Due(e)' \in Nat
    BY <1>1, <2>1, <2>2, DueIs, Counted, FS_EmptySet DEF Due
  <2>4. crashes \in Nat /\ overlaps \in Nat
    BY Types
  <2>. QED  BY <1>2, <2>1, <2>3, <2>4 DEF RunsOK
<1>5. CASE UNCHANGED vars
  <2>1. /\ UNCHANGED <<sending, reqTxn, handler, next, processed, ran, taskChan, crashes,
                       overlaps>>
        /\ Formed'
    BY <1>5, StutterFormed
  <2>2. Pending(e)' \in SUBSET Pending(e) /\ (Open(e[1])' => Open(e[1]))
    BY <2>1 DEF Pending, Open, Buffered, Queue!In
  <2>. QED  BY <1>1, <1>2, <2>1, <2>2, RunsGoOn
<1>. QED  BY <1>3, <1>4, <1>5

LEMMA InitRuns == Init => Runs
<1> SUFFICES ASSUME Init, NEW e \in Event  PROVE RunsOK(e)
  BY DEF Runs
<1>1. Pending(e) = {}
  BY EventParts DEF Init, Queue!Init, Pending, Buffered, Queue!In
<1>2. ran[e] = 0 /\ crashes = 0 /\ overlaps = 0
  BY DEF Init
<1>. QED  BY <1>1, <1>2, FS_EmptySet DEF RunsOK, Due

LEMMA StepRuns == Formed /\ Runs /\ [Next]_vars => Runs'
<1> SUFFICES ASSUME Formed, Runs, [Next]_vars  PROVE Runs'
  OBVIOUS
<1>1. ASSUME NEW r \in Request,
             \/ Send(r) \/ SeeOk(r) \/ Unavailable(r) \/ BadBody(r) \/ HandlerStep(r)
      PROVE  Runs'
  BY <1>1, SendRuns, HandlerRuns, SubmitRuns DEF HandlerStep
<1>2. ASSUME NEW w \in Worker, WorkerStep(w)  PROVE Runs'
  BY <1>2, WorkerRuns
<1>. QED  BY <1>1, <1>2, WorldRuns DEF Next

-----------------------------------------------------------------------------
(* Where events are *)

\* The homeserver goes on, or may, to the next transaction.
Settled(x) == \/ x < sending
              \/ \E r \in Request : reqTxn[r] = x /\ handler[r] = "ok"

WithPool(e) == \E r \in Request : reqTxn[r] = e[1] /\ Pooled(<<r, e[2]>>)
WithHandler(e) == \E r \in Request : /\ handler[r] \in Submitting
                                     /\ reqTxn[r] = e[1] /\ next[r] <= e[2]
Safe(e) == e \in finished \/ WithPool(e)

\* A recorded transaction is settled, or a handler is submitting its events.
Marked == \A x \in Txn :
             processed[x] # "absent" =>
                \/ Settled(x)
                \/ \E r \in Request : reqTxn[r] = x /\ handler[r] \in Submitting

\* What a handler has gone past has ended or is with the pool.
Passed == \A r \in Request :
             handler[r] \in Submitting =>
                \A i \in 1..(next[r] - 1) : Safe(<<reqTxn[r], i>>)

\* What has ended was gone past by a handler, unless that died.
Ended == \A e \in finished :
            \/ crashes > 0
            \/ Settled(e[1])
            \/ \E r \in Request : /\ handler[r] \in Submitting
                                  /\ reqTxn[r] = e[1] /\ next[r] > e[2]

\* Without a crash somebody has each event of a settled transaction.
Held == crashes = 0 => \A e \in Event : Settled(e[1]) => Safe(e) \/ WithHandler(e)

Whereabouts == Marked /\ Passed /\ Ended /\ Held

\* A step in the life of the process: what is safe stays so, handlers go on,
\* answers stay, and each of what is new has its reason.
Goes ==
    /\ \A e \in Event : Safe(e) => Safe(e)'
    /\ \A r \in Request :
          handler[r] \in Submitting \cup {"ok"} =>
             /\ reqTxn'[r] = reqTxn[r] /\ handler'[r] \in Submitting \cup {"ok"}
             /\ next'[r] >= next[r]
             /\ handler[r] = "ok" => handler'[r] = "ok"
    /\ \/ sending' = sending
       \/ sending' = sending + 1 /\ \E r \in Request : reqTxn[r] = sending /\ handler[r] = "ok"
    /\ \A r \in Request :
          handler'[r] \in Submitting =>
             \A i \in 1..(next'[r] - 1) :
                (handler[r] \in Submitting /\ i < next[r]) \/ Safe(<<reqTxn[r], i>>)'
    /\ \A r \in Request :
          handler'[r] = "ok" =>
             /\ reqTxn'[r] = reqTxn[r]
             /\ \/ handler[r] = "ok"
                \/ handler[r] \in Submitting /\ next[r] = TxnSize + 1
                \/ handler[r] = "arrived" /\ processed[reqTxn[r]] # "absent"
    /\ \A e \in finished' :
          e \in finished \/ \E r \in Request : reqTxn'[r] = e[1] /\ next'[r] > e[2]
    /\ \A x \in Txn :
          processed'[x] # "absent" =>
             \/ processed[x] # "absent"
             \/ \E r \in Request : reqTxn'[r] = x /\ handler'[r] \in Submitting
    /\ \/ overlaps' = overlaps + 1
       \/ /\ overlaps' = overlaps
          /\ \A q \in Request : handler'[q] \in InHandler =>
                                   handler[q] \in InHandler /\ reqTxn'[q] = reqTxn[q]
       \/ /\ overlaps' = overlaps
          /\ \E r \in Request : \A q \in Request : q # r => handler'[q] \notin InHandler
    /\ crashes' = crashes

LEMMA PoolStays ==
    ASSUME Formed, UNCHANGED queueData, finished \subseteq finished',
           \A r \in Request : handler[r] # "unsent" => reqTxn'[r] = reqTxn[r]
    PROVE  \A e \in Event : Safe(e) => Safe(e)'
<1>1. \A t : Buffered(t)' <=> Buffered(t)
  BY DEF Buffered, Queue!In, queueData
<1>2. \A t : Pooled(t)' <=> Pooled(t)
  BY <1>1 DEF Pooled, queueData
<1>3. ASSUME NEW e \in Event, NEW r \in Request, Pooled(<<r, e[2]>>)
      PROVE  handler[r] # "unsent"
  <2>1. <<r, e[2]>> \in Task
    BY <1>3, EventParts DEF Task
  <2>2. e[2] < next[r]
    BY <1>3, <2>1, PooledIs
  <2>3. e[2] \in Nat /\ e[2] >= 1 /\ next[r] \in Nat
    BY EventParts, Types
  <2>4. next[r] # 1
    BY <2>2, <2>3
  <2>. QED  BY <2>4 DEF Formed, Requests, Submitting
<1>. QED  BY <1>2, <1>3 DEF Safe, WithPool

LEMMA SendGoes ==
    ASSUME Formed, NEW r \in Request, Send(r)
    PROVE  Goes
<1>1. /\ handler[r] = "unsent" /\ sending \in Txn /\ Moves(r, "arrived", 1) /\ next' = next
      /\ \A q \in Request : reqTxn'[q] = IF q = r THEN sending ELSE reqTxn[q]
      /\ overlaps' = IF \E q \in Request : handler[q] \in InHandler
                     THEN overlaps + 1 ELSE overlaps
      /\ UNCHANGED <<sending, processed, ran, finished, crashes, queueData>>
  BY SendSteps
<1>2. \A e \in Event : Safe(e) => Safe(e)'
  BY <1>1, PoolStays
<1>3. \A q \in Request : next[q] \in Nat
  BY Types
<1>4. ASSUME NEW q \in Request, handler'[q] \in Submitting
      PROVE  \A i \in 1..(next'[q] - 1) : handler[q] \in Submitting /\ i < next[q]
  BY <1>1, <1>3, <1>4 DEF Moves, Submitting
<1>5. \/ overlaps' = overlaps + 1
      \/ overlaps' = overlaps /\ \A q \in Request : q # r => handler'[q] \notin InHandler
  BY <1>1 DEF Moves
<1>. QED  BY <1>1, <1>2, <1>3, <1>4, <1>5 DEF Goes, Moves, Submitting

LEMMA SeeOkGoes ==
    ASSUME Formed, NEW r \in Request, SeeOk(r)
    PROVE  Goes
<1>1. /\ handler[r] = "ok" /\ reqTxn[r] = sending /\ sending' = sending + 1
      /\ UNCHANGED <<reqTxn, handler, next, processed, ran, finished, crashes, overlaps,
                     queueData>>
  BY SeeOkSteps
<1>2. \A e \in Event : Safe(e) => Safe(e)'
  BY <1>1, PoolStays
<1>3. \A q \in Request : next[q] \in Nat
  BY Types
<1>. QED  BY <1>1, <1>2, <1>3 DEF Goes

\* A handler that is not yet submitting answers, or begins to submit.
LEMMA EarlyGoes ==
    ASSUME Formed, NEW r \in Request,
           Unavailable(r) \/ BadBody(r) \/ CheckDuplicate(r) \/ MarkProcessed(r)
    PROVE  Goes
<1>1. PICK h :
         /\ handler[r] \in {"arrived", "checked"} /\ next[r] = 1 /\ next' = next
         /\ Moves(r, h, 1)
         /\ \/ h \in {"503", "400", "checked"}
            \/ h = "ok" /\ handler[r] = "arrived" /\ processed[reqTxn[r]] # "absent"
            \/ h = "submitting"
         /\ \A x \in Txn : \/ processed'[x] = processed[x]
                           \/ reqTxn[r] = x /\ h = "submitting"
         /\ UNCHANGED <<sending, reqTxn, ran, finished, crashes, overlaps, queueData>>
  <2>1. CASE Unavailable(r) \/ BadBody(r)
    BY <2>1, RefusalSteps DEF hsVars
  <2>2. CASE CheckDuplicate(r)
    BY <2>2, CheckDuplicateSteps DEF hsVars
  <2>3. CASE MarkProcessed(r)
    BY <2>3, MarkProcessedSteps DEF hsVars
  <2>. QED  BY <2>1, <2>2, <2>3
<1>2. \A e \in Event : Safe(e) => Safe(e)'
  BY <1>1, PoolStays
<1>3. \A q \in Request : next[q] \in Nat
  BY Types
<1>4. ASSUME NEW q \in Request, handler'[q] \in Submitting, NEW i \in 1..(next'[q] - 1)
      PROVE  handler[q] \in Submitting /\ i < next[q]
  BY <1>1, <1>3, <1>4 DEF Moves
<1>. QED  BY <1>1, <1>2, <1>3, <1>4 DEF Goes, Moves, Submitting, InHandler

LEMMA SubmitGoes ==
    ASSUME Formed, NEW r \in Request, SubmitEvent(r)
    PROVE  Goes
<1>1. PICK n, x : n = next[r] /\ x = reqTxn[r]
  OBVIOUS
<1>2. /\ handler[r] = "submitting" /\ n \in 1..TxnSize /\ n \in Nat
      /\ Accepts(r) \/ Refuses(r)
      /\ UNCHANGED <<sending, reqTxn, processed, finished, crashes, overlaps>>
  <2>1. /\ handler[r] = "submitting" /\ next[r] \in 1..TxnSize
        /\ Accepts(r) \/ Refuses(r)
        /\ UNCHANGED <<hsVars, processed, finished, crashes, overlaps>>
    BY SubmitEventSteps
  <2>2. UNCHANGED <<sending, reqTxn, processed, finished, crashes, overlaps>>
    BY <2>1 DEF hsVars
  <2>3. next[r] \in Nat
    BY <2>1, Constants
  <2>. QED  BY <1>1, <2>1, <2>2, <2>3
<1>3. \A q \in Request : next[q] \in Nat
  BY Types
<1>4. PICK h, m : /\ Moves(r, h, m) /\ h \in Submitting
                  /\ \/ m = n
                     \/ m = n + 1 /\ Buffered(<<r, n>>)'
                  /\ \A t : Buffered(t) => Buffered(t)'
                  /\ job' = job
  <2>1. CASE Accepts(r)
    BY <1>1, <2>1 DEF Accepts, Submitting
  <2>2. CASE Refuses(r)
    <3>1. \A t : Buffered(t) => Buffered(t)'
      BY <2>2 DEF Refuses, queueData, Buffered, Queue!In
    <3>. QED  BY <1>1, <2>2, <3>1 DEF Refuses, queueData, Submitting
  <2>. QED  BY <1>2, <2>1, <2>2
<1>5. \A e \in Event : Safe(e) => Safe(e)'
  BY <1>2, <1>4 DEF Safe, WithPool, Pooled
<1>6. ASSUME NEW q \in Request, handler'[q] \in Submitting, NEW i \in 1..(next'[q] - 1)
      PROVE  (handler[q] \in Submitting /\ i < next[q]) \/ Safe(<<reqTxn[q], i>>)'
  <2>1. CASE q # r
    BY <1>3, <1>4, <1>6, <2>1 DEF Moves
  <2>2. CASE q = r /\ i < n
    BY <1>1, <1>2, <2>2 DEF Submitting
  <2>3. CASE q = r /\ i >= n
    <3>1. i = n /\ Buffered(<<r, n>>)'
      BY <1>2, <1>4, <1>6, <2>3 DEF Moves
    <3>2. PICK e : e = <<x, n>>
      OBVIOUS
    <3>3. e[1] = x /\ e[2] = n
      BY <3>2
    <3>4. Safe(e)'
      BY <1>1, <1>2, <3>1, <3>3 DEF Safe, WithPool, Pooled
    <3>5. e = <<reqTxn'[q], i>>
      BY <1>1, <1>2, <2>3, <3>1, <3>2
    <3>. QED  BY <3>4, <3>5
  <2>. QED  BY <1>2, <1>6, <2>1, <2>2, <2>3
<1>7. ASSUME NEW q \in Request, handler[q] \in Submitting \cup {"ok"}
      PROVE  /\ handler'[q] \in Submitting \cup {"ok"} /\ next'[q] >= next[q]
             /\ handler[q] = "ok" => handler'[q] = "ok"
  BY <1>1, <1>2, <1>3, <1>4, <1>7 DEF Moves
<1>8. handler[r] \in InHandler /\ handler'[r] # "ok"
  BY <1>2, <1>4 DEF InHandler, Moves, Submitting
<1>. QED  BY <1>2, <1>4, <1>5, <1>6, <1>7, <1>8 DEF Goes, Moves

LEMMA ExecuteGoes ==
    ASSUME Formed, NEW r \in Request, ExecuteInHandler(r)
    PROVE  Goes
<1>1. PICK n, e : n = next[r] /\ e = EventOf(r, n)
  OBVIOUS
<1>2. /\ handler[r] = "executing" /\ n \in 1..TxnSize /\ n \in Nat
      /\ Moves(r, "submitting", n + 1) /\ finished' = finished \cup {e}
      /\ e = <<reqTxn[r], n>> /\ e[1] = reqTxn[r] /\ e[2] = n
      /\ UNCHANGED <<sending, reqTxn, processed, crashes, overlaps, queueData>>
  BY <1>1, ExecuteInHandlerSteps, Constants DEF hsVars, EventOf
<1>3. \A q \in Request : next[q] \in Nat
  BY Types
<1>4. \A d \in Event : Safe(d) => Safe(d)'
  BY <1>2, PoolStays
<1>5. ASSUME NEW q \in Request, handler'[q] \in Submitting, NEW i \in 1..(next'[q] - 1)
      PROVE  (handler[q] \in Submitting /\ i < next[q]) \/ Safe(<<reqTxn[q], i>>)'
  <2>1. CASE q # r
    BY <1>2, <1>3, <1>5, <2>1 DEF Moves
  <2>2. CASE q = r /\ i < n
    BY <1>1, <1>2, <2>2 DEF Submitting
  <2>3. CASE q = r /\ i >= n
    <3>1. i = n
      BY <1>2, <1>5, <2>3 DEF Moves
    <3>2. Safe(e)'
      BY <1>2 DEF Safe
    <3>3. e = <<reqTxn'[q], i>>
      BY <1>2, <2>3, <3>1
    <3>. QED  BY <3>2, <3>3
  <2>. QED  BY <1>2, <1>5, <2>1, <2>2, <2>3
<1>6. ASSUME NEW q \in Request, handler[q] \in Submitting \cup {"ok"}
      PROVE  /\ handler'[q] \in Submitting \cup {"ok"} /\ next'[q] >= next[q]
             /\ handler[q] = "ok" => handler'[q] = "ok"
  BY <1>1, <1>2, <1>3, <1>6 DEF Moves, Submitting
<1>7. reqTxn'[r] = e[1] /\ next'[r] > e[2]
  BY <1>2 DEF Moves
<1>8. handler[r] \in InHandler /\ handler'[r] # "ok"
  BY <1>2 DEF InHandler, Moves
<1>. QED  BY <1>2, <1>4, <1>5, <1>6, <1>7, <1>8 DEF Goes, Moves

LEMMA AnswerGoes ==
    ASSUME Formed, NEW r \in Request, Answer(r)
    PROVE  Goes
<1>1. /\ handler[r] = "submitting" /\ next[r] = TxnSize + 1
      /\ Moves(r, "ok", next[r])
      /\ UNCHANGED <<sending, reqTxn, next, processed, finished, crashes, overlaps, queueData>>
  BY AnswerSteps DEF hsVars
<1>2. \A e \in Event : Safe(e) => Safe(e)'
  BY <1>1, PoolStays
<1>3. \A q \in Request : next[q] \in Nat
  BY Types
<1>4. ASSUME NEW q \in Request, handler'[q] \in Submitting, NEW i \in 1..(next'[q] - 1)
      PROVE  handler[q] \in Submitting /\ i < next[q]
  BY <1>1, <1>3, <1>4 DEF Moves, Submitting
<1>. QED  BY <1>1, <1>2, <1>3, <1>4 DEF Goes, Moves, Submitting, InHandler

LEMMA WorkerGoes ==
    ASSUME Formed, NEW w \in Worker, WorkerStep(w)
    PROVE  Goes
<1>1. \A q \in Request : next[q] \in Nat
  BY Types
<1>2. CASE WorkerBegin(w)
  <2>1. job[w] = NoTask
    BY <1>2, WorkerBeginSteps
  <2>2. PICK t \in Task :
           /\ Buffered(t)
           /\ \A u : Buffered(u)' <=> Buffered(u) /\ u # t
           /\ \A v \in Worker : job'[v] = IF v = w THEN t ELSE job[v]
    BY <1>2, WorkerBeginSteps
  <2>3. UNCHANGED <<sending, reqTxn, handler, next, processed, finished, crashes, overlaps>>
    BY <1>2, WorkerBeginSteps DEF hsVars
  <2>4. \A u \in Task : Pooled(u) => Pooled(u)'
    BY <2>1, <2>2, Constants DEF Pooled
  <2>5. \A e \in Event : \A r \in Request : <<r, e[2]>> \in Task
    BY EventParts DEF Task
  <2>6. \A e \in Event : Safe(e) => Safe(e)'
    BY <2>3, <2>4, <2>5 DEF Safe, WithPool
  <2>. QED  BY <1>1, <2>3, <2>6 DEF Goes
<1>3. CASE WorkerEnd(w)
  <2>1. PICK t : t = job[w]
    OBVIOUS
  <2>2. /\ t \in Task /\ finished' = finished \cup {EventOfTask(t)}
        /\ \A v \in Worker : job'[v] = IF v = w THEN NoTask ELSE job[v]
        /\ UNCHANGED <<sending, reqTxn, handler, next, processed, taskChan, crashes, overlaps>>
    BY <1>3, <2>1, WorkerEndSteps DEF hsVars
  <2>3. \A u : Pooled(u) => Pooled(u)' \/ u = t
    BY <2>1, <2>2 DEF Pooled, Buffered, Queue!In
  <2>4. ASSUME NEW e \in Event, NEW r \in Request, reqTxn[r] = e[1], t = <<r, e[2]>>
        PROVE  e \in finished'
    BY <2>2, <2>4, EventParts DEF EventOfTask, EventOf
  <2>5. \A e \in Event : Safe(e) => Safe(e)'
    BY <2>2, <2>3, <2>4 DEF Safe, WithPool
  <2>6. t[1] \in Request /\ t[2] < next[t[1]]
    BY <2>1, <2>2, Constants, TaskParts DEF Formed, Tasks
  <2>7. ASSUME NEW e \in finished', e \notin finished
        PROVE  reqTxn'[t[1]] = e[1] /\ next'[t[1]] > e[2]
    <3>1. e = <<reqTxn[t[1]], t[2]>>
      BY <2>2, <2>7 DEF EventOfTask, EventOf
    <3>. QED  BY <1>1, <2>2, <2>6, <3>1, TaskParts
  <2>. QED  BY <1>1, <2>2, <2>5, <2>6, <2>7 DEF Goes
<1>. QED  BY <1>2, <1>3 DEF WorkerStep

LEMMA AgingGoes ==
    ASSUME Formed, \/ CleanupOldTransactions \/ \E x \in Txn : GrowOld(x)
                   \/ UNCHANGED vars
    PROVE  Goes
<1>1. /\ \A x \in Txn : processed'[x] # "absent" => processed[x] # "absent"
      /\ UNCHANGED <<sending, reqTxn, handler, next, finished, crashes, overlaps, queueData>>
  <2>1. CASE CleanupOldTransactions \/ \E x \in Txn : GrowOld(x)
    BY <2>1, AgingSteps DEF hsVars
  <2>2. CASE UNCHANGED vars
    BY <2>2, StutterFormed DEF queueData
  <2>. QED  BY <2>1, <2>2
<1>2. \A e \in Event : Safe(e) => Safe(e)'
  BY <1>1, PoolStays
<1>3. \A q \in Request : next[q] \in Nat
  BY Types
<1>. QED  BY <1>1, <1>2, <1>3 DEF Goes

LEMMA StepGoes == Formed /\ [Next]_vars => Goes \/ Crash
<1> SUFFICES ASSUME Formed, [Next]_vars  PROVE Goes \/ Crash
  OBVIOUS
<1>1. ASSUME NEW r \in Request,
             \/ Send(r) \/ SeeOk(r) \/ Unavailable(r) \/ BadBody(r) \/ HandlerStep(r)
      PROVE  Goes
  BY <1>1, SendGoes, SeeOkGoes, EarlyGoes, SubmitGoes, ExecuteGoes, AnswerGoes DEF HandlerStep
<1>2. ASSUME NEW w \in Worker, WorkerStep(w)  PROVE Goes
  BY <1>2, WorkerGoes
<1>. QED  BY <1>1, <1>2, AgingGoes DEF Next


LEMMA SettledStays ==
    ASSUME Formed, Goes, NEW x \in Txn, Settled(x)
    PROVE  Settled(x)'
<1>1. sending \in Nat /\ x \in Nat
  BY Types, Constants DEF Txn
<1>2. sending' >= sending /\ (x < sending => x < sending')
  BY <1>1 DEF Goes
<1>3. ASSUME NEW r \in Request, reqTxn[r] = x, handler[r] = "ok"
      PROVE  reqTxn'[r] = x /\ handler'[r] = "ok"
  BY <1>3 DEF Goes
<1>. QED  BY <1>2, <1>3 DEF Settled

\* Two handlers have a transaction that is not settled, so one of them may
\* find it recorded and answer for the other.
CrowdedBy(q, r) == /\ q # r /\ handler[q] \in InHandler /\ handler[r] \in InHandler
                   /\ reqTxn[q] = reqTxn[r] /\ ~Settled(reqTxn[q])
Crowded == \E q, r \in Request : CrowdedBy(q, r)

\* A transaction is settled by the handler that went past all of its events,
\* or by one that found it recorded by another, still submitting.
LEMMA NewlySettled ==
    ASSUME Formed, Whereabouts, Goes, NEW x \in Txn, ~Settled(x), Settled(x)'
    PROVE  /\ x = sending
           /\ \/ \A i \in 1..TxnSize : Safe(<<x, i>>)
              \/ Crowded /\ \E q \in Request : reqTxn[q] = x /\ handler[q] \in Submitting
<1>1. sending \in Nat /\ x \in Nat /\ TxnSize \in Nat /\ x >= sending
  BY Types, Constants DEF Txn, Settled
<1>2. PICK r \in Request : reqTxn'[r] = x /\ handler'[r] = "ok"
  <2>1. x < sending' => x = sending /\ \E r \in Request : reqTxn[r] = x /\ handler[r] = "ok"
    BY <1>1 DEF Goes
  <2>2. ~(x < sending')
    BY <2>1 DEF Settled
  <2>. QED  BY <2>2 DEF Settled
<1>3. /\ reqTxn[r] = x /\ handler[r] # "ok"
      /\ \/ handler[r] \in Submitting /\ next[r] = TxnSize + 1
         \/ handler[r] = "arrived" /\ processed[x] # "absent"
  BY <1>2 DEF Goes, Settled
<1>4. x = sending
  <2>1. reqTxn[r] <= sending
    BY DEF Formed, Requests
  <2>. QED  BY <1>1, <1>3, <2>1
<1>5. CASE handler[r] \in Submitting /\ next[r] = TxnSize + 1
  <2>1. \A i \in 1..(next[r] - 1) : Safe(<<reqTxn[r], i>>)
    BY <1>5 DEF Whereabouts, Passed
  <2>. QED  BY <1>1, <1>3, <1>4, <1>5, <2>1
<1>6. CASE handler[r] = "arrived" /\ processed[x] # "absent"
  <2>1. PICK q \in Request : reqTxn[q] = x /\ handler[q] \in Submitting
    BY <1>6 DEF Whereabouts, Marked
  <2>2. CrowdedBy(q, r)
    BY <1>3, <1>6, <2>1 DEF CrowdedBy, InHandler, Submitting
  <2>. QED  BY <1>4, <2>1, <2>2 DEF Crowded
<1>. QED  BY <1>3, <1>5, <1>6

LEMMA SubmittingGoes ==
    ASSUME Formed, Goes, NEW r \in Request, handler[r] \in Submitting,
           NEW x, reqTxn[r] = x, ~Settled(x)'
    PROVE  handler'[r] \in Submitting /\ reqTxn'[r] = x
<1>1. reqTxn'[r] = x /\ handler'[r] \in Submitting \cup {"ok"}
  BY DEF Goes
<1>. QED  BY <1>1 DEF Settled

LEMMA MarkedStays ==
    ASSUME Formed, Whereabouts, Goes
    PROVE  Marked'
<1>1. SUFFICES ASSUME NEW x \in Txn, processed'[x] # "absent", ~Settled(x)'
               PROVE  \E r \in Request : reqTxn'[r] = x /\ handler'[r] \in Submitting
  BY DEF Marked
<1>2. CASE processed[x] = "absent"
  BY <1>1, <1>2 DEF Goes
<1>3. CASE processed[x] # "absent"
  <2>1. PICK r \in Request : reqTxn[r] = x /\ handler[r] \in Submitting
    BY <1>1, <1>3, SettledStays DEF Whereabouts, Marked
  <2>. QED  BY <1>1, <2>1, SubmittingGoes
<1>. QED  BY <1>2, <1>3

LEMMA PassedStays ==
    ASSUME Formed, Whereabouts, Goes
    PROVE  Passed'
<1>1. SUFFICES ASSUME NEW r \in Request, handler'[r] \in Submitting, NEW i \in 1..(next'[r] - 1)
               PROVE  Safe(<<reqTxn[r], i>>)'
  BY DEF Passed
<1>2. CASE handler[r] \in Submitting /\ i < next[r]
  <2>1. PICK e : e = <<reqTxn[r], i>>
    OBVIOUS
  <2>2. next[r] \in 1..(TxnSize + 1) /\ next[r] \in Nat /\ reqTxn[r] \in Txn
    BY <1>2, Types, SentRequest DEF Submitting
  <2>3. i \in Int /\ i >= 1
    <3>1. handler'[r] \in Submitting => next'[r] >= next[r]
      BY <1>2 DEF Goes
    <3>. QED  OBVIOUS
  <2>4. i \in 1..(next[r] - 1) /\ i \in 1..TxnSize
    BY <1>2, <2>2, <2>3, Constants
  <2>5. e \in Event /\ Safe(e)
    BY <1>2, <2>1, <2>2, <2>4 DEF Event, Whereabouts, Passed
  <2>6. Safe(e)'
    BY <2>5 DEF Goes
  <2>7. e = <<reqTxn'[r], i>>
    BY <1>2, <2>1 DEF Goes
  <2>. QED  BY <2>6, <2>7
<1>3. CASE ~(handler[r] \in Submitting /\ i < next[r])
  BY <1>1, <1>3 DEF Goes
<1>. QED  BY <1>2, <1>3

LEMMA EndedStays ==
    ASSUME Formed, Formed', Whereabouts, Goes
    PROVE  Ended'
<1>1. SUFFICES ASSUME NEW e \in finished', ~(crashes' > 0), ~Settled(e[1])'
               PROVE  \E r \in Request : /\ handler'[r] \in Submitting
                                         /\ reqTxn'[r] = e[1] /\ next'[r] > e[2]
  BY DEF Ended
<1>2. e \in Event /\ e[1] \in Txn /\ e[2] \in Nat /\ e[2] >= 1
  <2>1. finished' \in SUBSET Event
    BY DEF Formed, TypeOK
  <2>. QED  BY <1>1, <2>1, EventParts
<1>3. \A r \in Request : next[r] \in Nat /\ next'[r] \in Nat
  <2>1. next' \in [Request -> 1..(TxnSize + 1)]
    BY DEF Formed, TypeOK
  <2>. QED  BY <2>1, Types, Constants
<1>4. ~Settled(e[1]) /\ crashes' = crashes
  BY <1>1, <1>2, SettledStays DEF Goes
<1>5. CASE e \in finished
  <2>1. PICK r \in Request : /\ handler[r] \in Submitting
                             /\ reqTxn[r] = e[1] /\ next[r] > e[2]
    BY <1>1, <1>4, <1>5 DEF Whereabouts, Ended
  <2>2. PICK x : x = e[1]
    OBVIOUS
  <2>3. handler'[r] \in Submitting /\ reqTxn'[r] = x
    BY <1>1, <2>1, <2>2, SubmittingGoes
  <2>4. next'[r] >= next[r]
    BY <2>1 DEF Goes
  <2>. QED  BY <1>2, <1>3, <2>1, <2>2, <2>3, <2>4
<1>6. CASE e \notin finished
  <2>1. PICK r \in Request : reqTxn'[r] = e[1] /\ next'[r] > e[2]
    BY <1>6 DEF Goes
  <2>2. next'[r] # 1
    BY <1>2, <1>3, <2>1
  <2>3. handler'[r] \in Submitting \cup {"ok", "dead"} /\ (handler'[r] = "dead" => crashes' > 0)
    BY <2>2 DEF Formed, Requests
  <2>4. handler'[r] # "ok"
    BY <1>1, <2>1 DEF Settled
  <2>. QED  BY <1>1, <2>1, <2>3, <2>4
<1>. QED  BY <1>5, <1>6

\* A handler keeps the events it has not come to, or they become safe.
LEMMA HandlerKeeps ==
    ASSUME Formed, Formed', Whereabouts, Goes, NEW e \in Event, WithHandler(e)
    PROVE  Safe(e)' \/ WithHandler(e)'
<1>1. PICK r \in Request : handler[r] \in Submitting /\ reqTxn[r] = e[1] /\ next[r] <= e[2]
  BY DEF WithHandler
<1>2. /\ e = <<e[1], e[2]>> /\ e[2] \in Nat /\ e[2] >= 1 /\ e[2] <= TxnSize /\ TxnSize \in Nat
      /\ next[r] \in Nat /\ next'[r] \in Nat
  <2>1. next' \in [Request -> 1..(TxnSize + 1)]
    BY DEF Formed, TypeOK
  <2>. QED  BY <2>1, Types, Constants, EventParts
<1>3. reqTxn'[r] = e[1] /\ handler'[r] \in Submitting \cup {"ok"}
  BY <1>1 DEF Goes
<1>4. handler'[r] # "ok"
  <2>1. handler[r] # "ok" /\ handler[r] # "arrived" /\ next[r] # TxnSize + 1
    BY <1>1, <1>2 DEF Submitting
  <2>. QED  BY <2>1 DEF Goes
<1>5. CASE next'[r] <= e[2]
  BY <1>3, <1>4, <1>5 DEF WithHandler
<1>6. CASE next'[r] > e[2]
  <2>1. e[2] \in 1..(next'[r] - 1) /\ handler'[r] \in Submitting
    BY <1>2, <1>3, <1>4, <1>6
  <2>2. PICK i : i = e[2]
    OBVIOUS
  <2>3. Safe(<<reqTxn[r], i>>)'
    BY <2>1, <2>2, PassedStays DEF Passed
  <2>4. e = <<reqTxn'[r], i>>
    BY <1>2, <1>3, <2>2
  <2>. QED  BY <2>3, <2>4
<1>. QED  BY <1>2, <1>5, <1>6

LEMMA HeldStays ==
    ASSUME Formed, Formed', Whereabouts, Goes
    PROVE  Held'
<1>1. SUFFICES ASSUME crashes' = 0, NEW e \in Event, Settled(e[1])'
               PROVE  Safe(e)' \/ WithHandler(e)'
  BY DEF Held
<1>2. crashes = 0 /\ e[1] \in Txn /\ e = <<e[1], e[2]>> /\ e[2] \in 1..TxnSize /\ e[2] \in Nat
  BY <1>1, EventParts DEF Goes
<1>3. Safe(e) => Safe(e)'
  BY DEF Goes
<1>4. CASE Settled(e[1])
  BY <1>2, <1>3, <1>4, HandlerKeeps DEF Whereabouts, Held
<1>5. CASE ~Settled(e[1])
  <2>1. CASE \A i \in 1..TxnSize : Safe(<<e[1], i>>)
    <3>1. Safe(<<e[1], e[2]>>)
      BY <1>2, <2>1
    <3>. QED  BY <1>2, <1>3, <3>1
  <2>2. ASSUME NEW q \in Request, reqTxn[q] = e[1], handler[q] \in Submitting
        PROVE  Safe(e) \/ WithHandler(e)
    <3>1. next[q] \in Nat
      BY Types
    <3>2. CASE next[q] <= e[2]
      BY <2>2, <3>2 DEF WithHandler
    <3>3. CASE e[2] \in 1..(next[q] - 1)
      <4>1. Safe(<<reqTxn[q], e[2]>>)
        BY <2>2, <3>3 DEF Whereabouts, Passed
      <4>. QED  BY <1>2, <2>2, <4>1
    <3>. QED  BY <1>2, <3>1, <3>2, <3>3
  <2>. QED  BY <1>1, <1>2, <1>3, <1>5, <2>1, <2>2, NewlySettled, HandlerKeeps
<1>. QED  BY <1>4, <1>5

LEMMA InitWhereabouts == Init => Whereabouts
<1> SUFFICES ASSUME Init  PROVE Whereabouts
  OBVIOUS
<1>1. Marked /\ Passed /\ Ended
  BY DEF Init, Marked, Passed, Ended, Submitting
<1>2. \A x \in Txn : ~Settled(x)
  BY Constants DEF Init, Settled, Txn
<1>3. Held
  BY <1>2, EventParts DEF Held
<1>. QED  BY <1>1, <1>3 DEF Whereabouts

LEMMA StepWhereabouts == Formed /\ Whereabouts /\ [Next]_vars => Whereabouts'
<1> SUFFICES ASSUME Formed, Whereabouts, [Next]_vars  PROVE Whereabouts'
  OBVIOUS
<1>1. Formed'
  BY StepFormed
<1>2. CASE Goes
  BY <1>1, <1>2, MarkedStays, PassedStays, EndedStays, HeldStays DEF Whereabouts
<1>3. CASE Crash
  <2>1. /\ crashes' = crashes + 1 /\ crashes \in Nat
        /\ \A r \in Request :
              handler'[r] = IF handler[r] \in InHandler THEN "dead" ELSE handler[r]
        /\ \A x \in Txn : processed'[x] = "absent"
    BY <1>3, CrashSteps, Types
  <2>2. \A r \in Request : handler'[r] \notin Submitting
    BY <2>1 DEF Submitting, InHandler
  <2>3. crashes' > 0
    BY <2>1
  <2>. QED  BY <2>1, <2>2, <2>3 DEF Whereabouts, Marked, Passed, Ended, Held
<1>. QED  BY <1>2, <1>3, StepGoes

-----------------------------------------------------------------------------
(* How many events may be dropped *)

\* Nobody has the events of a settled transaction that were dropped.
Dropped == {e \in Event : Settled(e[1]) /\ ~Safe(e)}
Ahead == IF Crowded THEN TxnSize ELSE 0
PoolSize == BufferSize + Cardinality(Worker)
InPool == {e \in Event : WithPool(e)}

Few == Cardinality(Dropped) + Ahead <= crashes * PoolSize + overlaps * TxnSize

LEMMA Sizes ==
    /\ PoolSize \in Nat /\ TxnSize \in Nat
    /\ \A n \in Nat : /\ n * PoolSize \in Nat /\ n * TxnSize \in Nat
                      /\ (n + 1) * PoolSize = n * PoolSize + PoolSize
                      /\ (n + 1) * TxnSize = n * TxnSize + TxnSize
<1>1. BufferSize \in Nat /\ Cardinality(Worker) \in Nat /\ TxnSize \in Nat
  BY Constants, FS_CardinalityType
<1>2. PoolSize \in Nat
  BY <1>1 DEF PoolSize
<1>3. ASSUME NEW n \in Nat, NEW m \in Nat
      PROVE  n * m \in Nat /\ (n + 1) * m = n * m + m
  OBVIOUS
<1>. QED  BY <1>1, <1>2, <1>3

LEMMA EventsCounted ==
    ASSUME NEW P \in SUBSET Event
    PROVE  IsFiniteSet(P) /\ Cardinality(P) \in Nat
<1>1. IsFiniteSet(Txn) /\ IsFiniteSet(1..TxnSize)
  BY Constants, FS_Interval DEF Txn
<1>2. IsFiniteSet(Event)
  BY <1>1, FS_Product DEF Event
<1>. QED  BY <1>2, FS_Subset, FS_CardinalityType

LEMMA FewerEvents ==
    ASSUME NEW P \in SUBSET Event, NEW Q \in SUBSET P
    PROVE  Cardinality(Q) <= Cardinality(P)
BY EventsCounted, FS_Subset

LEMMA JoinedEvents ==
    ASSUME NEW P \in SUBSET Event, NEW Q \in SUBSET Event
    PROVE  Cardinality(P \cup Q) <= Cardinality(P) + Cardinality(Q)
<1>1. /\ IsFiniteSet(P) /\ IsFiniteSet(Q)
      /\ Cardinality(P) \in Nat /\ Cardinality(Q) \in Nat /\ Cardinality(P \cap Q) \in Nat
  BY EventsCounted
<1>2. Cardinality(P \cup Q) = Cardinality(P) + Cardinality(Q) - Cardinality(P \cap Q)
  BY <1>1, FS_Union
<1>. QED  BY <1>1, <1>2

\* What a function covers is no larger than its domain.
LEMMA Covered ==
    ASSUME NEW S, IsFiniteSet(S), NEW f, NEW P, \A p \in P : \E s \in S : f[s] = p
    PROVE  Cardinality(P) <= Cardinality(S)
<1> DEFINE D == {s \in S : f[s] \in P}
           g == [s \in D |-> f[s]]
<1>1. g \in Surjection(D, P)
  BY DEF Surjection
<1>2. IsFiniteSet(D) /\ Cardinality(D) <= Cardinality(S)
  BY FS_Subset
<1> HIDE DEF D, g
<1>3. IsFiniteSet(P) /\ Cardinality(P) <= Cardinality(D)
  BY <1>1, <1>2, FS_Surjection
<1>4. Cardinality(P) \in Nat /\ Cardinality(D) \in Nat /\ Cardinality(S) \in Nat
  BY <1>2, <1>3, FS_CardinalityType
<1>. QED  BY <1>2, <1>3, <1>4

LEMMA EventsOfTxn ==
    ASSUME NEW x \in Txn
    PROVE  LET E == {e \in Event : e[1] = x}
           IN  E \in SUBSET Event /\ Cardinality(E) <= TxnSize
<1> DEFINE E == {e \in Event : e[1] = x}
           f == [i \in 1..TxnSize |-> <<x, i>>]
<1>1. \A e \in E : \E i \in 1..TxnSize : f[i] = e
  BY EventParts
<1>2. IsFiniteSet(1..TxnSize) /\ Cardinality(1..TxnSize) = TxnSize
  BY Constants, FS_Interval
<1>3. Cardinality(E) <= TxnSize
  <2> HIDE DEF E, f
  <2>. QED  BY <1>1, <1>2, Covered
<1>. QED  BY <1>3

\* The buffer and the workers have room for so many events.
LEMMA PoolHolds ==
    ASSUME Formed
    PROVE  InPool \in SUBSET Event /\ Cardinality(InPool) <= PoolSize
<1> DEFINE A == {e \in Event :
                    \E r \in Request : reqTxn[r] = e[1] /\ Buffered(<<r, e[2]>>)}
           B == {e \in Event :
                    \E r \in Request : reqTxn[r] = e[1] /\ \E w \in Worker : job[w] = <<r, e[2]>>}
           f == [k \in 1..Len(taskChan) |-> EventOfTask(taskChan[k])]
           g == [w \in Worker |-> EventOfTask(job[w])]
<1>1. InPool \in SUBSET (A \cup B) /\ A \in SUBSET Event /\ B \in SUBSET Event
  BY DEF InPool, WithPool, Pooled
<1>2. ASSUME NEW e \in Event, NEW r \in Request, reqTxn[r] = e[1], NEW t, t = <<r, e[2]>>
      PROVE  EventOfTask(t) = e
  BY <1>2, EventParts DEF EventOfTask, EventOf
<1>3. \A e \in A : \E k \in 1..Len(taskChan) : f[k] = e
  <2>1. ASSUME NEW e \in A  PROVE \E k \in 1..Len(taskChan) : f[k] = e
    <3>1. PICK r \in Request : reqTxn[r] = e[1] /\ Buffered(<<r, e[2]>>)
      OBVIOUS
    <3>2. PICK k \in 1..Len(taskChan) : taskChan[k] = <<r, e[2]>>
      BY <3>1, BufferedIs
    <3>3. EventOfTask(taskChan[k]) = e
      BY <1>2, <3>1, <3>2
    <3>. QED  BY <3>3
  <2>. QED  BY <2>1
<1>4. \A e \in B : \E w \in Worker : g[w] = e
  <2>1. ASSUME NEW e \in B  PROVE \E w \in Worker : g[w] = e
    <3>1. PICK r \in Request, w \in Worker : reqTxn[r] = e[1] /\ job[w] = <<r, e[2]>>
      OBVIOUS
    <3>2. EventOfTask(job[w]) = e
      BY <1>2, <3>1
    <3>. QED  BY <3>2
  <2>. QED  BY <2>1
<1>5. Len(taskChan) \in Nat /\ Len(taskChan) <= BufferSize
  BY Types
<1>6. IsFiniteSet(1..Len(taskChan)) /\ Cardinality(1..Len(taskChan)) = Len(taskChan)
  <2>1. ASSUME NEW n \in Nat  PROVE IsFiniteSet(1..n) /\ Cardinality(1..n) = n
    BY FS_Interval
  <2>. HIDE DEF A, B, f, g
  <2>. QED  BY <1>5, <2>1
<1>. HIDE DEF A, B, f, g
<1>7. Cardinality(A) <= BufferSize /\ Cardinality(A) \in Nat
  <2>1. Cardinality(A) <= Len(taskChan)
    BY <1>3, <1>6, Covered
  <2>. QED  BY <1>1, <1>5, <2>1, EventsCounted, Constants
<1>8. /\ Cardinality(B) <= Cardinality(Worker) /\ Cardinality(B) \in Nat
      /\ Cardinality(Worker) \in Nat
  BY <1>1, <1>4, Covered, Constants, EventsCounted, FS_CardinalityType
<1>9. /\ Cardinality(InPool) <= Cardinality(A \cup B)
      /\ Cardinality(A \cup B) <= Cardinality(A) + Cardinality(B)
  BY <1>1, FewerEvents, JoinedEvents
<1>10. InPool \in SUBSET Event /\ A \cup B \in SUBSET Event
  BY <1>1
<1>11. Cardinality(InPool) \in Nat /\ Cardinality(A \cup B) \in Nat
  BY <1>10, EventsCounted
<1>. QED  BY <1>7, <1>8, <1>9, <1>10, <1>11, Constants DEF PoolSize

\* A handler enters the crowd only with an overlap.
LEMMA CrowdGrows ==
    ASSUME Formed, Goes, Crowded', overlaps' # overlaps + 1
    PROVE  Crowded /\ overlaps' = overlaps
<1>1. PICK q \in Request, r \in Request : CrowdedBy(q, r)'
  BY DEF Crowded
<1>2. PICK x : x = reqTxn'[q]
  OBVIOUS
<1>3. /\ q # r /\ handler'[q] \in InHandler /\ handler'[r] \in InHandler
      /\ reqTxn'[q] = x /\ reqTxn'[r] = x /\ ~Settled(x)'
  BY <1>1, <1>2 DEF CrowdedBy
<1>4. /\ overlaps' = overlaps
      /\ handler[q] \in InHandler /\ reqTxn[q] = x /\ handler[r] \in InHandler /\ reqTxn[r] = x
  BY <1>3 DEF Goes
<1>5. x \in Txn
  BY <1>4, SentRequest DEF InHandler
<1>6. ~Settled(x)
  BY <1>3, <1>5, SettledStays
<1>7. CrowdedBy(q, r)
  BY <1>3, <1>4, <1>6 DEF CrowdedBy
<1>. QED  BY <1>4, <1>7 DEF Crowded

\* The crowd is gone when its transaction is settled.
LEMMA CrowdGoes ==
    ASSUME Formed, Formed', Goes, NEW x \in Txn, x = sending, ~Settled(x), Settled(x)'
    PROVE  ~Crowded'
<1>1. SUFFICES ASSUME NEW q \in Request, NEW r \in Request, CrowdedBy(q, r)'
               PROVE  FALSE
  BY DEF Crowded
<1>2. PICK y : y = reqTxn'[q]
  OBVIOUS
<1>3. ~Settled(y)'
  BY <1>1, <1>2 DEF CrowdedBy
<1>4. sending' = sending
  BY DEF Goes, Settled
<1>5. y <= sending' /\ ~(y < sending') /\ y \in Nat /\ sending \in Nat
  <2>1. reqTxn' \in [Request -> 0..MaxTxn]
    BY DEF Formed, TypeOK
  <2>. QED  BY <1>2, <1>3, <2>1, Types, Constants DEF Formed, Requests, Settled
<1>6. y = x
  BY <1>4, <1>5
<1>. QED  BY <1>3, <1>6

LEMMA GoesFew ==
    ASSUME Formed, Formed', Whereabouts, Goes, Few
    PROVE  Few'
<1>1. PICK x, D : x = sending /\ D = Dropped'
  OBVIOUS
<1>2. Dropped \in SUBSET Event /\ D \in SUBSET Event
  BY <1>1 DEF Dropped
<1>3. /\ Cardinality(Dropped) \in Nat /\ Cardinality(D) \in Nat /\ crashes \in Nat
      /\ overlaps \in Nat /\ crashes' = crashes
  BY <1>2, EventsCounted, Types DEF Goes
<1>4. ASSUME NEW e \in D, e \notin Dropped
      PROVE  e[1] \in Txn /\ ~Settled(e[1]) /\ Settled(e[1])' /\ ~Safe(e)
  BY <1>1, <1>4, EventParts DEF Dropped, Goes
<1>5. CASE D \in SUBSET Dropped
  <2>1. Cardinality(D) <= Cardinality(Dropped)
    BY <1>2, <1>5, FewerEvents
  <2>2. \/ overlaps' = overlaps + 1
        \/ overlaps' = overlaps /\ (Crowded' => Crowded)
    <3>1. overlaps' = overlaps \/ overlaps' = overlaps + 1
      BY DEF Goes
    <3>. QED  BY <3>1, CrowdGrows
  <2>. QED  BY <1>1, <1>3, <2>1, <2>2, Sizes DEF Few, Ahead
<1>6. ASSUME NEW d \in D, d \notin Dropped  PROVE Few'
  <2>1. PICK y : y = d[1]
    OBVIOUS
  <2>2. y \in Txn /\ ~Settled(y) /\ Settled(y)' /\ ~Safe(d)
    BY <1>4, <1>6, <2>1
  <2>3. d = <<y, d[2]>> /\ d[2] \in 1..TxnSize
    BY <1>2, <1>6, <2>1, EventParts
  <2>4. y = x /\ Crowded
    BY <1>1, <2>2, <2>3, NewlySettled
  <2>5. ~Crowded'
    BY <1>1, <2>2, <2>4, CrowdGoes
  <2>6. PICK E : E = {e \in Event : e[1] = y}
    OBVIOUS
  <2>7. E \in SUBSET Event /\ Cardinality(E) <= TxnSize /\ Cardinality(E) \in Nat
    BY <2>2, <2>6, EventsOfTxn, EventsCounted
  <2>8. D \in SUBSET (Dropped \cup E)
    <3>1. ASSUME NEW e \in D, e \notin Dropped  PROVE e \in E
      BY <1>1, <1>2, <1>4, <2>4, <2>6, <3>1, NewlySettled
    <3>. QED  BY <3>1
  <2>9. /\ Cardinality(D) <= Cardinality(Dropped \cup E)
        /\ Cardinality(Dropped \cup E) <= Cardinality(Dropped) + Cardinality(E)
        /\ Cardinality(Dropped \cup E) \in Nat
    <3>1. Dropped \cup E \in SUBSET Event
      BY <1>2, <2>7
    <3>. QED  BY <1>2, <2>7, <2>8, <3>1, FewerEvents, JoinedEvents, EventsCounted
  <2>10. overlaps' = overlaps \/ overlaps' = overlaps + 1
    BY DEF Goes
  <2>. QED  BY <1>1, <1>3, <2>4, <2>5, <2>7, <2>9, <2>10, Sizes DEF Few, Ahead
<1>. QED  BY <1>5, <1>6

\* A crash drops no more than the pool has, and sends the crowd home.
LEMMA CrashFew ==
    ASSUME Formed, Formed', Crash, Few
    PROVE  Few'
<1>1. PICK D : D = Dropped'
  OBVIOUS
<1>2. /\ crashes' = crashes + 1 /\ UNCHANGED <<sending, reqTxn, finished, overlaps>>
      /\ \A r \in Request :
            handler'[r] = IF handler[r] \in InHandler THEN "dead" ELSE handler[r]
  BY CrashSteps DEF hsVars
<1>3. ASSUME NEW y  PROVE Settled(y)' => Settled(y)
  BY <1>2 DEF Settled
<1>4. D \in SUBSET (Dropped \cup InPool)
  <2>1. ASSUME NEW e \in Event, Settled(e[1])', ~Safe(e)'
        PROVE  e \in Dropped \/ e \in InPool
    BY <1>2, <1>3, <2>1 DEF Safe, Dropped, InPool
  <2>. QED  BY <1>1, <2>1 DEF Dropped
<1>5. ~Crowded'
  BY <1>2 DEF Crowded, CrowdedBy, InHandler
<1>6. /\ Dropped \in SUBSET Event /\ InPool \in SUBSET Event /\ D \in SUBSET Event
      /\ Dropped \cup InPool \in SUBSET Event
  BY <1>1 DEF Dropped, InPool
<1>7. /\ Cardinality(D) <= Cardinality(Dropped \cup InPool)
      /\ Cardinality(Dropped \cup InPool) <= Cardinality(Dropped) + Cardinality(InPool)
      /\ Cardinality(InPool) <= PoolSize
  BY <1>4, <1>6, FewerEvents, JoinedEvents, PoolHolds
<1>8. /\ Cardinality(D) \in Nat /\ Cardinality(Dropped) \in Nat /\ Cardinality(InPool) \in Nat
      /\ Cardinality(Dropped \cup InPool) \in Nat /\ crashes \in Nat /\ overlaps \in Nat
  BY <1>6, EventsCounted, Types
<1>. QED  BY <1>1, <1>2, <1>5, <1>7, <1>8, Sizes DEF Few, Ahead

LEMMA InitFew == Init => Few
<1> SUFFICES ASSUME Init  PROVE Few
  OBVIOUS
<1>1. \A x \in Txn : ~Settled(x)
  BY Constants DEF Init, Settled, Txn
<1>2. Dropped = {}
  BY <1>1, EventParts DEF Dropped
<1>3. ~Crowded /\ crashes = 0 /\ overlaps = 0
  BY DEF Init, Crowded, CrowdedBy, InHandler
<1>. QED  BY <1>2, <1>3, FS_EmptySet, Sizes DEF Few, Ahead

LEMMA StepFew == Formed /\ Whereabouts /\ Few /\ [Next]_vars => Few'
BY StepFormed, StepGoes, GoesFew, CrashFew

-----------------------------------------------------------------------------
(* The properties *)

IInv == Formed /\ Runs /\ Whereabouts /\ Few

LEMMA InitIInv == Init => IInv
BY InitFormed, InitRuns, InitWhereabouts, InitFew DEF IInv

LEMMA StepIInv == IInv /\ [Next]_vars => IInv'
BY StepFormed, StepRuns, StepWhereabouts, StepFew DEF IInv

\* What is in the pool, or with a handler, is in the plugin's hands.
LEMMA KeptInHand ==
    ASSUME Formed, NEW e \in Event, WithPool(e) \/ WithHandler(e)
    PROVE  InHand(e)
<1>1. CASE WithHandler(e)
  BY <1>1 DEF WithHandler, InHand, Submitting
<1>2. CASE WithPool(e)
  <2>1. PICK r \in Request : reqTxn[r] = e[1] /\ Pooled(<<r, e[2]>>)
    BY <1>2 DEF WithPool
  <2>. DEFINE t == <<r, e[2]>>
  <2>2. EventOfTask(t) = e /\ t \in Task
    BY <2>1, EventParts DEF EventOfTask, EventOf, Task
  <2>3. CASE Buffered(t)
    <3>1. PICK k \in 1..Len(taskChan) : taskChan[k] = t
      BY <2>3, BufferedIs
    <3>. QED  BY <2>2, <3>1 DEF InHand
  <2>4. CASE \E w \in Worker : job[w] = t
    BY <2>2, <2>4, Constants DEF InHand
  <2>. QED  BY <2>1, <2>3, <2>4 DEF Pooled
<1>. QED  BY <1>1, <1>2

LEMMA LostDropped ==
    ASSUME Formed
    PROVE  Lost \in SUBSET Dropped /\ \A e \in Lost : ~WithHandler(e)
BY KeptInHand DEF Lost, Acked, Dropped, Settled, Safe

LEMMA IInvLossBound == IInv => LossBound
<1> SUFFICES ASSUME IInv  PROVE LossBound
  OBVIOUS
<1>1. Formed /\ Held /\ Few
  BY DEF IInv, Whereabouts
<1>2. Lost \in SUBSET Dropped /\ Dropped \in SUBSET Event /\ Lost \in SUBSET Event
  BY <1>1, LostDropped DEF Dropped
<1>3. ASSUME crashes = 0  PROVE Lost = {}
  <2>1. \A e \in Lost : e \in Event /\ Settled(e[1]) /\ ~Safe(e) /\ ~WithHandler(e)
    BY <1>1, <1>2, LostDropped DEF Dropped
  <2>. QED  BY <1>1, <1>3, <2>1 DEF Held
<1>4. /\ Cardinality(Lost) <= Cardinality(Dropped)
      /\ Cardinality(Lost) \in Nat /\ Cardinality(Dropped) \in Nat
  BY <1>2, FewerEvents, EventsCounted
<1>5. crashes \in Nat /\ overlaps \in Nat
  BY <1>1, Types
<1>6. Cardinality(Lost) <= crashes * PoolSize + overlaps * TxnSize
  BY <1>1, <1>4, <1>5, Sizes DEF Few, Ahead
<1>. QED  BY <1>3, <1>6 DEF LossBound, AnsweredAhead, PoolSize

LEMMA IInvRunsBound == IInv => RunsBound
<1> SUFFICES ASSUME IInv, NEW e \in Event  PROVE ran[e] <= 1 + crashes + overlaps
  BY DEF RunsBound
<1>1. Formed /\ RunsOK(e)
  BY DEF IInv, Runs
<1>2. Due(e) = ran[e] + Cardinality(Pending(e)) /\ ran[e] \in Nat /\ Cardinality(Pending(e)) \in Nat
  BY <1>1, DueIs, Counted
<1>3. crashes \in Nat /\ overlaps \in Nat
  BY <1>1, Types
<1>. QED  BY <1>1, <1>2, <1>3 DEF RunsOK

\* However deliveries are repeated, overlap, fail or are cut off by a crash: an
\* event is executed at most once more than there were crashes and overlaps,
\* nothing acknowledged is lost without a crash, and a crash loses at most what
\* the pool held and, for every overlap, a transaction answered ahead.
THEOREM MatrixIntakeExecutionBound == Spec => []ExecutionBound
<1>1. IInv => ExecutionBound
  BY IInvLossBound, IInvRunsBound DEF ExecutionBound
<1>. QED  BY <1>1, InitIInv, StepIInv, PTL DEF Spec

\* Before what has ended there is only what ended, what the pool has and, after
\* overlaps, what was dropped or answered ahead.
LEMMA Overtaken ==
    ASSUME IInv, crashes = 0, NEW e \in finished,
           NEW d \in Event, Before(d, e), d \notin finished
    PROVE  d \in InPool \cup Dropped
<1>1. Formed /\ Passed /\ Ended
  BY DEF IInv, Whereabouts
<1>2. /\ e \in Event /\ d = <<d[1], d[2]>> /\ d[1] \in Nat /\ e[1] \in Nat /\ sending \in Nat
      /\ d[2] \in Nat /\ e[2] \in Nat /\ d[2] >= 1
  BY <1>1, Types, EventParts
<1>3. CASE Settled(d[1])
  BY <1>3 DEF Safe, InPool, Dropped
<1>4. CASE ~Settled(d[1])
  <2>1. d[1] >= sending
    BY <1>2, <1>4 DEF Settled
  <2>2. Settled(e[1]) => e[1] <= sending
    BY <1>1, <1>2 DEF Settled, Formed, Requests
  <2>3. ~Settled(e[1])
    BY <1>2, <1>4, <2>1, <2>2 DEF Before
  <2>4. PICK r \in Request : handler[r] \in Submitting /\ reqTxn[r] = e[1] /\ next[r] > e[2]
    BY <1>1, <2>3 DEF Ended
  <2>5. e[1] <= sending /\ next[r] \in Nat
    BY <1>1, <2>4, Types DEF Formed, Requests
  <2>6. d[1] = e[1] /\ d[2] < e[2]
    BY <1>2, <2>1, <2>5 DEF Before
  <2>7. d[2] \in 1..(next[r] - 1)
    BY <1>2, <2>4, <2>5, <2>6
  <2>8. Safe(<<reqTxn[r], d[2]>>)
    BY <1>1, <2>4, <2>7 DEF Passed
  <2>9. Safe(d)
    BY <1>2, <2>4, <2>6, <2>8
  <2>. QED  BY <2>9 DEF Safe, InPool
<1>. QED  BY <1>3, <1>4

LEMMA IInvNearlyInOrder == IInv => NearlyInOrder
<1> SUFFICES ASSUME IInv, crashes = 0, NEW e \in finished
             PROVE  Cardinality({d \in Event : Before(d, e) /\ d \notin finished})
                      <= BufferSize + Cardinality(Worker) + AnsweredAhead
  BY DEF NearlyInOrder
<1> DEFINE D == {d \in Event : Before(d, e) /\ d \notin finished}
<1>1. Formed /\ Few
  BY DEF IInv
<1>2. D \in SUBSET (InPool \cup Dropped)
  BY Overtaken
<1>3. D \in SUBSET Event
  OBVIOUS
<1> HIDE DEF D
<1>4. InPool \in SUBSET Event /\ Dropped \in SUBSET Event /\ InPool \cup Dropped \in SUBSET Event
  BY DEF InPool, Dropped
<1>5. /\ Cardinality(D) <= Cardinality(InPool \cup Dropped)
      /\ Cardinality(InPool \cup Dropped) <= Cardinality(InPool) + Cardinality(Dropped)
      /\ Cardinality(InPool) <= PoolSize
  BY <1>1, <1>2, <1>4, FewerEvents, JoinedEvents, PoolHolds
<1>6. /\ Cardinality(D) \in Nat /\ Cardinality(InPool) \in Nat /\ Cardinality(Dropped) \in Nat
      /\ Cardinality(InPool \cup Dropped) \in Nat /\ overlaps \in Nat
  BY <1>1, <1>3, <1>4, EventsCounted, Types
<1>7. Cardinality(Dropped) <= overlaps * TxnSize
  <2>1. 0 * PoolSize = 0
    BY Sizes
  <2>. QED  BY <1>1, <1>6, <2>1, Sizes DEF Few, Ahead
<1>8. Cardinality(D) <= PoolSize + overlaps * TxnSize
  BY <1>5, <1>6, <1>7, Sizes
<1>. QED  BY <1>8 DEF D, AnsweredAhead, PoolSize

\* While the plugin has not crashed, an event that ended overtook at most what
\* the pool held and, for every overlap, a transaction answered ahead.
THEOREM MatrixIntakeNearlyInOrder == Spec => []NearlyInOrder
BY IInvNearlyInOrder, InitIInv, StepIInv, PTL DEF Spec

-----------------------------------------------------------------------------
(* The rate limiter (TokenBucket). *)

\* The grants since the i-th, the i-th included, and the tokens that are left
\* were paid for by a full bucket and by the refills since the i-th grant.
Paid ==
    bucket.rate > 0 =>
      \A i \in 1..Len(grants) :
        /\ grants[i] <= lastRefill
        /\ (Len(grants) - i + 1) * One + tokens
              <= bucket.burst * One + bucket.rate * (lastRefill - grants[i])

LimiterInv == LimiterTypeOK /\ Paid /\ BurstBound

USE DEF One, Deadline, DisabledWait

\* Every table of limits consists of buckets.
LEMMA LimitsAreBuckets ==
    ASSUME NEW t1 \in Bucket, NEW t2 \in Bucket, NEW t3 \in Bucket,
           NEW t4 \in Bucket, NEW t5 \in Bucket, NEW op \in Operation
    PROVE  Limits(t1, t2, t3, t4, t5)[op] \in Bucket
BY DEF Operation, Limits

LEMMA RatedIsBucket == \A r, b \in Nat : Rated(r, b) \in Bucket
BY DEF Rated, Bucket
LEMMA SpacedIsBucket == \A i \in Nat : Spaced(i) \in Bucket
BY DEF Spaced, Bucket

LEMMA ConfigIsBucket ==
    ASSUME NEW mode, NEW op \in Operation
    PROVE  ConfigByMode(mode)[op] \in Bucket
<1>1. Limits(Rated(50, 2), Rated(200, 10), Rated(300, 10), Rated(170, 3), Rated(200, 5))[op] \in Bucket
  <2>. /\ Rated(50, 2) \in Bucket
       /\ Rated(200, 10) \in Bucket
       /\ Rated(300, 10) \in Bucket
       /\ Rated(170, 3) \in Bucket
       /\ Rated(200, 5) \in Bucket
    BY RatedIsBucket, SpacedIsBucket
  <2>. QED  BY LimitsAreBuckets
<1>2. Limits(Spaced(67), Rated(9990, 15), Rated(9990, 15), Rated(4998, 4), Rated(5010, 7))[op] \in Bucket
  <2>. /\ Spaced(67) \in Bucket
       /\ Rated(9990, 15) \in Bucket
       /\ Rated(4998, 4) \in Bucket
       /\ Rated(5010, 7) \in Bucket
    BY RatedIsBucket, SpacedIsBucket
  <2>. QED  BY LimitsAreBuckets
<1>3. Limits(Rated(250, 3), Rated(1000, 15), Rated(1500, 15), Rated(850, 5), Rated(1000, 8))[op] \in Bucket
  <2>. /\ Rated(250, 3) \in Bucket
       /\ Rated(1000, 15) \in Bucket
       /\ Rated(1500, 15) \in Bucket
       /\ Rated(850, 5) \in Bucket
       /\ Rated(1000, 8) \in Bucket
    BY RatedIsBucket, SpacedIsBucket
  <2>. QED  BY LimitsAreBuckets
<1>4. Limits(Rated(25, 1), Rated(100, 5), Rated(150, 5), Rated(85, 2), Rated(100, 3))[op] \in Bucket
  <2>. /\ Rated(25, 1) \in Bucket
       /\ Rated(100, 5) \in Bucket
       /\ Rated(150, 5) \in Bucket
       /\ Rated(85, 2) \in Bucket
       /\ Rated(100, 3) \in Bucket
    BY RatedIsBucket, SpacedIsBucket
  <2>. QED  BY LimitsAreBuckets
<1>5. Limits(Spaced(0), Spaced(0), Spaced(0), Spaced(0), Spaced(0))[op] \in Bucket
  <2>. /\ Spaced(0) \in Bucket
    BY RatedIsBucket, SpacedIsBucket
  <2>. QED  BY LimitsAreBuckets
<1>6. Limits(Rated(100, 3), Rated(400, 12), Rated(600, 12), Rated(340, 4), Rated(400, 7))[op] \in Bucket
  <2>. /\ Rated(100, 3) \in Bucket
       /\ Rated(400, 12) \in Bucket
       /\ Rated(600, 12) \in Bucket
       /\ Rated(340, 4) \in Bucket
       /\ Rated(400, 7) \in Bucket
    BY RatedIsBucket, SpacedIsBucket
  <2>. QED  BY LimitsAreBuckets
<1>. QED  BY <1>1, <1>2, <1>3, <1>4, <1>5, <1>6
          DEF ConfigByMode, DefaultLimits, TestingLimits

\* The parts of the type invariant that the steps below use.
LEMMA TypeFacts ==
    ASSUME LimiterTypeOK
    PROVE  /\ bucket.interval \in Nat /\ bucket.rate \in Nat
           /\ bucket.burst \in Nat
           /\ now \in Nat /\ tokens \in Nat /\ lastRefill \in Nat
           /\ lastRefill <= now
           /\ lastOp \subseteq Nat
           /\ caller \in [Caller -> {"idle", "try", "measure", "sleep"}]
           /\ start \in [Caller -> Nat] /\ wake \in [Caller -> Nat]
           /\ grants \in Seq(Nat)
           /\ failures \subseteq Nat
BY DEF LimiterTypeOK, Bucket

LEMMA Distributes ==
    \A r, x, y \in Int : r * x \in Int /\ r * x + r * y = r * (x + y)
OBVIOUS

LEMMA ProductInt == \A r, x \in Int : r * x \in Int
OBVIOUS

\* Crediting the time from l to n at rate r, with g before l.
LEMMA Credit ==
    ASSUME NEW r \in Nat, NEW g \in Nat, NEW l \in Nat, NEW n \in Nat,
           NEW k \in Int, NEW b \in Int, NEW t \in Nat, NEW u \in Nat,
           k + t <= b + r * (l - g), u <= t + r * (n - l)
    PROVE  k + u <= b + r * (n - g)
<1>. DEFINE x == r * (l - g)
            y == r * (n - l)
            z == r * (n - g)
<1>1. /\ r \in Int /\ l - g \in Int /\ n - l \in Int
      /\ (l - g) + (n - l) = n - g
  OBVIOUS
<1>2. x \in Int /\ y \in Int /\ x + y = z
  BY <1>1, Distributes
<1>3. k + t <= b + x /\ u <= t + y
  OBVIOUS
<1>. HIDE DEF x, y, z
<1>4. k + u <= b + z
  BY <1>2, <1>3
<1>. QED  BY <1>4 DEF z

\* What is credited never overfills the bucket and never takes tokens away.
LEMMA RefilledRange ==
    ASSUME LimiterTypeOK
    PROVE  /\ Refilled \in Nat
           /\ Refilled <= bucket.burst * One
           /\ Refilled <= tokens + bucket.rate * (now - lastRefill)
<1>. DEFINE r == (now - lastRefill) * bucket.rate
<1>1. /\ bucket.burst \in Nat /\ bucket.rate \in Nat
      /\ now - lastRefill \in Nat
  BY DEF LimiterTypeOK, Bucket
<1>2. r \in Nat /\ r = bucket.rate * (now - lastRefill)
  BY <1>1
<1>3. tokens \in Nat /\ bucket.burst * One \in Nat
  BY <1>1 DEF LimiterTypeOK
<1>4. Refilled = IF tokens + r > bucket.burst * One
                 THEN bucket.burst * One ELSE tokens + r
  BY DEF Refilled
<1>. HIDE DEF r
<1>. QED  BY <1>2, <1>3, <1>4

LEMMA InitLimiterInv == LimiterInit => LimiterInv
<1>. SUFFICES ASSUME LimiterInit PROVE LimiterInv
  OBVIOUS
<1>1. bucket \in Bucket
  BY ConfigIsBucket, TokenBucketAssumption DEF LimiterInit
<1>2. LimiterTypeOK
  BY <1>1 DEF LimiterInit, LimiterTypeOK, Bucket
<1>. QED  BY <1>2 DEF LimiterInit, LimiterInv, Paid, BurstBound

\* The wait of a refused caller is a natural number.
LEMMA WaitTimeNat == ASSUME LimiterTypeOK PROVE WaitTime > 0 => now + WaitTime \in Nat
<1>1. /\ bucket.interval \in Nat /\ bucket.rate \in Nat
      /\ now \in Nat /\ tokens \in Nat
  BY DEF LimiterTypeOK, Bucket
<1>2. CASE bucket.interval > 0
  <2>1. CASE TooSoon
    <3>1. (CHOOSE t \in lastOp : TRUE) \in Nat
      <4>1. \E t \in lastOp : TRUE
        BY <2>1 DEF TooSoon
      <4>2. (CHOOSE t \in lastOp : TRUE) \in lastOp
        BY <4>1
      <4>3. lastOp \subseteq Nat
        BY DEF LimiterTypeOK
      <4>. QED  BY <4>2, <4>3
    <3>. QED  BY <1>1, <1>2, <2>1, <3>1 DEF WaitTime
  <2>. QED  BY <1>1, <1>2, <2>1 DEF WaitTime
<1>3. CASE ~(bucket.interval > 0)
  <2>1. CASE tokens < One /\ bucket.rate > 0
    <3>1. One - tokens + bucket.rate - 1 \in Nat
      BY <1>1, <2>1
    <3>2. (One - tokens + bucket.rate - 1) \div bucket.rate \in Nat
      BY <1>1, <2>1, <3>1
    <3>. QED  BY <1>1, <1>3, <2>1, <3>2 DEF WaitTime
  <2>. QED  BY <1>1, <1>3, <2>1 DEF WaitTime
<1>. QED  BY <1>2, <1>3

-----------------------------------------------------------------------------
(* Types. *)

LEMMA AllowTypeOK ==
    ASSUME LimiterTypeOK, NEW c \in Caller, Allow(c)
    PROVE  LimiterTypeOK'
<1>1. /\ bucket.interval \in Nat /\ bucket.rate \in Nat /\ bucket.burst \in Nat
      /\ now \in Nat /\ tokens \in Nat
  BY DEF LimiterTypeOK, Bucket
<1>2. /\ caller' \in [Caller -> {"idle", "try", "measure", "sleep"}]
      /\ grants' \in Seq(Nat)
  <2>1. Passes(c) \/ Refused(c)
    BY DEF Allow, AllowUnlimited, AllowInterval, AllowToken
  <2>2. CASE Passes(c)
    BY <2>2, TypeFacts DEF Passes
  <2>3. CASE Refused(c)
    BY <2>3, TypeFacts DEF Refused
  <2>. QED  BY <2>1, <2>2, <2>3
<1>3. CASE AllowUnlimited(c)
  BY <1>2, <1>3 DEF LimiterTypeOK, Allow, AllowUnlimited, limiter
<1>4. CASE AllowInterval(c)
  <2>1. lastOp' \subseteq Nat
    BY <1>4, TypeFacts DEF AllowInterval
  <2>. QED  BY <1>1, <1>2, <1>4, <2>1 DEF LimiterTypeOK, Allow, AllowInterval
<1>5. CASE AllowToken(c)
  <2>1. /\ tokens' \in Nat /\ tokens' <= bucket.burst * One
        /\ lastRefill' = now /\ bucket' = bucket /\ lastOp' = lastOp
    BY <1>1, <1>5, RefilledRange DEF AllowToken
  <2>. QED  BY <1>1, <1>2, <2>1 DEF LimiterTypeOK, Allow
<1>. QED  BY <1>3, <1>4, <1>5 DEF Allow

LEMMA TickTypeOK ==
    ASSUME LimiterTypeOK, NEW t \in Nat, Tick(t), heldUp' \in Nat
    PROVE  LimiterTypeOK'
BY DEF LimiterTypeOK, Tick, limiter

LEMMA TimeUpNat == ASSUME LimiterTypeOK, NEW c \in Caller PROVE TimeUp(c) \in Nat
BY DEF LimiterTypeOK, TimeUp

LEMMA NextTypeOK ==
    ASSUME LimiterTypeOK, [LimiterNext]_limiterVars
    PROVE  LimiterTypeOK'
<1>1. ASSUME NEW c \in Caller, Call(c) PROVE LimiterTypeOK'
  BY <1>1 DEF LimiterTypeOK, Call, limiter
<1>2. ASSUME NEW c \in Caller, Allow(c) PROVE LimiterTypeOK'
  BY <1>2, AllowTypeOK
<1>3. ASSUME NEW c \in Caller, Measure(c) PROVE LimiterTypeOK'
  <2>1. WaitTime > 0 => now + WaitTime \in Nat
    BY WaitTimeNat
  <2>2. caller' \in [Caller -> {"idle", "try", "measure", "sleep"}]
    BY <1>3, TypeFacts DEF Measure
  <2>3. wake' \in [Caller -> Nat]
    BY <1>3, <2>1, TypeFacts DEF Measure
  <2>. QED  BY <1>3, <2>2, <2>3 DEF LimiterTypeOK, Measure, limiter
<1>4. ASSUME NEW c \in Caller, WakeUp(c) PROVE LimiterTypeOK'
  BY <1>4 DEF LimiterTypeOK, WakeUp, limiter
<1>5. ASSUME NEW c \in Caller, GiveUp(c) PROVE LimiterTypeOK'
  <2>1. failures' \in SUBSET Nat
    BY <1>5, TypeFacts DEF GiveUp
  <2>. QED  BY <1>5, <2>1 DEF LimiterTypeOK, GiveUp, limiter
<1>6. CASE ToNextTimer
  <2>1. PICK c \in Asleep : Tick(TimeUp(c))
    BY <1>6 DEF ToNextTimer
  <2>2. TimeUp(c) \in Nat /\ heldUp' \in Nat
    BY <1>6, TimeUpNat DEF Asleep, ToNextTimer, LimiterTypeOK
  <2>. QED  BY <2>1, <2>2, TickTypeOK
<1>7. CASE ForAWhile
  <2>1. PICK d \in Pause : Tick(now + d)
    BY <1>7 DEF ForAWhile
  <2>2. now + d \in Nat /\ heldUp' \in Nat
    BY <1>7, TokenBucketAssumption DEF ForAWhile, LimiterTypeOK
  <2>. QED  BY <2>1, <2>2, TickTypeOK
<1>8. CASE HeldUp
  <2>1. now + 1 \in Nat /\ heldUp' \in Nat
    BY <1>8 DEF HeldUp, LimiterTypeOK
  <2>. QED  BY <1>8, <2>1, TickTypeOK DEF HeldUp
<1>9. CASE UNCHANGED limiterVars
  BY <1>9 DEF LimiterTypeOK, limiterVars, limiter
<1>. QED  BY <1>1, <1>2, <1>3, <1>4, <1>5, <1>6, <1>7, <1>8, <1>9
          DEF LimiterNext, CallerStep

\* The types of the limiter, for every configuration and number of callers.
THEOREM TokenBucketTypeOK == LimiterSpec => []LimiterTypeOK
<1>1. LimiterInit => LimiterTypeOK
  BY InitLimiterInv DEF LimiterInv
<1>2. LimiterTypeOK /\ [LimiterNext]_limiterVars => LimiterTypeOK'
  BY NextTypeOK
<1>. QED  BY <1>1, <1>2, PTL DEF LimiterSpec

-----------------------------------------------------------------------------
(* The bound on bursts. *)

\* Only Allow touches what the bound speaks of.
LEMMA QuietSteps ==
    ASSUME [LimiterNext]_limiterVars, \A c \in Caller : ~Allow(c)
    PROVE  UNCHANGED <<limiter, grants>>
BY DEF LimiterNext, CallerStep, Call, Measure, WakeUp, GiveUp, ToNextTimer, ForAWhile,
       HeldUp, Tick, limiterVars

LEMMA AllowPaid ==
    ASSUME LimiterTypeOK, Paid, NEW c \in Caller, Allow(c), bucket.rate > 0
    PROVE  /\ Paid'
           /\ \/ grants' = grants
              \/ grants' = Append(grants, lastRefill')
<1>. DEFINE B == bucket.burst * One
            L == Len(grants)
<1>1. /\ bucket.rate \in Nat /\ bucket.interval = 0 /\ bucket.burst \in Nat
      /\ now \in Nat /\ tokens \in Nat /\ lastRefill \in Nat /\ lastRefill <= now
      /\ grants \in Seq(Nat) /\ L \in Nat /\ B \in Nat
      /\ \A i \in 1..L : grants[i] \in Nat
  BY DEF LimiterTypeOK, Bucket
<1>2. AllowToken(c) /\ ~IsDisabled
  BY <1>1 DEF Allow, AllowUnlimited, AllowInterval, IsDisabled
<1>3. lastRefill' = now /\ bucket' = bucket
  BY <1>2 DEF AllowToken
\* Crediting the elapsed time keeps what was paid for, and a full bucket
\* pays for one grant more.
<1>4. \A i \in 1..L :
        /\ grants[i] <= now
        /\ (L - i + 1) * One + Refilled <= B + bucket.rate * (now - grants[i])
  <2>. SUFFICES ASSUME NEW i \in 1..L
                PROVE  /\ grants[i] <= now
                       /\ (L - i + 1) * One + Refilled
                            <= B + bucket.rate * (now - grants[i])
    OBVIOUS
  <2>1. /\ grants[i] \in Nat /\ grants[i] <= lastRefill
        /\ (L - i + 1) * One + tokens <= B + bucket.rate * (lastRefill - grants[i])
    BY <1>1 DEF Paid
  <2>2. Refilled \in Nat /\ Refilled <= tokens + bucket.rate * (now - lastRefill)
    BY RefilledRange
  <2>3. grants[i] <= now
    BY <1>1, <2>1
  <2>4. (L - i + 1) * One \in Int /\ B \in Int
    BY <1>1
  <2>5. (L - i + 1) * One + Refilled <= B + bucket.rate * (now - grants[i])
    <3>1. /\ bucket.rate \in Nat /\ grants[i] \in Nat /\ lastRefill \in Nat
          /\ now \in Nat /\ tokens \in Nat /\ Refilled \in Nat
      BY <1>1, <2>1, <2>2
    <3>2. /\ (L - i + 1) * One + tokens <= B + bucket.rate * (lastRefill - grants[i])
          /\ Refilled <= tokens + bucket.rate * (now - lastRefill)
      BY <2>1, <2>2
    <3>. HIDE DEF One, B, L
    <3>. QED  BY <2>4, <3>1, <3>2, Credit, Zenon
  <2>. QED  BY <2>3, <2>5
<1>5. CASE grants' = Append(grants, now) /\ tokens' = Refilled - One
  <2>1. /\ Len(grants') = L + 1
        /\ \A i \in 1..L : grants'[i] = grants[i]
        /\ grants'[L + 1] = now
    BY <1>1, <1>5
  <2>2. Refilled \in Nat /\ Refilled <= B
    BY RefilledRange
  <2>3. ASSUME NEW i \in 1..Len(grants')
        PROVE  /\ grants'[i] <= lastRefill'
               /\ (Len(grants') - i + 1) * One + tokens'
                     <= B + bucket.rate * (lastRefill' - grants'[i])
    <3>1. CASE i \in 1..L
      <4>1. /\ grants[i] <= now
            /\ (L - i + 1) * One + Refilled <= B + bucket.rate * (now - grants[i])
        BY <1>4, <3>1
      <4>2. bucket.rate * (now - grants[i]) \in Int
        <5>1. bucket.rate \in Int /\ now - grants[i] \in Int
          BY <1>1, <3>1
        <5>. QED  BY <5>1, ProductInt, Zenon
      <4>. QED  BY <1>1, <1>3, <1>5, <2>1, <2>2, <3>1, <4>1, <4>2
    <3>2. CASE i = L + 1
      <4>1. bucket.rate * (now - now) = 0
        BY <1>1
      <4>. QED  BY <1>1, <1>3, <1>5, <2>1, <2>2, <3>2, <4>1
    <3>. QED  BY <1>1, <2>1, <3>1, <3>2
  <2>. QED  BY <1>3, <1>5, <2>3 DEF Paid
<1>6. CASE grants' = grants /\ tokens' = Refilled
  BY <1>3, <1>4, <1>6 DEF Paid
<1>. QED  BY <1>2, <1>3, <1>5, <1>6 DEF AllowToken, Passes, Refused

LEMMA NextLimiterInv == LimiterInv /\ [LimiterNext]_limiterVars => LimiterInv'
<1>. SUFFICES ASSUME LimiterInv, [LimiterNext]_limiterVars PROVE LimiterInv'
  OBVIOUS
<1>. USE DEF LimiterInv
<1>1. LimiterTypeOK'
  BY NextTypeOK
<1>2. CASE UNCHANGED <<limiter, grants>>
  BY <1>1, <1>2 DEF limiter, Paid, BurstBound
<1>3. ASSUME NEW c \in Caller, Allow(c) PROVE LimiterInv'
  <2>1. bucket' = bucket
    BY <1>3 DEF Allow, AllowUnlimited, AllowInterval, AllowToken, limiter
  <2>2. CASE ~(bucket.rate > 0)
    BY <1>1, <2>1, <2>2 DEF Paid, BurstBound
  <2>3. CASE bucket.rate > 0
    <3>1. Paid' /\ (grants' = grants \/ grants' = Append(grants, lastRefill'))
      BY <1>3, <2>3, AllowPaid
    <3>2. CASE grants' = grants
      BY <1>1, <2>1, <3>1, <3>2 DEF BurstBound
    <3>3. CASE grants' = Append(grants, lastRefill')
      <4>1. /\ grants \in Seq(Nat) /\ Len(grants) \in Nat
            /\ Len(grants') = Len(grants) + 1
            /\ \A i \in 1..Len(grants) : grants'[i] = grants[i]
            /\ grants'[Len(grants) + 1] = lastRefill'
        BY <3>3 DEF LimiterTypeOK
      <4>2. ASSUME NEW i \in 1..Len(grants')
            PROVE  (Len(grants') - i + 1) * One
                     <= bucket.burst * One
                          + bucket.rate * (grants'[Len(grants')] - grants'[i])
        <5>1. (Len(grants') - i + 1) * One + tokens'
                <= bucket.burst * One + bucket.rate * (lastRefill' - grants'[i])
          BY <2>1, <2>3, <3>1, <4>2 DEF Paid
        <5>2. /\ bucket.burst * One \in Nat /\ tokens' \in Nat
              /\ bucket.rate * (lastRefill' - grants'[i]) \in Int
              /\ (Len(grants') - i + 1) * One \in Int
          <6>1. /\ bucket.burst \in Nat /\ bucket.rate \in Nat /\ tokens' \in Nat
                /\ lastRefill' \in Nat /\ grants' \in Seq(Nat)
            BY <1>1, <2>1 DEF LimiterTypeOK, Bucket
          <6>2. grants'[i] \in Nat /\ lastRefill' - grants'[i] \in Int
            BY <6>1
          <6>3. (Len(grants') - i + 1) * One \in Int /\ bucket.burst * One \in Nat
            BY <4>1, <6>1
          <6>4. bucket.rate * (lastRefill' - grants'[i]) \in Int
            <7>1. bucket.rate \in Int
              BY <6>1
            <7>. QED  BY <6>2, <7>1, ProductInt, Zenon
          <6>. QED  BY <6>1, <6>3, <6>4
        <5>. QED  BY <4>1, <5>1, <5>2
      <4>3. ASSUME NEW j \in 1..Len(grants), NEW i \in 1..j
            PROVE  (j - i + 1) * One
                     <= bucket.burst * One + bucket.rate * (grants'[j] - grants'[i])
        <5>1. i \in 1..Len(grants)
          BY <4>1
        <5>. QED  BY <2>3, <4>1, <5>1 DEF BurstBound
      <4>4. ASSUME NEW j \in 1..Len(grants'), NEW i \in 1..j
            PROVE  (j - i + 1) * One
                     <= bucket.burst * One + bucket.rate * (grants'[j] - grants'[i])
        <5>1. CASE j = Len(grants')
          BY <4>2, <5>1
        <5>2. CASE j \in 1..Len(grants)
          BY <4>3, <5>2
        <5>. QED  BY <4>1, <5>1, <5>2
      <4>5. BurstBound'
        BY <2>1, <4>4 DEF BurstBound
      <4>. QED  BY <1>1, <3>1, <4>5
    <3>. QED  BY <3>1, <3>2, <3>3
  <2>. QED  BY <2>2, <2>3
<1>. QED  BY <1>2, <1>3, QuietSteps

\* No interleaving of any number of callers lets more requests through in a
\* window of time than a full bucket and the refills of that window pay for.
THEOREM TokenBucketBurstBound == LimiterSpec => []BurstBound
<1>1. LimiterInv => BurstBound
  BY DEF LimiterInv
<1>. QED  BY InitLimiterInv, NextLimiterInv, <1>1, PTL DEF LimiterSpec

-----------------------------------------------------------------------------
(* LimitIsExact.  That a failed call met a busy limiter follows from what  *)
(* every waiting call can rely on: the grants since it began and the       *)
(* tokens left account for all the time since then, but for the time       *)
(* callers were held up.  Only a refill that is cut off at the burst loses *)
(* time: then the bucket holds two tokens or more, and the call has missed *)
(* less than one and what the rate gives in a tick, at most another one.   *)
(* The slow limits, with room for one token, are busy with any grant.      *)

\* What a call begun at f relies on while it waits.
KeepsPace(f) ==
    /\ f <= now /\ now <= f + Deadline
    /\ bucket.interval > 0 =>
         /\ \A t \in lastOp : t <= f + Others(f) * bucket.interval + heldUp
         /\ now <= f + (Others(f) + 1) * bucket.interval + heldUp
    /\ bucket.interval = 0 =>
         /\ Others(f) * One + tokens >= bucket.rate * (lastRefill - f - heldUp)
         /\ (Others(f) + 1) * One > bucket.rate * (now - 1 - f - heldUp)

\* A call that was refused at the present time.
Measures(f) ==
    bucket.interval = 0 =>
      /\ Others(f) * One + tokens >= bucket.rate * (now - f - heldUp)
      /\ (Others(f) + 1) * One > bucket.rate * (now - f - heldUp)

\* A call that sleeps until w.
Sleeps(w, f) ==
    /\ now <= w
    /\ bucket.interval > 0 => w <= f + (Others(f) + 1) * bucket.interval + heldUp
    /\ bucket.interval = 0 => (Others(f) + 1) * One > bucket.rate * (w - 1 - f - heldUp)

OnTime(c, f) == /\ KeepsPace(f)
                /\ caller[c] = "measure" => Measures(f)
                /\ caller[c] = "sleep" => Sleeps(wake[c], f)

Waiting == \A c \in Caller, f \in Nat :
             caller[c] # "idle" /\ start[c] = f => Busy(f) \/ OnTime(c, f)

\* Slow limits give less than a token in a call's time; the others have room
\* for two tokens and gain at most one in a tick.
Slow == bucket.rate * (Deadline - 1) < One
Sized == bucket.interval = 0 => Slow \/ (bucket.rate <= One /\ bucket.burst >= 2)

\* The last grant of a limiter with an interval.
LastGrant ==
    /\ \A t \in lastOp : t <= now
    /\ bucket.interval > 0 =>
         lastOp = IF grants = <<>> THEN {} ELSE {grants[Len(grants)]}

WInv == LimiterTypeOK /\ Waiting /\ Sized /\ LastGrant /\ LimitIsExact

LEMMA MulMono ==
    ASSUME NEW r \in Nat, NEW x \in Int, NEW y \in Int, x <= y
    PROVE  r * x <= r * y /\ r * x \in Int /\ r * y \in Int
<1>1. y - x \in Nat /\ x + (y - x) = y
  OBVIOUS
<1>2. r * (y - x) \in Nat
  BY <1>1
<1>. DEFINE p == r * x
            q == r * (y - x)
            s == r * y
<1>3. p \in Int /\ s \in Int /\ p + q = s
  BY <1>1, Distributes
<1>4. q \in Nat
  BY <1>2
<1>. HIDE DEF p, q, s
<1>5. p <= s
  BY <1>3, <1>4
<1>. QED  BY <1>3, <1>5 DEF p, s

\* What pays for a longer time at rate r pays for a shorter one.
LEMMA PaysForLess ==
    ASSUME NEW r \in Nat, NEW x \in Int, NEW y \in Int, x <= y,
           NEW a \in Int, NEW b \in Int, a <= b
    PROVE  /\ a >= r * y => b >= r * x
           /\ a > r * y => b > r * x
<1>. DEFINE p == r * x
            s == r * y
<1>1. p <= s /\ p \in Int /\ s \in Int
  BY MulMono
<1>. HIDE DEF p, s
<1>2. (a >= s => b >= p) /\ (a > s => b > p)
  BY <1>1
<1>. QED  BY <1>2 DEF p, s

\* No time costs nothing.
LEMMA PaysForNothing ==
    ASSUME NEW r \in Nat, NEW x \in Int, x <= 0
    PROVE  r * x <= 0 /\ r * x \in Int
<1>1. r * x <= r * 0
  BY MulMono
<1>2. r * 0 = 0 /\ r * x \in Int
  OBVIOUS
<1>. QED  BY <1>1, <1>2

-----------------------------------------------------------------------------
(* The grants since a call began. *)

GrantsAfter(g, f) == {i \in 1..Len(g) : f < g[i] /\ g[i] <= f + Deadline}

LEMMA GrantsAfterFinite ==
    ASSUME NEW g \in Seq(Nat), NEW f \in Nat
    PROVE  /\ IsFiniteSet(GrantsAfter(g, f))
           /\ Cardinality(GrantsAfter(g, f)) \in Nat
<1>1. IsFiniteSet(1..Len(g))
  BY FS_Interval
<1>2. GrantsAfter(g, f) \subseteq 1..Len(g)
  BY DEF GrantsAfter
<1>. QED  BY <1>1, <1>2, FS_Subset, FS_CardinalityType

LEMMA GrantsAfterAppend ==
    ASSUME NEW g \in Seq(Nat), NEW f \in Nat, NEW t \in Nat
    PROVE  /\ Cardinality(GrantsAfter(g, f)) <= Cardinality(GrantsAfter(Append(g, t), f))
           /\ f < t /\ t <= f + Deadline =>
                Cardinality(GrantsAfter(Append(g, t), f)) = Cardinality(GrantsAfter(g, f)) + 1
<1>. DEFINE h == Append(g, t)
            n == Len(g) + 1
<1>1. /\ Len(h) = n /\ h \in Seq(Nat) /\ h[n] = t /\ Len(g) \in Nat
      /\ \A i \in 1..Len(g) : h[i] = g[i]
  OBVIOUS
<1>. HIDE DEF h
<1>2. 1..n = (1..Len(g)) \cup {n} /\ n \notin 1..Len(g)
  BY <1>1
<1>3. GrantsAfter(g, f) \subseteq GrantsAfter(h, f)
  BY <1>1, <1>2 DEF GrantsAfter
<1>4. IsFiniteSet(GrantsAfter(g, f)) /\ IsFiniteSet(GrantsAfter(h, f))
  BY <1>1, GrantsAfterFinite
<1>5. Cardinality(GrantsAfter(g, f)) <= Cardinality(GrantsAfter(h, f))
  BY <1>3, <1>4, FS_Subset
<1>6. ASSUME f < t, t <= f + Deadline
      PROVE  Cardinality(GrantsAfter(h, f)) = Cardinality(GrantsAfter(g, f)) + 1
  <2>1. n \notin GrantsAfter(g, f)
    BY <1>2 DEF GrantsAfter
  <2>2. GrantsAfter(h, f) = GrantsAfter(g, f) \cup {n}
    <3>1. \A i \in 1..Len(g) : i \in GrantsAfter(h, f) <=> i \in GrantsAfter(g, f)
      BY <1>1, <1>2 DEF GrantsAfter
    <3>2. n \in GrantsAfter(h, f)
      BY <1>1, <1>2, <1>6 DEF GrantsAfter
    <3>3. /\ GrantsAfter(h, f) \subseteq (1..Len(g)) \cup {n}
          /\ GrantsAfter(g, f) \subseteq 1..Len(g)
      BY <1>1, <1>2 DEF GrantsAfter
    <3>. QED  BY <3>1, <3>2, <3>3
  <2>. QED  BY <2>1, <2>2, <1>4, FS_AddElement
<1>. QED  BY <1>5, <1>6 DEF h

LEMMA OthersNat == ASSUME LimiterTypeOK, NEW f \in Nat PROVE Others(f) \in Nat
<1>1. grants \in Seq(Nat)
  BY DEF LimiterTypeOK
<1>2. Others(f) = Cardinality(GrantsAfter(grants, f))
  BY DEF Others, GrantsAfter
<1>. QED  BY <1>1, <1>2, GrantsAfterFinite

\* Grants are only added, at the present time.
LEMMA GrantsGrow ==
    ASSUME [LimiterNext]_limiterVars
    PROVE  grants' = grants \/ grants' = Append(grants, now)
<1>1. ASSUME NEW c \in Caller, Allow(c)
      PROVE  grants' = grants \/ grants' = Append(grants, now)
  BY <1>1 DEF Allow, AllowUnlimited, AllowInterval, AllowToken, Passes, Refused
<1>. QED  BY <1>1, QuietSteps

\* The number of grants since f only grows.
LEMMA OthersGrow ==
    ASSUME LimiterTypeOK, [LimiterNext]_limiterVars, NEW f \in Nat
    PROVE  /\ Others(f) \in Nat /\ Others(f)' \in Nat
           /\ Others(f) <= Others(f)'
           /\ grants' = grants => Others(f)' = Others(f)
           /\ grants' = Append(grants, now) /\ f < now /\ now <= f + Deadline =>
                Others(f)' = Others(f) + 1
<1>1. grants \in Seq(Nat) /\ now \in Nat
  BY DEF LimiterTypeOK
<1>2. /\ Others(f) = Cardinality(GrantsAfter(grants, f))
      /\ Others(f)' = Cardinality(GrantsAfter(grants', f))
  BY DEF Others, GrantsAfter
<1>3. grants' \in Seq(Nat)
  BY NextTypeOK DEF LimiterTypeOK
<1>4. /\ Cardinality(GrantsAfter(grants, f)) \in Nat
      /\ Cardinality(GrantsAfter(grants', f)) \in Nat
  BY <1>1, <1>3, GrantsAfterFinite
<1>5. CASE grants' = grants
  <2>1. Append(grants, now) # grants
    <3>1. Len(Append(grants, now)) = Len(grants) + 1 /\ Len(grants) \in Nat
      BY <1>1
    <3>. QED  BY <3>1
  <2>. QED  BY <1>2, <1>4, <1>5, <2>1
<1>6. CASE grants' = Append(grants, now)
  <2>1. /\ Cardinality(GrantsAfter(grants, f)) <= Cardinality(GrantsAfter(grants', f))
        /\ f < now /\ now <= f + Deadline =>
             Cardinality(GrantsAfter(grants', f)) = Cardinality(GrantsAfter(grants, f)) + 1
    BY <1>1, <1>6, GrantsAfterAppend
  <2>2. grants' # grants
    <3>1. Len(Append(grants, now)) = Len(grants) + 1 /\ Len(grants) \in Nat
      BY <1>1
    <3>. QED  BY <3>1, <1>6
  <2>. QED  BY <1>2, <1>4, <2>1, <2>2
<1>. QED  BY <1>5, <1>6, GrantsGrow

\* The limits stay, and the time callers are held up only adds up.
LEMMA Constant ==
    ASSUME LimiterTypeOK, [LimiterNext]_limiterVars
    PROVE  /\ bucket' = bucket
           /\ heldUp \in Nat /\ heldUp' \in Nat /\ heldUp <= heldUp'
<1>1. heldUp \in Nat /\ heldUp' \in Nat
  BY NextTypeOK DEF LimiterTypeOK
<1>2. ASSUME NEW c \in Caller, Allow(c) PROVE bucket' = bucket /\ heldUp' = heldUp
  BY <1>2 DEF Allow, AllowUnlimited, AllowInterval, AllowToken, limiter
<1>3. CASE \A c \in Caller : ~Allow(c)
  <2>1. bucket' = bucket
    BY <1>3, QuietSteps DEF limiter
  <2>2. heldUp' = heldUp \/ heldUp' = heldUp + 1
    BY <1>3 DEF LimiterNext, CallerStep, Call, Measure, WakeUp, GiveUp, ToNextTimer,
                ForAWhile, HeldUp, limiterVars
  <2>. QED  BY <1>1, <2>1, <2>2
<1>. QED  BY <1>1, <1>2, <1>3

\* A limiter that was busy for the call begun at f stays so.
LEMMA BusyStays ==
    ASSUME LimiterTypeOK, [LimiterNext]_limiterVars, NEW f \in Nat, Busy(f)
    PROVE  Busy(f)'
<1>1. /\ bucket' = bucket /\ heldUp \in Nat /\ heldUp' \in Nat /\ heldUp <= heldUp'
      /\ bucket.interval \in Nat /\ bucket.rate \in Nat
  BY Constant, TypeFacts
<1>2. PICK n \in Nat : n = Others(f)
  BY OthersGrow
<1>3. PICK m \in Nat : m = Others(f)'
  BY OthersGrow
<1>4. n <= m
  BY <1>2, <1>3, OthersGrow
<1>5. CASE bucket.interval > 0
  <2>1. (n + 1) * bucket.interval + heldUp >= Deadline
    BY <1>2, <1>5 DEF Busy
  <2>2. /\ bucket.interval * (n + 1) <= bucket.interval * (m + 1)
        /\ bucket.interval * (n + 1) \in Int /\ bucket.interval * (m + 1) \in Int
    BY <1>1, <1>4, MulMono
  <2>3. /\ (n + 1) * bucket.interval = bucket.interval * (n + 1)
        /\ (m + 1) * bucket.interval = bucket.interval * (m + 1)
    BY <1>1
  <2>4. (m + 1) * bucket.interval + heldUp' >= Deadline
    BY <1>1, <2>1, <2>2, <2>3
  <2>. QED  BY <1>1, <1>3, <1>5, <2>4 DEF Busy
<1>6. CASE ~(bucket.interval > 0)
  <2>1. (n + 1) * One > bucket.rate * (Deadline - 1 - heldUp)
    BY <1>2, <1>6 DEF Busy
  <2>2. (m + 1) * One > bucket.rate * (Deadline - 1 - heldUp')
    <3>1. /\ Deadline - 1 - heldUp \in Int
          /\ Deadline - 1 - heldUp' \in Int
          /\ Deadline - 1 - heldUp' <= Deadline - 1 - heldUp
      <4>1. \A x, y \in Nat : x <= y => /\ Deadline - 1 - x \in Int
                                      /\ Deadline - 1 - y <= Deadline - 1 - x
        OBVIOUS
      <4>2. heldUp \in Nat /\ heldUp' \in Nat /\ heldUp <= heldUp'
        BY <1>1
      <4>. HIDE DEF Deadline
      <4>. QED  BY <4>1, <4>2
    <3>2. /\ (n + 1) * One \in Int /\ (m + 1) * One \in Int
          /\ (n + 1) * One <= (m + 1) * One
      BY <1>4
    <3>. HIDE DEF One, Deadline
    <3>. QED  BY <1>1, <2>1, <3>1, <3>2, PaysForLess
  <2>. QED  BY <1>1, <1>3, <1>6, <2>2 DEF Busy
<1>. QED  BY <1>5, <1>6

\* A slow limiter is always busy; any other has a rate and room for two.
LEMMA SlowIsBusy ==
    ASSUME LimiterTypeOK, Sized, NEW f \in Nat, ~Busy(f), bucket.interval = 0
    PROVE  bucket.rate > 0 /\ bucket.rate <= One /\ bucket.burst >= 2
<1>1. bucket.rate \in Nat /\ heldUp \in Nat /\ bucket.interval \in Nat
  BY TypeFacts DEF LimiterTypeOK
<1>2. PICK n \in Nat : n = Others(f)
  BY OthersNat
<1>3. (n + 1) * One <= bucket.rate * (Deadline - 1 - heldUp)
  <2>1. ~((n + 1) * One > bucket.rate * (Deadline - 1 - heldUp))
    BY <1>1, <1>2 DEF Busy
  <2>2. bucket.rate * (Deadline - 1 - heldUp) \in Int
    BY <1>1, MulMono
  <2>. QED  BY <1>1, <2>1, <2>2
<1>4. bucket.rate * (Deadline - 1 - heldUp) <= bucket.rate * (Deadline - 1)
  BY <1>1, MulMono
<1>5. bucket.rate * (Deadline - 1) \in Nat
      /\ bucket.rate * (Deadline - 1 - heldUp) \in Int
  BY <1>1, MulMono
<1>6. bucket.rate * (Deadline - 1) >= One
  BY <1>3, <1>4, <1>5
<1>. QED  BY <1>1, <1>6 DEF Sized, Slow
-----------------------------------------------------------------------------
(* A waiting call stays on time. *)

LEMMA MoreIntervals ==
    ASSUME NEW i \in Nat, NEW n \in Nat, NEW m \in Nat, n <= m
    PROVE  /\ n * i \in Nat /\ m * i \in Nat /\ n * i <= m * i
           /\ (n + 1) * i \in Nat /\ (n + 1) * i = n * i + i
<1>1. i * n <= i * m
  BY MulMono
<1>2. n * i = i * n /\ m * i = i * m
  OBVIOUS
<1>3. n * i \in Nat /\ m * i \in Nat
  OBVIOUS
<1>4. (n + 1) * i = n * i + i
  OBVIOUS
<1>. QED  BY <1>1, <1>2, <1>3, <1>4

\* What a call that relies on the tokens can count on after a refill.
LEMMA RefillPays ==
    ASSUME LimiterTypeOK, NEW f \in Nat, KeepsPace(f), bucket.interval = 0,
           bucket.rate <= One, bucket.burst >= 2
    PROVE  Others(f) * One + Refilled >= bucket.rate * (now - f - heldUp)
<1>1. /\ bucket.rate \in Nat /\ bucket.burst \in Nat /\ now \in Nat
      /\ lastRefill \in Nat /\ lastRefill <= now /\ tokens \in Nat /\ heldUp \in Nat
  BY TypeFacts DEF LimiterTypeOK
<1>2. PICK n \in Nat : n = Others(f)
  BY OthersNat
<1>. DEFINE x == bucket.rate * (lastRefill - f - heldUp)
            y == bucket.rate * (now - lastRefill)
            z == bucket.rate * (now - f - heldUp)
            u == bucket.rate * (now - 1 - f - heldUp)
            B == bucket.burst * One
<1>3. n * One + tokens >= x /\ (n + 1) * One > u
  BY <1>2 DEF KeepsPace
<1>4. x \in Int /\ y \in Int /\ x + y = z
  <2>1. /\ lastRefill - f - heldUp \in Int /\ now - lastRefill \in Int
        /\ (lastRefill - f - heldUp) + (now - lastRefill) = now - f - heldUp
    BY <1>1
  <2>. QED  BY <1>1, <2>1, Distributes
<1>5. u \in Int /\ u + bucket.rate = z
  <2>1. /\ now - 1 - f - heldUp \in Int
        /\ (now - 1 - f - heldUp) + 1 = now - f - heldUp
    BY <1>1
  <2>2. bucket.rate * 1 = bucket.rate
    BY <1>1
  <2>. QED  BY <1>1, <2>1, <2>2, Distributes
<1>6. Refilled = IF tokens + y > B THEN B ELSE tokens + y
  BY <1>1 DEF Refilled
<1>7. B >= 2 * One /\ B \in Nat
  BY <1>1
<1>. HIDE DEF x, y, z, u, B
<1>8. n * One + Refilled >= z
  BY <1>1, <1>3, <1>4, <1>5, <1>6, <1>7
<1>. QED  BY <1>2, <1>8 DEF z

\* Allow leaves every other caller where it is, and the one that it refuses
\* waits on.
LEMMA AllowCallers ==
    ASSUME LimiterTypeOK, NEW d \in Caller, Allow(d), NEW c \in Caller, caller'[c] # "idle"
    PROVE  /\ caller[c] # "idle" /\ start' = start /\ wake' = wake
           /\ now' = now /\ heldUp' = heldUp /\ bucket' = bucket
           /\ \/ c # d /\ caller'[c] = caller[c]
              \/ c = d /\ Refused(d) /\ caller'[c] = "measure"
<1>1. Passes(d) \/ Refused(d)
  BY DEF Allow, AllowUnlimited, AllowInterval, AllowToken
<1>2. bucket' = bucket
  BY DEF Allow, AllowUnlimited, AllowInterval, AllowToken, limiter
<1>3. caller \in [Caller -> {"idle", "try", "measure", "sleep"}] /\ caller[d] = "try"
  BY TypeFacts DEF Allow
<1>4. CASE Passes(d)
  BY <1>2, <1>3, <1>4 DEF Passes, Allow
<1>5. CASE Refused(d)
  BY <1>2, <1>3, <1>5 DEF Refused, Allow
<1>. QED  BY <1>1, <1>4, <1>5

LEMMA AllowIntervalOnTime ==
    ASSUME LimiterTypeOK, NEW d \in Caller, Allow(d), bucket.interval > 0,
           NEW c \in Caller, NEW f \in Nat, caller'[c] # "idle", OnTime(c, f)
    PROVE  OnTime(c, f)'
<1>1. /\ now \in Nat /\ heldUp \in Nat /\ bucket.interval \in Nat
      /\ lastOp \subseteq Nat
  BY TypeFacts DEF LimiterTypeOK
<1>2. [LimiterNext]_limiterVars
  BY DEF LimiterNext, CallerStep
<1>3. PICK n \in Nat : n = Others(f)
  BY <1>2, OthersGrow
<1>4. PICK m \in Nat : m = Others(f)'
  BY <1>2, OthersGrow
<1>5. PICK i \in Nat : i = bucket.interval
  BY <1>1
<1>6. PICK h \in Nat : h = heldUp
  BY <1>1
<1>7. PICK t \in Nat : t = now
  BY <1>1
<1>8. n <= m
  BY <1>2, <1>3, <1>4, OthersGrow
<1>9. AllowInterval(d)
  BY <1>1 DEF Allow, AllowUnlimited, AllowToken, IsDisabled
<1>10. /\ start' = start /\ wake' = wake /\ now' = now /\ heldUp' = heldUp
       /\ bucket' = bucket
       /\ caller'[c] = "sleep" => caller[c] = "sleep"
  BY AllowCallers
<1>11. /\ f <= t /\ t <= f + Deadline /\ t <= f + (n + 1) * i + h
       /\ \A s \in lastOp : s <= f + n * i + h
  BY <1>3, <1>5, <1>6, <1>7 DEF OnTime, KeepsPace
<1>12. /\ n * i \in Nat /\ m * i \in Nat /\ n * i <= m * i
       /\ (n + 1) * i \in Nat /\ (n + 1) * i = n * i + i
       /\ (m + 1) * i \in Nat /\ (m + 1) * i = m * i + i
  BY <1>8, MoreIntervals
<1>13. ASSUME NEW s \in lastOp' PROVE s <= f + m * i + h
  <2>1. CASE lastOp' = lastOp
    <3>1. s \in Nat /\ s <= f + n * i + h
      BY <1>1, <1>11, <1>13, <2>1
    <3>. QED  BY <1>12, <3>1
  <2>2. CASE lastOp' = {now} /\ Passes(d)
    <3>1. s = t
      BY <1>7, <1>13, <2>2
    <3>2. CASE f < t
      <4>1. m = n + 1
        BY <1>2, <1>3, <1>4, <1>7, <1>11, <2>2, <3>2, OthersGrow DEF Passes
      <4>. QED  BY <1>11, <3>1, <4>1
    <3>3. CASE f = t
      BY <1>12, <3>1, <3>3
    <3>. QED  BY <1>11, <3>2, <3>3
  <2>. QED  BY <1>9, <2>1, <2>2 DEF AllowInterval
<1>14. t <= f + (m + 1) * i + h
  BY <1>11, <1>12
<1>15. KeepsPace(f)'
  BY <1>4, <1>5, <1>6, <1>7, <1>10, <1>11, <1>13, <1>14 DEF KeepsPace
<1>16. caller'[c] = "measure" => Measures(f)'
  BY <1>10 DEF Measures
<1>17. ASSUME caller'[c] = "sleep" PROVE Sleeps(wake[c], f)'
  <2>1. PICK w \in Nat : w = wake[c]
    BY TypeFacts
  <2>2. t <= w /\ w <= f + (n + 1) * i + h
    BY <1>3, <1>5, <1>6, <1>7, <1>10, <1>17, <2>1 DEF OnTime, Sleeps
  <2>3. w <= f + (m + 1) * i + h
    BY <1>12, <2>2
  <2>. QED  BY <1>4, <1>5, <1>6, <1>7, <1>10, <2>1, <2>2, <2>3 DEF Sleeps
<1>. QED  BY <1>15, <1>16, <1>17 DEF OnTime

LEMMA AllowTokenOnTime ==
    ASSUME LimiterTypeOK, Sized, NEW d \in Caller, Allow(d), bucket.interval = 0,
           NEW c \in Caller, NEW f \in Nat, caller'[c] # "idle",
           ~Busy(f), OnTime(c, f)
    PROVE  OnTime(c, f)'
<1>1. /\ now \in Nat /\ heldUp \in Nat /\ bucket.rate \in Nat
      /\ bucket.interval \in Nat /\ lastRefill \in Nat /\ tokens \in Nat
  BY TypeFacts DEF LimiterTypeOK
<1>2. [LimiterNext]_limiterVars
  BY DEF LimiterNext, CallerStep
<1>3. PICK n \in Nat : n = Others(f)
  BY <1>2, OthersGrow
<1>4. PICK m \in Nat : m = Others(f)'
  BY <1>2, OthersGrow
<1>5. n <= m
  BY <1>2, <1>3, <1>4, OthersGrow
<1>6. bucket.rate > 0 /\ bucket.rate <= One /\ bucket.burst >= 2
  BY SlowIsBusy
<1>7. AllowToken(d)
  BY <1>1, <1>6 DEF Allow, AllowUnlimited, AllowInterval, IsDisabled
<1>8. /\ start' = start /\ wake' = wake /\ now' = now /\ heldUp' = heldUp
      /\ bucket' = bucket /\ lastRefill' = now
      /\ caller'[c] = "sleep" => caller[c] = "sleep"
      /\ caller'[c] = "measure" => caller[c] = "measure" \/ Refused(d)
  BY <1>7, AllowCallers DEF AllowToken
<1>9. f <= now /\ now <= f + Deadline /\ KeepsPace(f)
  BY DEF OnTime, KeepsPace
<1>. DEFINE z == bucket.rate * (now - f - heldUp)
            u == bucket.rate * (now - 1 - f - heldUp)
<1>10. z \in Int /\ u \in Int
  BY <1>1, MulMono
<1>11. (n + 1) * One > u
  BY <1>3 DEF OnTime, KeepsPace
<1>12. PICK q \in Nat : q = Refilled
  BY RefilledRange
<1>13. n * One + q >= z
  BY <1>3, <1>6, <1>9, <1>12, RefillPays
<1>14. f = now => z <= 0
  <2>1. f = now => now - f - heldUp <= 0 /\ now - f - heldUp \in Int
    BY <1>1
  <2>. QED  BY <1>1, <2>1, PaysForNothing
<1>15. PICK k \in Nat : k = tokens'
  BY <1>2, NextTypeOK DEF LimiterTypeOK
<1>16. \/ q >= One /\ k = q - One /\ Passes(d)
       \/ q < One /\ k = q /\ Refused(d)
  BY <1>7, <1>12, <1>15 DEF AllowToken
<1>17. f < now /\ Passes(d) => m = n + 1
  BY <1>2, <1>3, <1>4, <1>9, OthersGrow DEF Passes
<1>18. caller[c] = "measure" => (n + 1) * One > z
  BY <1>3 DEF OnTime, Measures
<1>. HIDE DEF z, u
<1>19. m * One + k >= z
  <2>1. CASE f < now /\ Passes(d) /\ k = q - One
    BY <1>10, <1>13, <1>17, <2>1
  <2>2. CASE f = now
    BY <1>10, <1>14, <2>2
  <2>3. CASE k = q
    BY <1>5, <1>10, <1>13, <2>3
  <2>. QED  BY <1>1, <1>9, <1>16, <2>1, <2>2, <2>3
<1>20. (m + 1) * One > u
  BY <1>5, <1>10, <1>11
<1>21. caller'[c] = "measure" => (m + 1) * One > z
  <2>1. CASE caller[c] = "measure"
    BY <1>5, <1>10, <1>18, <2>1
  <2>2. CASE Refused(d) /\ k = q /\ q < One
    BY <1>5, <1>10, <1>13, <2>2
  <2>3. ~(Passes(d) /\ Refused(d))
    <3>1. caller \in [Caller -> {"idle", "try", "measure", "sleep"}]
      BY TypeFacts
    <3>. QED  BY <3>1 DEF Passes, Refused
  <2>. QED  BY <1>8, <1>16, <2>1, <2>2, <2>3
<1>22. KeepsPace(f)'
  BY <1>4, <1>8, <1>9, <1>15, <1>19, <1>20, <1>1 DEF KeepsPace, z, u
<1>23. caller'[c] = "measure" => Measures(f)'
  BY <1>4, <1>8, <1>15, <1>19, <1>21 DEF Measures, z
<1>24. ASSUME caller'[c] = "sleep" PROVE Sleeps(wake[c], f)'
  <2>1. PICK w \in Nat : w = wake[c]
    BY TypeFacts
  <2>. DEFINE v == bucket.rate * (w - 1 - f - heldUp)
  <2>2. now <= w /\ (n + 1) * One > v
    BY <1>3, <1>8, <1>24, <2>1 DEF OnTime, Sleeps
  <2>3. v \in Int
    BY <1>1, MulMono
  <2>. HIDE DEF v
  <2>4. (m + 1) * One > v
    BY <1>5, <2>2, <2>3
  <2>. QED  BY <1>1, <1>4, <1>8, <2>1, <2>2, <2>4 DEF Sleeps, v
<1>. QED  BY <1>22, <1>23, <1>24 DEF OnTime

\* How long a refused caller waits.
LEMMA WaitTimeRange ==
    ASSUME LimiterTypeOK
    PROVE  /\ bucket.interval > 0 /\ WaitTime > 0 =>
                \E t \in lastOp : t \in Nat /\ WaitTime = bucket.interval - (now - t)
           /\ bucket.interval = 0 /\ bucket.rate > 0 /\ WaitTime > 0 =>
                /\ WaitTime \in Nat /\ tokens < One
                /\ bucket.rate * (WaitTime - 1) < One - tokens
<1>1. /\ bucket.interval \in Nat /\ bucket.rate \in Nat
      /\ now \in Nat /\ tokens \in Nat /\ lastOp \subseteq Nat
  BY TypeFacts
<1>2. ASSUME bucket.interval > 0, WaitTime > 0
      PROVE  \E t \in lastOp : t \in Nat /\ WaitTime = bucket.interval - (now - t)
  <2>1. TooSoon
    BY <1>2 DEF WaitTime
  <2>2. (CHOOSE t \in lastOp : TRUE) \in lastOp
    BY <2>1 DEF TooSoon
  <2>. DEFINE last == CHOOSE t \in lastOp : TRUE
  <2>3. WaitTime = bucket.interval - (now - last)
    BY <1>2, <2>1 DEF WaitTime
  <2>4. last \in lastOp /\ last \in Nat
    BY <1>1, <2>2
  <2>. HIDE DEF last
  <2>. QED  BY <2>3, <2>4
<1>3. ASSUME bucket.interval = 0, bucket.rate > 0, WaitTime > 0
      PROVE  /\ WaitTime \in Nat /\ tokens < One
             /\ bucket.rate * (WaitTime - 1) < One - tokens
  <2>1. PICK r \in Nat : r = bucket.rate /\ r > 0
    BY <1>1, <1>3
  <2>2. ~(bucket.interval > 0) /\ ~(bucket.rate = 0)
    BY <1>3
  <2>3. tokens < One
    BY <1>1, <1>3, <2>2 DEF WaitTime
  <2>4. PICK s \in Nat : s = One - tokens
    BY <1>1, <2>3
  <2>5. PICK w \in Nat : w = (s + r - 1) \div r
    BY <2>1
  <2>6. WaitTime = w
    BY <1>1, <2>1, <2>2, <2>3, <2>4, <2>5 DEF WaitTime
  <2>7. r * w <= s + r - 1
    BY <2>1, <2>4, <2>5
  <2>8. r * w \in Int /\ r * (w - 1) + r = r * w /\ r * (w - 1) \in Int
    <3>1. w - 1 \in Int /\ (w - 1) + 1 = w /\ r * 1 = r
      OBVIOUS
    <3>. QED  BY <3>1, Distributes
  <2>9. r * (w - 1) < s
    BY <2>7, <2>8
  <2>. QED  BY <2>1, <2>3, <2>4, <2>6, <2>9
<1>. QED  BY <1>2, <1>3

LEMMA MeasureCallers ==
    ASSUME LimiterTypeOK, NEW d \in Caller, Measure(d), NEW c \in Caller
    PROVE  /\ caller[d] = "measure"
           /\ \/ caller'[c] = caller[c] /\ wake'[c] = wake[c]
              \/ c = d /\ caller'[c] = "try"
              \/ /\ c = d /\ caller'[c] = "sleep" /\ WaitTime > 0
                 /\ wake'[c] = now + WaitTime
BY TypeFacts DEF Measure

LEMMA MeasureOnTime ==
    ASSUME LimiterTypeOK, Sized, NEW d \in Caller, Measure(d),
           NEW c \in Caller, NEW f \in Nat, ~Busy(f), OnTime(c, f)
    PROVE  OnTime(c, f)'
<1>1. /\ now \in Nat /\ heldUp \in Nat /\ bucket.rate \in Nat
      /\ bucket.interval \in Nat /\ lastRefill \in Nat /\ tokens \in Nat
  BY TypeFacts DEF LimiterTypeOK
<1>2. /\ bucket' = bucket /\ tokens' = tokens /\ lastRefill' = lastRefill
      /\ lastOp' = lastOp /\ now' = now /\ heldUp' = heldUp /\ grants' = grants
  BY DEF Measure, limiter
<1>3. Others(f)' = Others(f)
  BY <1>2 DEF Others
<1>4. KeepsPace(f)'
  BY <1>2, <1>3 DEF OnTime, KeepsPace
<1>5. CASE caller'[c] = caller[c] /\ wake'[c] = wake[c]
  <2>1. Measures(f) => Measures(f)'
    BY <1>2, <1>3 DEF Measures
  <2>2. Sleeps(wake[c], f) => Sleeps(wake[c], f)'
    BY <1>2, <1>3, <1>5 DEF Sleeps
  <2>. QED  BY <1>4, <1>5, <2>1, <2>2 DEF OnTime
<1>6. CASE c = d /\ caller'[c] = "try"
  BY <1>4, <1>6 DEF OnTime
<1>7. CASE /\ c = d /\ caller'[c] = "sleep" /\ WaitTime > 0
           /\ wake'[c] = now + WaitTime
  <2>1. KeepsPace(f) /\ Measures(f)
    BY <1>7, MeasureCallers DEF OnTime
  <2>2. PICK n \in Nat : n = Others(f)
    BY OthersNat
  <2>3. PICK h \in Nat : h = heldUp
    BY <1>1
  <2>4. PICK t \in Nat : t = now
    BY <1>1
  <2>5. CASE bucket.interval > 0
    <3>1. PICK i \in Nat : i = bucket.interval
      BY <1>1
    <3>2. PICK s \in lastOp : s \in Nat /\ WaitTime = i - (t - s)
      BY <1>7, <2>4, <2>5, <3>1, WaitTimeRange
    <3>3. s <= f + n * i + h
      BY <2>1, <2>2, <2>3, <2>5, <3>1, <3>2 DEF KeepsPace
    <3>4. (n + 1) * i = n * i + i /\ n * i \in Nat
      BY MoreIntervals
    <3>5. PICK w \in Int : w = wake'[c] /\ w = s + i /\ w >= t
      BY <1>7, <2>4, <3>2
    <3>6. w <= f + (n + 1) * i + h
      BY <3>3, <3>4, <3>5, <3>2
    <3>7. Sleeps(wake[c], f)'
      BY <1>2, <1>3, <2>2, <2>3, <2>4, <2>5, <3>1, <3>5, <3>6 DEF Sleeps
    <3>. QED  BY <1>4, <1>7, <3>7 DEF OnTime
  <2>6. CASE bucket.interval = 0
    <3>1. bucket.rate > 0
      BY <2>6, SlowIsBusy
    <3>2. PICK v \in Nat : v = WaitTime /\ v > 0 /\ bucket.rate * (v - 1) < One - tokens
      BY <1>7, <2>6, <3>1, WaitTimeRange
    <3>. DEFINE z == bucket.rate * (t - f - h)
                p == bucket.rate * (v - 1)
                x == bucket.rate * (t + v - 1 - f - h)
    <3>3. z \in Int /\ p \in Int /\ z + p = x
      <4>1. /\ t - f - h \in Int /\ v - 1 \in Int
            /\ (t - f - h) + (v - 1) = t + v - 1 - f - h
        OBVIOUS
      <4>. QED  BY <1>1, <4>1, Distributes
    <3>4. n * One + tokens >= z
      BY <2>1, <2>2, <2>3, <2>4, <2>6 DEF Measures
    <3>5. p < One - tokens
      BY <3>2
    <3>. HIDE DEF z, p, x
    <3>6. (n + 1) * One > x
      BY <1>1, <3>3, <3>4, <3>5
    <3>7. wake'[c] = t + v /\ t <= t + v
      BY <1>7, <2>4, <3>2
    <3>8. Sleeps(wake[c], f)'
      BY <1>2, <1>3, <2>2, <2>3, <2>4, <2>6, <3>6, <3>7 DEF Sleeps, x
    <3>. QED  BY <1>4, <1>7, <3>8 DEF OnTime
  <2>. QED  BY <1>1, <2>5, <2>6
<1>. QED  BY <1>5, <1>6, <1>7, MeasureCallers

\* While everybody rests time passes to the next timer or deadline at most.
LEMMA RestingTickOnTime ==
    ASSUME LimiterTypeOK, NEW t \in Nat, Tick(t), Resting, heldUp' = heldUp,
           NEW c \in Caller, NEW f \in Nat,
           caller[c] # "idle", start[c] = f, OnTime(c, f)
    PROVE  OnTime(c, f)'
<1>1. /\ now \in Nat /\ heldUp \in Nat /\ bucket.rate \in Nat
      /\ bucket.interval \in Nat /\ lastRefill \in Nat /\ tokens \in Nat
  BY TypeFacts DEF LimiterTypeOK
<1>2. /\ bucket' = bucket /\ tokens' = tokens /\ lastRefill' = lastRefill
      /\ lastOp' = lastOp /\ now' = t /\ heldUp' = heldUp /\ grants' = grants
      /\ caller' = caller /\ wake' = wake /\ now < t
  BY DEF Tick, limiter
<1>3. Others(f)' = Others(f)
  BY <1>2 DEF Others
<1>4. caller[c] = "sleep"
  BY DEF Resting
<1>5. PICK w \in Nat : w = wake[c]
  BY TypeFacts
<1>6. t <= w /\ t <= f + Deadline
  <2>1. t <= TimeUp(c)
    BY <1>4 DEF Tick, Asleep
  <2>. QED  BY <1>5, <2>1 DEF TimeUp
<1>7. KeepsPace(f) /\ Sleeps(w, f)
  BY <1>4, <1>5 DEF OnTime
<1>8. PICK n \in Nat : n = Others(f)
  BY OthersNat
<1>9. PICK h \in Nat : h = heldUp
  BY <1>1
<1>10. f <= t
  BY <1>1, <1>2, <1>7 DEF KeepsPace
<1>11. ASSUME bucket.interval > 0
       PROVE  t <= f + (n + 1) * bucket.interval + h
  <2>1. PICK i \in Nat : i = bucket.interval
    BY <1>1
  <2>2. w <= f + (n + 1) * i + h /\ (n + 1) * i \in Nat
    BY <1>7, <1>8, <1>9, <1>11, <2>1, MoreIntervals DEF Sleeps
  <2>. QED  BY <1>6, <2>1, <2>2
<1>12. ASSUME bucket.interval = 0
       PROVE  (n + 1) * One > bucket.rate * (t - 1 - f - h)
  <2>1. (n + 1) * One > bucket.rate * (w - 1 - f - h)
    BY <1>7, <1>8, <1>9, <1>12 DEF Sleeps
  <2>2. /\ t - 1 - f - h \in Int /\ w - 1 - f - h \in Int
        /\ t - 1 - f - h <= w - 1 - f - h /\ (n + 1) * One \in Int
    BY <1>6
  <2>. HIDE DEF One
  <2>. QED  BY <1>1, <2>1, <2>2, PaysForLess
<1>13. KeepsPace(f)'
  BY <1>2, <1>3, <1>6, <1>7, <1>8, <1>9, <1>10, <1>11, <1>12 DEF KeepsPace
<1>14. Sleeps(wake[c], f)'
  BY <1>2, <1>3, <1>5, <1>6, <1>7 DEF Sleeps
<1>. QED  BY <1>2, <1>4, <1>13, <1>14 DEF OnTime

\* A tick for which callers are held up counts neither way; it may be the one
\* after the deadline of a caller that is held up, which finds it busy.
LEMMA HeldUpOnTime ==
    ASSUME LimiterTypeOK, Sized, Tick(now + 1), heldUp' = heldUp + 1,
           NEW c \in Caller, NEW f \in Nat,
           caller[c] # "idle", start[c] = f, ~Busy(f), OnTime(c, f)
    PROVE  Busy(f)' \/ OnTime(c, f)'
<1>1. /\ now \in Nat /\ heldUp \in Nat /\ bucket.rate \in Nat
      /\ bucket.interval \in Nat /\ lastRefill \in Nat /\ tokens \in Nat
  BY TypeFacts DEF LimiterTypeOK
<1>2. /\ bucket' = bucket /\ tokens' = tokens /\ lastRefill' = lastRefill
      /\ lastOp' = lastOp /\ now' = now + 1 /\ heldUp' = heldUp + 1
      /\ grants' = grants /\ caller' = caller /\ wake' = wake
  BY DEF Tick, limiter
<1>3. Others(f)' = Others(f)
  BY <1>2 DEF Others
<1>4. PICK n \in Nat : n = Others(f)
  BY OthersNat
<1>5. PICK h \in Nat : h = heldUp
  BY <1>1
<1>6. PICK t \in Nat : t = now
  BY <1>1
<1>7. caller[c] \in {"measure", "sleep"}
  BY TypeFacts DEF Tick
<1>8. f <= t /\ t <= f + Deadline /\ KeepsPace(f)
  BY <1>6 DEF OnTime, KeepsPace
<1>9. CASE t + 1 <= f + Deadline
  <2>1. KeepsPace(f)'
    <3>1. CASE bucket.interval > 0
      <4>1. PICK i \in Nat : i = bucket.interval
        BY <1>1
      <4>2. /\ n * i \in Nat /\ (n + 1) * i \in Nat
            /\ t <= f + (n + 1) * i + h
            /\ \A s \in lastOp : s \in Nat /\ s <= f + n * i + h
        <5>1. /\ t <= f + (n + 1) * i + h
              /\ \A s \in lastOp : s <= f + n * i + h
          BY <1>4, <1>5, <1>6, <1>8, <3>1, <4>1 DEF KeepsPace
        <5>2. lastOp \subseteq Nat
          BY TypeFacts
        <5>3. n * i \in Nat /\ (n + 1) * i \in Nat
          BY MoreIntervals
        <5>. QED  BY <5>1, <5>2, <5>3
      <4>3. /\ t + 1 <= f + (n + 1) * i + (h + 1)
            /\ \A s \in lastOp : s <= f + n * i + (h + 1)
        BY <4>2
      <4>. QED  BY <1>2, <1>3, <1>4, <1>5, <1>6, <1>8, <1>9, <3>1, <4>1, <4>3 DEF KeepsPace
    <3>2. CASE bucket.interval = 0
      <4>1. /\ n * One + tokens >= bucket.rate * (lastRefill - f - h)
            /\ (n + 1) * One > bucket.rate * (t - 1 - f - h)
        BY <1>4, <1>5, <1>6, <1>8, <3>2 DEF KeepsPace
      <4>2. n * One + tokens >= bucket.rate * (lastRefill - f - (h + 1))
        <5>1. /\ lastRefill - f - (h + 1) \in Int /\ lastRefill - f - h \in Int
              /\ lastRefill - f - (h + 1) <= lastRefill - f - h
              /\ n * One + tokens \in Int
          BY <1>1
        <5>. HIDE DEF One
        <5>. QED  BY <1>1, <4>1, <5>1, PaysForLess
      <4>3. (n + 1) * One > bucket.rate * (t + 1 - 1 - f - (h + 1))
        <5>1. t + 1 - 1 - f - (h + 1) = t - 1 - f - h
          OBVIOUS
        <5>. QED  BY <4>1, <5>1
      <4>. QED  BY <1>2, <1>3, <1>4, <1>5, <1>6, <1>8, <1>9, <3>2, <4>2, <4>3 DEF KeepsPace
    <3>. QED  BY <1>1, <3>1, <3>2
  <2>2. ASSUME Measures(f) PROVE Measures(f)'
    <3>1. CASE bucket.interval = 0
      <4>1. /\ n * One + tokens >= bucket.rate * (t - f - h)
            /\ (n + 1) * One > bucket.rate * (t - f - h)
        BY <1>4, <1>5, <1>6, <2>2, <3>1 DEF Measures
      <4>2. t + 1 - f - (h + 1) = t - f - h
        OBVIOUS
      <4>3. /\ n * One + tokens >= bucket.rate * (t + 1 - f - (h + 1))
            /\ (n + 1) * One > bucket.rate * (t + 1 - f - (h + 1))
        BY <4>1, <4>2
      <4>. QED  BY <1>2, <1>3, <1>4, <1>5, <1>6, <4>3 DEF Measures
    <3>. QED  BY <1>2, <3>1 DEF Measures
  <2>3. ASSUME caller[c] = "sleep", Sleeps(wake[c], f) PROVE Sleeps(wake[c], f)'
    <3>1. PICK w \in Nat : w = wake[c]
      BY TypeFacts
    <3>2. t + 1 <= w
      <4>1. t + 1 <= TimeUp(c)
        BY <1>6, <2>3 DEF Tick, Asleep
      <4>. QED  BY <3>1, <4>1 DEF TimeUp
    <3>3. ASSUME bucket.interval > 0
          PROVE  w <= f + (n + 1) * bucket.interval + (h + 1)
      <4>1. PICK i \in Nat : i = bucket.interval
        BY <1>1
      <4>2. w <= f + (n + 1) * i + h /\ (n + 1) * i \in Nat
        BY <1>4, <1>5, <2>3, <3>1, <3>3, <4>1, MoreIntervals DEF Sleeps
      <4>. QED  BY <4>1, <4>2
    <3>4. ASSUME bucket.interval = 0
          PROVE  (n + 1) * One > bucket.rate * (w - 1 - f - (h + 1))
      <4>1. (n + 1) * One > bucket.rate * (w - 1 - f - h)
        BY <1>4, <1>5, <2>3, <3>1, <3>4 DEF Sleeps
      <4>2. /\ w - 1 - f - (h + 1) \in Int /\ w - 1 - f - h \in Int
            /\ w - 1 - f - (h + 1) <= w - 1 - f - h /\ (n + 1) * One \in Int
        OBVIOUS
      <4>. HIDE DEF One
      <4>. QED  BY <1>1, <4>1, <4>2, PaysForLess
    <3>. QED  BY <1>2, <1>3, <1>4, <1>5, <1>6, <3>1, <3>2, <3>3, <3>4 DEF Sleeps
  <2>. QED  BY <1>2, <2>1, <2>2, <2>3 DEF OnTime
<1>10. CASE t = f + Deadline
  <2>1. caller[c] = "measure"
    <3>1. SUFFICES ASSUME caller[c] = "sleep" PROVE FALSE
      BY <1>7
    <3>2. t + 1 <= TimeUp(c) /\ wake[c] \in Nat
      BY <1>6, <3>1, TypeFacts DEF Tick, Asleep
    <3>. QED  BY <1>10, <3>2 DEF TimeUp
  <2>2. CASE bucket.interval > 0
    <3>1. PICK i \in Nat : i = bucket.interval
      BY <1>1
    <3>2. t <= f + (n + 1) * i + h /\ (n + 1) * i \in Nat
      BY <1>4, <1>5, <1>6, <1>8, <2>2, <3>1, MoreIntervals DEF KeepsPace
    <3>3. (n + 1) * i + (h + 1) >= Deadline
      BY <1>10, <3>2
    <3>. QED  BY <1>2, <1>3, <1>4, <1>5, <2>2, <3>1, <3>3 DEF Busy
  <2>3. CASE ~(bucket.interval > 0)
    <3>1. (n + 1) * One > bucket.rate * (t - f - h)
      BY <1>1, <1>4, <1>5, <1>6, <2>1, <2>3 DEF OnTime, Measures
    <3>2. /\ Deadline - 1 - (h + 1) \in Int /\ t - f - h \in Int
          /\ Deadline - 1 - (h + 1) <= t - f - h /\ (n + 1) * One \in Int
      BY <1>10
    <3>3. (n + 1) * One > bucket.rate * (Deadline - 1 - (h + 1))
      <4>. HIDE DEF One, Deadline
      <4>. QED  BY <1>1, <3>1, <3>2, PaysForLess
    <3>. QED  BY <1>2, <1>3, <1>4, <1>5, <2>3, <3>3 DEF Busy
  <2>. QED  BY <2>2, <2>3
<1>. QED  BY <1>8, <1>9, <1>10

\* A call that has just begun has missed nothing.
LEMMA CallOnTime ==
    ASSUME LimiterTypeOK, LastGrant, NEW c \in Caller, Call(c), NEW f \in Nat, f = now
    PROVE  OnTime(c, f)'
<1>1. /\ now \in Nat /\ heldUp \in Nat /\ bucket.rate \in Nat
      /\ bucket.interval \in Nat /\ lastRefill \in Nat /\ tokens \in Nat
      /\ lastRefill <= now /\ lastOp \subseteq Nat
  BY TypeFacts DEF LimiterTypeOK
<1>2. /\ bucket' = bucket /\ tokens' = tokens /\ lastRefill' = lastRefill
      /\ lastOp' = lastOp /\ now' = now /\ heldUp' = heldUp /\ grants' = grants
      /\ caller'[c] = "try"
  BY TypeFacts DEF Call, limiter
<1>3. Others(f)' = Others(f)
  BY <1>2 DEF Others
<1>4. PICK n \in Nat : n = Others(f)
  BY OthersNat
<1>5. PICK h \in Nat : h = heldUp
  BY <1>1
<1>6. ASSUME bucket.interval > 0
      PROVE  /\ \A t \in lastOp : t <= f + n * bucket.interval + h
             /\ f <= f + (n + 1) * bucket.interval + h
  <2>1. PICK i \in Nat : i = bucket.interval
    BY <1>1
  <2>2. n * i \in Nat /\ (n + 1) * i \in Nat
    BY MoreIntervals
  <2>3. \A t \in lastOp : t \in Nat /\ t <= f
    BY <1>1 DEF LastGrant
  <2>. QED  BY <2>1, <2>2, <2>3
<1>7. /\ n * One + tokens >= bucket.rate * (lastRefill - f - h)
      /\ (n + 1) * One > bucket.rate * (f - 1 - f - h)
  <2>1. /\ lastRefill - f - h \in Int /\ lastRefill - f - h <= 0
        /\ f - 1 - f - h \in Int /\ f - 1 - f - h <= 0
    BY <1>1
  <2>. DEFINE x == bucket.rate * (lastRefill - f - h)
              y == bucket.rate * (f - 1 - f - h)
  <2>2. x <= 0 /\ x \in Int /\ y <= 0 /\ y \in Int
    BY <1>1, <2>1, PaysForNothing
  <2>. HIDE DEF x, y
  <2>3. n * One + tokens >= x /\ (n + 1) * One > y
    BY <1>1, <2>2
  <2>. QED  BY <2>3 DEF x, y
<1>8. f <= f + Deadline
  OBVIOUS
<1>9. KeepsPace(f)'
  BY <1>1, <1>2, <1>3, <1>4, <1>5, <1>6, <1>7, <1>8 DEF KeepsPace
<1>. QED  BY <1>2, <1>9 DEF OnTime

\* A call that gives up finds the limiter busy: its timer was due then or
\* later.
LEMMA GiveUpBusy ==
    ASSUME LimiterTypeOK, Waiting, NEW c \in Caller, GiveUp(c), NEW f \in Nat, f = start[c]
    PROVE  Busy(f)
<1>1. /\ now \in Nat /\ heldUp \in Nat /\ bucket.rate \in Nat
      /\ bucket.interval \in Nat
  BY TypeFacts DEF LimiterTypeOK
<1>2. SUFFICES ASSUME OnTime(c, f) PROVE Busy(f)
  BY DEF Waiting, GiveUp
<1>3. PICK n \in Nat : n = Others(f)
  BY OthersNat
<1>4. PICK h \in Nat : h = heldUp
  BY <1>1
<1>5. PICK w \in Nat : w = wake[c]
  BY TypeFacts
<1>6. now = f + Deadline /\ now <= w /\ Sleeps(w, f)
  <2>1. Sleeps(w, f) /\ KeepsPace(f)
    BY <1>2, <1>5 DEF GiveUp, OnTime
  <2>2. now <= f + Deadline /\ now <= w
    BY <2>1 DEF KeepsPace, Sleeps
  <2>3. now >= f + Deadline
    BY DEF GiveUp
  <2>. QED  BY <1>1, <2>1, <2>2, <2>3
<1>7. CASE bucket.interval > 0
  <2>1. PICK i \in Nat : i = bucket.interval
    BY <1>1
  <2>2. w <= f + (n + 1) * i + h /\ (n + 1) * i \in Nat
    BY <1>3, <1>4, <1>6, <1>7, <2>1, MoreIntervals DEF Sleeps
  <2>3. (n + 1) * i + h >= Deadline
    BY <1>6, <2>2
  <2>. QED  BY <1>3, <1>4, <1>7, <2>1, <2>3 DEF Busy
<1>8. CASE ~(bucket.interval > 0)
  <2>1. (n + 1) * One > bucket.rate * (w - 1 - f - h)
    BY <1>1, <1>3, <1>4, <1>6, <1>8 DEF Sleeps
  <2>2. /\ Deadline - 1 - h \in Int /\ w - 1 - f - h \in Int
        /\ Deadline - 1 - h <= w - 1 - f - h /\ (n + 1) * One \in Int
    BY <1>6
  <2>3. (n + 1) * One > bucket.rate * (Deadline - 1 - h)
    <3>. HIDE DEF One, Deadline
    <3>. QED  BY <1>1, <2>1, <2>2, PaysForLess
  <2>. QED  BY <1>3, <1>4, <1>8, <2>3 DEF Busy
<1>. QED  BY <1>7, <1>8

-----------------------------------------------------------------------------
(* The invariant. *)

LEMMA LimitsAreSized ==
    ASSUME NEW t1, NEW t2, NEW t3, NEW t4, NEW t5, NEW op \in Operation
    PROVE  Limits(t1, t2, t3, t4, t5)[op] \in {t1, t2, t3, t4, t5}
BY DEF Operation, Limits

SizedBucket(b) ==
    b.interval = 0 => \/ b.rate * (Deadline - 1) < One
                      \/ b.rate <= One /\ b.burst >= 2

LEMMA RatedIsSized ==
    ASSUME NEW r \in Nat, NEW b \in Nat, r * 299 < One \/ (r <= One /\ b >= 2)
    PROVE  SizedBucket(Rated(r, b))
BY DEF Rated, SizedBucket

LEMMA SpacedIsSized == \A i \in Nat : SizedBucket(Spaced(i))
BY DEF Spaced, SizedBucket

\* Only the smallest limit has room for a single token.
LEMMA ConfigIsSized ==
    ASSUME NEW mode, NEW op \in Operation
    PROVE  SizedBucket(ConfigByMode(mode)[op])
<1>1. SizedBucket(Limits(Rated(50, 2), Rated(200, 10), Rated(300, 10), Rated(170, 3), Rated(200, 5))[op])
  BY RatedIsSized, LimitsAreSized
<1>2. SizedBucket(Limits(Spaced(67), Rated(9990, 15), Rated(9990, 15), Rated(4998, 4), Rated(5010, 7))[op])
  BY RatedIsSized, SpacedIsSized, LimitsAreSized
<1>3. SizedBucket(Limits(Rated(250, 3), Rated(1000, 15), Rated(1500, 15), Rated(850, 5), Rated(1000, 8))[op])
  BY RatedIsSized, LimitsAreSized
<1>4. SizedBucket(Limits(Rated(25, 1), Rated(100, 5), Rated(150, 5), Rated(85, 2), Rated(100, 3))[op])
  BY RatedIsSized, LimitsAreSized
<1>5. SizedBucket(Limits(Spaced(0), Spaced(0), Spaced(0), Spaced(0), Spaced(0))[op])
  BY SpacedIsSized, LimitsAreSized
<1>6. SizedBucket(Limits(Rated(100, 3), Rated(400, 12), Rated(600, 12), Rated(340, 4), Rated(400, 7))[op])
  BY RatedIsSized, LimitsAreSized
<1>. QED  BY <1>1, <1>2, <1>3, <1>4, <1>5, <1>6
          DEF ConfigByMode, DefaultLimits, TestingLimits

LEMMA InitWInv == LimiterInit => WInv
<1>. SUFFICES ASSUME LimiterInit PROVE WInv
  OBVIOUS
<1>1. SizedBucket(bucket)
  BY ConfigIsSized, TokenBucketAssumption DEF LimiterInit
<1>2. Sized
  BY <1>1 DEF Sized, Slow, SizedBucket
<1>3. LimiterTypeOK
  BY InitLimiterInv DEF LimiterInv
<1>4. Waiting
  BY DEF LimiterInit, Waiting
<1>5. LastGrant /\ LimitIsExact
  BY DEF LimiterInit, LastGrant, LimitIsExact, IntervalBound, FailureMeansBusy
<1>. QED  BY <1>2, <1>3, <1>4, <1>5 DEF WInv

LEMMA NextWaiting ==
    ASSUME LimiterTypeOK, Waiting, Sized, LastGrant, [LimiterNext]_limiterVars
    PROVE  Waiting'
<1>. SUFFICES ASSUME NEW c \in Caller, NEW f \in Nat,
                     caller'[c] # "idle", start'[c] = f
              PROVE  Busy(f)' \/ OnTime(c, f)'
  BY DEF Waiting
<1>1. CASE Busy(f)
  BY <1>1, BusyStays
<1>2. CASE ~Busy(f)
  <2>. USE <1>2
  <2>0. bucket.interval \in Nat /\ now \in Nat
    BY TypeFacts
  <2>1. ASSUME NEW d \in Caller, Call(d) PROVE OnTime(c, f)'
    <3>1. CASE c = d
      <4>1. f = now
        BY <2>1, <3>1, TypeFacts DEF Call
      <4>. QED  BY <2>1, <3>1, <4>1, CallOnTime
    <3>2. CASE c # d
      <4>1. caller'[c] = caller[c] /\ start'[c] = start[c]
        BY <2>1, <3>2, TypeFacts DEF Call
      <4>2. OnTime(c, f)
        BY <4>1 DEF Waiting
      <4>3. Others(f)' = Others(f)
        BY <2>1 DEF Others, Call
      <4>. QED  BY <2>1, <4>1, <4>2, <4>3
                DEF Call, limiter, OnTime, KeepsPace, Measures, Sleeps
    <3>. QED  BY <3>1, <3>2
  <2>2. ASSUME NEW d \in Caller, Allow(d) PROVE OnTime(c, f)'
    <3>1. caller[c] # "idle" /\ start[c] = f
      BY <2>2, AllowCallers
    <3>2. OnTime(c, f)
      BY <3>1 DEF Waiting
    <3>3. CASE bucket.interval > 0
      BY <2>2, <3>2, <3>3, AllowIntervalOnTime
    <3>4. CASE bucket.interval = 0
      BY <2>2, <3>2, <3>4, AllowTokenOnTime
    <3>. QED  BY <2>0, <3>3, <3>4
  <2>3. ASSUME NEW d \in Caller, Measure(d) PROVE OnTime(c, f)'
    <3>1. caller[c] # "idle" /\ start[c] = f
      BY <2>3, MeasureCallers DEF Measure
    <3>2. OnTime(c, f)
      BY <3>1 DEF Waiting
    <3>. QED  BY <2>3, <3>2, MeasureOnTime
  <2>4. ASSUME NEW d \in Caller, WakeUp(d) \/ GiveUp(d) PROVE OnTime(c, f)'
    <3>1. /\ bucket' = bucket /\ tokens' = tokens /\ lastRefill' = lastRefill
          /\ lastOp' = lastOp /\ now' = now /\ heldUp' = heldUp
          /\ grants' = grants /\ wake' = wake /\ start' = start
      BY <2>4 DEF WakeUp, GiveUp, limiter
    <3>2. /\ caller[c] # "idle"
          /\ caller'[c] = caller[c] \/ caller'[c] = "try"
      BY <2>4, TypeFacts DEF WakeUp, GiveUp
    <3>3. OnTime(c, f)
      BY <3>1, <3>2 DEF Waiting
    <3>4. Others(f)' = Others(f)
      BY <3>1 DEF Others
    <3>. QED  BY <3>1, <3>2, <3>3, <3>4 DEF OnTime, KeepsPace, Measures, Sleeps
  <2>5. ASSUME NEW t \in Nat, Tick(t), Resting, heldUp' = heldUp PROVE OnTime(c, f)'
    <3>1. caller[c] # "idle" /\ start[c] = f
      BY <2>5 DEF Tick
    <3>2. OnTime(c, f)
      BY <3>1 DEF Waiting
    <3>. QED  BY <2>5, <3>1, <3>2, RestingTickOnTime
  <2>6. CASE ToNextTimer
    <3>1. PICK d \in Asleep : Tick(TimeUp(d))
      BY <2>6 DEF ToNextTimer
    <3>2. TimeUp(d) \in Nat /\ Resting /\ heldUp' = heldUp
      BY <2>6, TimeUpNat DEF Asleep, ToNextTimer
    <3>. QED  BY <2>5, <3>1, <3>2
  <2>7. CASE ForAWhile
    <3>1. PICK d \in Pause : Tick(now + d)
      BY <2>7 DEF ForAWhile
    <3>2. now + d \in Nat /\ Resting /\ heldUp' = heldUp
      BY <2>0, <2>7, TokenBucketAssumption DEF ForAWhile
    <3>. QED  BY <2>5, <3>1, <3>2
  <2>8. CASE HeldUp
    <3>1. Tick(now + 1) /\ heldUp' = heldUp + 1
      BY <2>8 DEF HeldUp
    <3>2. caller[c] # "idle" /\ start[c] = f
      BY <3>1 DEF Tick
    <3>3. OnTime(c, f)
      BY <3>2 DEF Waiting
    <3>. QED  BY <3>1, <3>2, <3>3, HeldUpOnTime
  <2>9. CASE UNCHANGED limiterVars
    <3>1. OnTime(c, f)
      BY <2>9 DEF limiterVars, Waiting
    <3>2. Others(f)' = Others(f)
      BY <2>9 DEF limiterVars, Others
    <3>. QED  BY <2>9, <3>1, <3>2
              DEF limiterVars, limiter, OnTime, KeepsPace, Measures, Sleeps
  <2>. QED  BY <2>1, <2>2, <2>3, <2>4, <2>6, <2>7, <2>8, <2>9 DEF LimiterNext, CallerStep
<1>. QED  BY <1>1, <1>2

\* What is let through with an interval keeps it.
LEMMA NextIntervalBound ==
    ASSUME LimiterTypeOK, LastGrant, IntervalBound, [LimiterNext]_limiterVars
    PROVE  LastGrant' /\ IntervalBound'
<1>1. /\ bucket.interval \in Nat /\ now \in Nat /\ lastOp \subseteq Nat
      /\ grants \in Seq(Nat) /\ Len(grants) \in Nat
      /\ \A i \in 1..Len(grants) : grants[i] \in Nat
  BY TypeFacts
<1>2. now' \in Nat /\ now <= now'
  <2>1. now' \in Nat
    BY NextTypeOK DEF LimiterTypeOK
  <2>2. now' = now \/ now' > now
    BY DEF LimiterNext, CallerStep, Call, Allow, Measure, WakeUp, GiveUp, ToNextTimer,
           ForAWhile, HeldUp, Tick, limiterVars
  <2>. QED  BY <1>1, <2>1, <2>2
<1>3. CASE UNCHANGED <<limiter, grants>>
  <2>1. \A t \in lastOp : t <= now'
    <3>1. \A t \in lastOp : t \in Nat /\ t <= now
      BY <1>1 DEF LastGrant
    <3>. QED  BY <1>1, <1>2, <3>1
  <2>. QED  BY <1>3, <2>1 DEF limiter, LastGrant, IntervalBound
<1>4. ASSUME NEW c \in Caller, Allow(c) PROVE LastGrant' /\ IntervalBound'
  <2>1. bucket' = bucket /\ now' = now
    BY <1>4 DEF Allow, AllowUnlimited, AllowInterval, AllowToken, limiter
  <2>2. CASE ~(bucket.interval > 0)
    <3>1. lastOp' = lastOp
      BY <1>4, <2>2 DEF Allow, AllowUnlimited, AllowInterval, AllowToken, limiter
    <3>. QED  BY <2>1, <2>2, <3>1 DEF LastGrant, IntervalBound
  <2>3. CASE bucket.interval > 0
    <3>1. AllowInterval(c)
      BY <1>4, <2>3, <1>1 DEF Allow, AllowUnlimited, AllowToken, IsDisabled
    <3>2. CASE Refused(c) /\ lastOp' = lastOp
      BY <2>1, <3>2 DEF Refused, LastGrant, IntervalBound
    <3>3. CASE ~TooSoon /\ Passes(c) /\ lastOp' = {now}
      <4>. DEFINE L == Len(grants)
      <4>1. /\ grants' = Append(grants, now) /\ Len(grants') = L + 1
            /\ grants'[L + 1] = now
            /\ \A i \in 1..L : grants'[i] = grants[i]
            /\ grants' # <<>>
        BY <1>1, <3>3 DEF Passes
      <4>2. LastGrant'
        BY <1>1, <2>1, <3>3, <4>1 DEF LastGrant
      <4>3. ASSUME NEW j \in 2..Len(grants')
            PROVE  grants'[j] - grants'[j - 1] >= bucket.interval
        <5>1. CASE j \in 2..L
          <6>1. j \in 1..L /\ j - 1 \in 1..L
            BY <1>1, <5>1
          <6>2. grants[j] - grants[j - 1] >= bucket.interval
            BY <2>3, <5>1 DEF IntervalBound
          <6>. QED  BY <4>1, <6>1, <6>2
        <5>2. CASE j = L + 1
          <6>1. L \in 1..L /\ j - 1 = L
            BY <1>1, <4>1, <4>3, <5>2
          <6>2. grants # <<>>
            BY <6>1
          <6>3. grants[L] \in lastOp
            BY <2>3, <6>2 DEF LastGrant
          <6>4. ~(now - grants[L] < bucket.interval)
            BY <3>3, <6>3 DEF TooSoon
          <6>. QED  BY <1>1, <4>1, <5>2, <6>1, <6>4
        <5>. QED  BY <1>1, <4>1, <5>1, <5>2
      <4>. QED  BY <2>1, <4>2, <4>3 DEF IntervalBound
    <3>. QED  BY <3>1, <3>2, <3>3 DEF AllowInterval
  <2>. QED  BY <2>2, <2>3
<1>. QED  BY <1>3, <1>4, QuietSteps

LEMMA NextFailures ==
    ASSUME LimiterTypeOK, Waiting, FailureMeansBusy, [LimiterNext]_limiterVars
    PROVE  FailureMeansBusy'
<1>. SUFFICES ASSUME NEW f \in failures' PROVE Busy(f)'
  BY DEF FailureMeansBusy
<1>1. f \in Nat
  BY NextTypeOK DEF LimiterTypeOK
<1>2. f \in failures \/ \E c \in Caller : GiveUp(c) /\ f = start[c]
  BY DEF LimiterNext, CallerStep, Call, Allow, Measure, WakeUp, GiveUp, ToNextTimer,
         ForAWhile, HeldUp, Tick, limiterVars
<1>3. Busy(f)
  BY <1>1, <1>2, GiveUpBusy DEF FailureMeansBusy
<1>. QED  BY <1>1, <1>3, BusyStays

LEMMA NextWInv == WInv /\ [LimiterNext]_limiterVars => WInv'
<1>. SUFFICES ASSUME WInv, [LimiterNext]_limiterVars PROVE WInv'
  OBVIOUS
<1>1. LimiterTypeOK /\ Waiting /\ Sized /\ LastGrant /\ IntervalBound /\ FailureMeansBusy
  BY DEF WInv, LimitIsExact
<1>2. LimiterTypeOK'
  BY <1>1, NextTypeOK
<1>3. Waiting'
  BY <1>1, NextWaiting
<1>4. Sized'
  BY <1>1, Constant DEF Sized, Slow
<1>5. LastGrant' /\ IntervalBound'
  BY <1>1, NextIntervalBound
<1>6. FailureMeansBusy'
  BY <1>1, NextFailures
<1>. QED  BY <1>2, <1>3, <1>4, <1>5, <1>6 DEF WInv, LimitIsExact

\* With every configured limit, any number of callers and any interleaving,
\* the limiter keeps its interval, and a call fails only if the grants since
\* it began, and one more, are all that the rate gives in its 30 seconds.
THEOREM TokenBucketLimitIsExact == LimiterSpec => []LimitIsExact
<1>1. WInv => LimitIsExact
  BY DEF WInv
<1>. QED  BY InitWInv, NextWInv, <1>1, PTL DEF LimiterSpec
=============================================================================
