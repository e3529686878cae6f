----------------------- MODULE QueueAndBatcherProofs -----------------------
(***************************************************************************)
(* Safety of the worker pool for every set of tasks and of workers and     *)
(* every buffer size, and the proof that it implements TaskPool; then of   *)
(* the reaction batcher, which is a client of the pool, for all posts and  *)
(* reactions.  The batcher asks of the set of tasks only that its batches  *)
(* are among them, so what is proved of the pool holds of any tasks.       *)
(***************************************************************************)
EXTENDS ReactionBatcher, FiniteSetTheorems, TLAPS

-----------------------------------------------------------------------------
(* The queue *)

\* A task that has a place, or had one, was accepted; Stop's progress and the
\* state of stopChan go together.
Accountable ==
    /\ \A t \in Task :
         In(t, taskChan) \/ outcome[t] # "none" \/ (\E w \in Worker : job[w] = t)
             => In(t, accepted)
    /\ stopCall = "none" <=> stopChan = "open"

\* The inductive invariant: the properties above hold each other up.
IInv == /\ TypeOK
        /\ FifoHandOver
        /\ SinglePlace
        /\ StoppedIsQuiet
        /\ Accountable

-----------------------------------------------------------------------------
\* Appending adds exactly the new element.
LEMMA InAppend ==
    ASSUME NEW S, NEW q \in Seq(S), NEW e \in S, NEW t
    PROVE  In(t, Append(q, e)) <=> In(t, q) \/ t = e
<1>1. Len(Append(q, e)) = Len(q) + 1
  OBVIOUS
<1>2. \A i \in 1..(Len(q) + 1) :
         Append(q, e)[i] = IF i = Len(q) + 1 THEN e ELSE q[i]
  OBVIOUS
<1>3. QED
  BY <1>1, <1>2 DEF In

\* Receiving removes the head and nothing else.
LEMMA InTail ==
    ASSUME NEW S, NEW q \in Seq(S), q # <<>>, NEW t,
           \A i, j \in 1..Len(q) : q[i] = q[j] => i = j
    PROVE  /\ In(t, Tail(q)) <=> In(t, q) /\ t # Head(q)
           /\ Head(q) \in S
           /\ In(Head(q), q)
           /\ Tail(q) \in Seq(S)
           /\ Len(Tail(q)) = Len(q) - 1
           /\ \A i \in 1..Len(Tail(q)) : Tail(q)[i] = q[i + 1]
<1>1. Len(q) \in Nat /\ Len(q) >= 1
  OBVIOUS
<1>2. /\ Tail(q) \in Seq(S)
      /\ Len(Tail(q)) = Len(q) - 1
      /\ \A i \in 1..Len(Tail(q)) : Tail(q)[i] = q[i + 1]
      /\ Head(q) = q[1]
      /\ Head(q) \in S
  OBVIOUS
<1>3. In(t, Tail(q)) => In(t, q) /\ t # Head(q)
  BY <1>1, <1>2 DEF In
<1>4. In(t, q) /\ t # Head(q) => In(t, Tail(q))
  <2> SUFFICES ASSUME In(t, q), t # Head(q)  PROVE In(t, Tail(q))
    OBVIOUS
  <2>1. PICK i \in 1..Len(q) : q[i] = t
    BY DEF In
  <2>2. i - 1 \in 1..Len(Tail(q)) /\ Tail(q)[i - 1] = t
    BY <1>1, <1>2, <2>1
  <2>3. QED
    BY <2>2 DEF In
<1>5. In(Head(q), q)
  BY <1>1, <1>2 DEF In
<1>6. QED
  BY <1>2, <1>3, <1>4, <1>5

\* Moving the head of one sequence to the end of another keeps their
\* concatenation.
LEMMA MoveHead ==
    ASSUME NEW S, NEW r \in Seq(S), NEW q \in Seq(S), q # <<>>
    PROVE  Append(r, Head(q)) \o Tail(q) = r \o q
OBVIOUS

\* Appending to the second part of a concatenation appends to the whole.
LEMMA AppendConcat ==
    \A r, q \in Seq(Task) : \A e \in Task : Append(r \o q, e) = r \o Append(q, e)
OBVIOUS

-----------------------------------------------------------------------------
\* The queue starts in the invariant.
LEMMA InitIInv == Init => IInv
<1> SUFFICES ASSUME Init PROVE IInv
  OBVIOUS
<1> USE EventQueueAssumption
<1>1. TypeOK
  BY DEF Init, TypeOK
<1>2. FifoHandOver
  BY DEF Init, FifoHandOver
<1>3. SinglePlace
  BY DEF Init, SinglePlace, In
<1>4. StoppedIsQuiet /\ Accountable
  BY DEF Init, StoppedIsQuiet, Accountable, In
<1>5. QED
  BY <1>1, <1>2, <1>3, <1>4 DEF IInv

\* Enqueue, send case.
LEMMA SendIInv ==
    ASSUME IInv, NEW t \in Task, ~In(t, accepted), t \notin refused,
           EnqueueSend(t)
    PROVE  IInv'
<1> USE EventQueueAssumption
<1>0. /\ taskChan \in Seq(Task)
      /\ taskChan' = Append(taskChan, t)
      /\ accepted \in Seq(Task)
      /\ accepted' = Append(accepted, t)
      /\ Len(taskChan) \in Nat
      /\ Len(taskChan') = Len(taskChan) + 1
      /\ UNCHANGED <<stopChan, stopCall, worker, job, refused, outcome, received>>
  BY DEF IInv, TypeOK, EnqueueSend
<1>a. \A u : In(u, taskChan') <=> In(u, taskChan) \/ u = t
  BY <1>0, InAppend
<1>b. \A u : In(u, accepted') <=> In(u, accepted) \/ u = t
  BY <1>0, InAppend
<1>c. /\ ~In(t, taskChan)
      /\ outcome[t] = "none"
      /\ \A w \in Worker : job[w] # t
  BY DEF IInv, Accountable
<1>1. TypeOK'
  BY <1>0 DEF IInv, TypeOK, EnqueueSend
<1>2. FifoHandOver'
  <2>1. received \in Seq(Task) /\ taskChan \in Seq(Task)
    BY DEF IInv, TypeOK
  <2>2. Append(received \o taskChan, t) = received \o Append(taskChan, t)
    BY ONLY <2>1, AppendConcat, t \in Task
  <2>3. QED
    BY <1>0, <2>2 DEF IInv, FifoHandOver
<1>3. SinglePlace'
  <2>1. \A i, j \in 1..Len(taskChan') : taskChan'[i] = taskChan'[j] => i = j
    <3>1. \A i \in 1..Len(taskChan) : taskChan[i] # t
      BY <1>c DEF In
    <3>2. \A i \in 1..Len(taskChan') :
             taskChan'[i] = IF i = Len(taskChan) + 1 THEN t ELSE taskChan[i]
      BY <1>0
    <3>3. QED
      BY <3>1, <3>2, <1>0 DEF IInv, SinglePlace
  <2>2. QED
    BY <2>1, <1>0, <1>a, <1>b, <1>c DEF IInv, SinglePlace
<1>4. StoppedIsQuiet'
  BY <1>0 DEF IInv, StoppedIsQuiet
<1>5. Accountable'
  BY <1>0, <1>a, <1>b DEF IInv, Accountable
<1>6. QED
  BY <1>1, <1>2, <1>3, <1>4, <1>5 DEF IInv

\* Enqueue, default case.
LEMMA FullIInv ==
    ASSUME IInv, NEW t \in Task, ~In(t, accepted), t \notin refused,
           EnqueueFull(t)
    PROVE  IInv'
<1> USE EventQueueAssumption
<1>0. /\ refused' = refused \cup {t}
      /\ UNCHANGED <<taskChan, stopChan, stopCall, worker, job, outcome,
                     accepted, received>>
  BY DEF EnqueueFull
<1>c. /\ ~In(t, taskChan)
      /\ outcome[t] = "none"
      /\ \A w \in Worker : job[w] # t
  BY DEF IInv, Accountable
<1>1. TypeOK'
  BY <1>0 DEF IInv, TypeOK
<1>2. FifoHandOver' /\ StoppedIsQuiet'
  BY <1>0 DEF IInv, FifoHandOver, StoppedIsQuiet
<1>3. SinglePlace'
  BY <1>0, <1>c DEF IInv, SinglePlace, In
<1>4. Accountable'
  BY <1>0 DEF IInv, Accountable, In
<1>5. QED
  BY <1>1, <1>2, <1>3, <1>4 DEF IInv

\* A worker takes the head of the channel.
LEMMA ReceiveIInv ==
    ASSUME IInv, NEW w \in Worker, WorkerReceive(w)
    PROVE  IInv'
<1> USE EventQueueAssumption
<1> DEFINE h == Head(taskChan)
<1>0. /\ taskChan \in Seq(Task)
      /\ taskChan # <<>>
      /\ received \in Seq(Task)
      /\ worker[w] = "select"
      /\ job[w] = NoTask
      /\ taskChan' = Tail(taskChan)
      /\ received' = Append(received, h)
      /\ job' = [job EXCEPT ![w] = h]
      /\ worker' = [worker EXCEPT ![w] = "processing"]
      /\ UNCHANGED <<stopChan, stopCall, refused, outcome, accepted>>
  BY DEF IInv, TypeOK, SinglePlace, WorkerReceive
<1>u. \A i, j \in 1..Len(taskChan) : taskChan[i] = taskChan[j] => i = j
  BY DEF IInv, SinglePlace
<1>a. \A u : In(u, taskChan') <=> In(u, taskChan) /\ u # h
  BY <1>0, <1>u, InTail
<1>b. /\ h \in Task
      /\ h # NoTask
      /\ In(h, taskChan)
      /\ taskChan' \in Seq(Task)
      /\ Len(taskChan') = Len(taskChan) - 1
      /\ \A i \in 1..Len(taskChan') : taskChan'[i] = taskChan[i + 1]
  BY <1>0, <1>u, InTail
<1>c. /\ outcome[h] = "none"
      /\ h \notin refused
      /\ \A v \in Worker : job[v] # h
      /\ In(h, accepted)
  BY <1>b DEF IInv, SinglePlace, Accountable
<1>d. /\ job' \in [Worker -> Task \cup {NoTask}]
      /\ worker' \in [Worker -> {"select", "processing", "exited"}]
      /\ \A v \in Worker : job'[v] = IF v = w THEN h ELSE job[v]
      /\ \A v \in Worker : worker'[v] = IF v = w THEN "processing" ELSE worker[v]
  BY <1>0, <1>b DEF IInv, TypeOK
<1>1. TypeOK'
  BY <1>0, <1>b, <1>d DEF IInv, TypeOK
<1>2. FifoHandOver'
  BY <1>0, MoveHead DEF IInv, TypeOK, FifoHandOver
<1>3. SinglePlace'
  <2>1. \A i, j \in 1..Len(taskChan') : taskChan'[i] = taskChan'[j] => i = j
    BY <1>0, <1>b, <1>u
  <2>2. \A v \in Worker : worker'[v] = "processing" <=> job'[v] # NoTask
    BY <1>b, <1>d DEF IInv, SinglePlace
  <2>3. \A v, x \in Worker : job'[v] = job'[x] /\ job'[v] # NoTask => v = x
    BY <1>c, <1>d DEF IInv, SinglePlace
  <2>4. \A t \in Task :
          /\ In(t, taskChan') => \A v \in Worker : job'[v] # t
          /\ outcome[t] # "none" => /\ ~In(t, taskChan')
                                    /\ \A v \in Worker : job'[v] # t
          /\ t \in refused => /\ ~In(t, accepted)
                              /\ ~In(t, taskChan')
                              /\ \A v \in Worker : job'[v] # t
                              /\ outcome[t] = "none"
    BY <1>a, <1>c, <1>d DEF IInv, SinglePlace
  <2>5. QED
    BY <1>0, <2>1, <2>2, <2>3, <2>4 DEF SinglePlace
<1>4. StoppedIsQuiet'
  BY <1>0, <1>d DEF IInv, StoppedIsQuiet
<1>5. Accountable'
  BY <1>0, <1>a, <1>c, <1>d DEF IInv, Accountable
<1>6. QED
  BY <1>1, <1>2, <1>3, <1>4, <1>5 DEF IInv

\* A worker's task ends.
LEMMA ProcessIInv ==
    ASSUME IInv, NEW w \in Worker, NEW r \in {"ok", "failed"}, ProcessTask(w, r)
    PROVE  IInv'
<1> USE EventQueueAssumption
<1> DEFINE t == job[w]
<1>0. /\ worker[w] = "processing"
      /\ outcome' = [outcome EXCEPT ![t] = r]
      /\ worker' = [worker EXCEPT ![w] = "select"]
      /\ job' = [job EXCEPT ![w] = NoTask]
      /\ UNCHANGED <<taskChan, stopChan, stopCall, refused, accepted, received>>
  BY DEF ProcessTask
<1>1. t \in Task
  BY <1>0 DEF IInv, TypeOK, SinglePlace
<1>2. /\ ~In(t, taskChan)
      /\ t \notin refused
      /\ In(t, accepted)
      /\ \A v \in Worker : job[v] = t => v = w
  BY <1>0, <1>1 DEF IInv, SinglePlace, Accountable
<1>3. /\ outcome' \in [Task -> {"none", "ok", "failed"}]
      /\ \A u \in Task : outcome'[u] = IF u = t THEN r ELSE outcome[u]
      /\ job' \in [Worker -> Task \cup {NoTask}]
      /\ worker' \in [Worker -> {"select", "processing", "exited"}]
      /\ \A v \in Worker : job'[v] = IF v = w THEN NoTask ELSE job[v]
      /\ \A v \in Worker : worker'[v] = IF v = w THEN "select" ELSE worker[v]
  BY <1>0, <1>1 DEF IInv, TypeOK
<1>4. TypeOK' /\ FifoHandOver'
  BY <1>0, <1>3 DEF IInv, TypeOK, FifoHandOver
<1>5. SinglePlace'
  BY <1>0, <1>1, <1>2, <1>3 DEF IInv, SinglePlace, In
<1>6. StoppedIsQuiet'
  BY <1>0, <1>3 DEF IInv, StoppedIsQuiet
<1>7. Accountable'
  BY <1>0, <1>1, <1>2, <1>3 DEF IInv, Accountable, In
<1>8. QED
  BY <1>4, <1>5, <1>6, <1>7 DEF IInv

\* A worker leaves, Stop closes the channel, Stop returns.
LEMMA ShutdownIInv ==
    ASSUME IInv, (\E w \in Worker : WorkerExit(w)) \/ Stop \/ StopReturn
    PROVE  IInv'
<1> USE EventQueueAssumption
<1>1. ASSUME NEW w \in Worker, WorkerExit(w)
      PROVE  IInv'
  <2>1. /\ worker[w] = "select"
        /\ worker' = [worker EXCEPT ![w] = "exited"]
        /\ UNCHANGED <<taskChan, stopChan, stopCall, job, refused, outcome,
                       accepted, received>>
    BY <1>1 DEF WorkerExit
  <2>2. /\ worker' \in [Worker -> {"select", "processing", "exited"}]
        /\ \A v \in Worker : worker'[v] = IF v = w THEN "exited" ELSE worker[v]
    BY <2>1 DEF IInv, TypeOK
  <2>3. TypeOK' /\ FifoHandOver' /\ StoppedIsQuiet' /\ Accountable'
    BY <2>1, <2>2 DEF IInv, TypeOK, FifoHandOver, StoppedIsQuiet, Accountable, In
  <2>4. SinglePlace'
    BY <2>1, <2>2 DEF IInv, SinglePlace, In
  <2>5. QED
    BY <2>3, <2>4 DEF IInv
<1>2. CASE Stop
  BY <1>2 DEF Stop, IInv, TypeOK, FifoHandOver, SinglePlace, StoppedIsQuiet,
              Accountable, In
<1>3. CASE StopReturn
  BY <1>3 DEF StopReturn, IInv, TypeOK, FifoHandOver, SinglePlace,
              StoppedIsQuiet, Accountable, In
<1>4. QED
  BY <1>1, <1>2, <1>3

\* Every step of the queue keeps the invariant.
LEMMA StepIInv == IInv /\ [Next]_vars => IInv'
<1> SUFFICES ASSUME IInv, [Next]_vars PROVE IInv'
  OBVIOUS
<1>1. ASSUME NEW t \in Task, Enqueue(t) PROVE IInv'
  BY <1>1, SendIInv, FullIInv DEF Enqueue
<1>2. ASSUME NEW w \in Worker, WorkerStep(w) PROVE IInv'
  BY <1>2, ReceiveIInv, ProcessIInv, ShutdownIInv DEF WorkerStep
<1>3. CASE Stop \/ StopReturn
  BY <1>3, ShutdownIInv
<1>4. CASE UNCHANGED vars
  <2>1. TypeOK' /\ FifoHandOver' /\ StoppedIsQuiet'
    BY <1>4 DEF vars, IInv, TypeOK, FifoHandOver, StoppedIsQuiet
  <2>2. SinglePlace'
    BY <1>4 DEF vars, IInv, SinglePlace, In
  <2>3. Accountable'
    BY <1>4 DEF vars, IInv, Accountable, In
  <2>4. QED
    BY <2>1, <2>2, <2>3 DEF IInv
<1>5. QED
  BY <1>1, <1>2, <1>3, <1>4 DEF Next

\* The queue never leaves its types, and taskChan never exceeds its capacity.
THEOREM TypeCorrect == Spec => []TypeOK
<1>1. IInv => TypeOK
  BY DEF IInv
<1>2. QED
  BY <1>1, InitIInv, StepIInv, PTL DEF Spec

\* Tasks reach the workers exactly once and in the order Enqueue accepted them.
THEOREM FifoHandOverAlways == Spec => []FifoHandOver
<1>1. IInv => FifoHandOver
  BY DEF IInv
<1>2. QED
  BY <1>1, InitIInv, StepIInv, PTL DEF Spec

\* No task is executed twice, by two workers, or by a worker and its caller.
THEOREM SinglePlaceAlways == Spec => []SinglePlace
<1>1. IInv => SinglePlace
  BY DEF IInv
<1>2. QED
  BY <1>1, InitIInv, StepIInv, PTL DEF Spec

\* Once Stop has returned no worker runs.
THEOREM StoppedIsQuietAlways == Spec => []StoppedIsQuiet
<1>1. IInv => StoppedIsQuiet
  BY DEF IInv
<1>2. QED
  BY <1>1, InitIInv, StepIInv, PTL DEF Spec

-----------------------------------------------------------------------------
(* How far the workers reorder tasks *)

\* No task is accepted twice.
Unrepeated == \A i, j \in 1..Len(accepted) : accepted[i] = accepted[j] => i = j

\* A task that was handed out has ended or is with a worker.
HandedOut == \A i \in 1..Len(received) :
                \/ outcome[received[i]] # "none"
                \/ \E w \in Worker : job[w] = received[i]

\* Once a task has ended, some worker has nothing older: the one that executed
\* it, whatever else it took since.
MovedOn == \A i \in 1..Len(received) :
              outcome[received[i]] # "none" =>
                 \E w \in Worker : \A j \in 1..(i - 1) : job[w] # received[j]

InOrder == Unrepeated /\ HandedOut /\ MovedOn

\* The parts of the order in which tasks went through the buffer.
LEMMA OrderOf ==
    ASSUME IInv
    PROVE  /\ accepted \in Seq(Task) /\ received \in Seq(Task) /\ taskChan \in Seq(Task)
           /\ Len(accepted) = Len(received) + Len(taskChan)
           /\ \A i \in 1..Len(received) : accepted[i] = received[i]
           /\ \A i \in 1..Len(taskChan) : accepted[Len(received) + i] = taskChan[i]
<1>1. accepted \in Seq(Task) /\ received \in Seq(Task) /\ taskChan \in Seq(Task)
  BY DEF IInv, TypeOK
<1>2. accepted = received \o taskChan
  BY DEF IInv, FifoHandOver
<1>. QED  BY <1>1, <1>2

\* What has ended was received.
LEMMA EndedReceived ==
    ASSUME IInv, NEW i \in 1..Len(accepted), outcome[accepted[i]] # "none"
    PROVE  i \in 1..Len(received)
<1>1. accepted[i] \in Task
  BY OrderOf
<1>2. ~In(accepted[i], taskChan)
  BY <1>1 DEF IInv, SinglePlace
<1>3. CASE i > Len(received)
  <2>1. i - Len(received) \in 1..Len(taskChan)
    BY <1>3, OrderOf
  <2>2. accepted[i] = taskChan[i - Len(received)]
    <3>1. accepted[Len(received) + (i - Len(received))] = taskChan[i - Len(received)]
      BY <2>1, OrderOf
    <3>2. Len(received) \in Nat /\ i \in Nat
      BY OrderOf
    <3>3. Len(received) + (i - Len(received)) = i
      BY <3>2
    <3>4. QED
      BY <3>1, <3>3
  <2>. QED  BY <1>2, <2>1, <2>2 DEF In
<1>. QED  BY <1>3, OrderOf

LEMMA InitInOrder == Init => InOrder
BY DEF Init, InOrder, Unrepeated, HandedOut, MovedOn

\* Enqueue adds a task that was not accepted before.
LEMMA EnqueueInOrder ==
    ASSUME IInv, InOrder, NEW t \in Task, Enqueue(t)
    PROVE  InOrder'
<1>1. UNCHANGED <<received, outcome, job>>
  BY DEF Enqueue, EnqueueSend, EnqueueFull
<1>2. HandedOut' /\ MovedOn'
  BY <1>1 DEF InOrder, HandedOut, MovedOn
<1>3. Unrepeated'
  <2>1. CASE EnqueueFull(t)
    BY <2>1 DEF EnqueueFull, InOrder, Unrepeated
  <2>2. CASE EnqueueSend(t)
    <3>1. /\ accepted \in Seq(Task) /\ accepted' = Append(accepted, t)
          /\ \A i \in 1..Len(accepted) : accepted[i] # t
      BY <2>2, OrderOf DEF Enqueue, EnqueueSend, In
    <3>2. /\ Len(accepted') = Len(accepted) + 1
          /\ \A i \in 1..Len(accepted') :
                accepted'[i] = IF i = Len(accepted) + 1 THEN t ELSE accepted[i]
      BY <3>1
    <3>. QED  BY <3>1, <3>2 DEF InOrder, Unrepeated
  <2>. QED  BY <2>1, <2>2 DEF Enqueue
<1>. QED  BY <1>2, <1>3 DEF InOrder

\* A worker takes a task that is younger than all that were handed out.
LEMMA ReceiveInOrder ==
    ASSUME IInv, InOrder, NEW w \in Worker, WorkerReceive(w)
    PROVE  InOrder'
<1> DEFINE h == Head(taskChan)
           n == Len(received)
<1>1. /\ worker[w] = "select" /\ job[w] = NoTask
      /\ taskChan # <<>>
      /\ received' = Append(received, h)
      /\ job' = [job EXCEPT ![w] = h]
      /\ UNCHANGED <<outcome, accepted>>
  BY DEF IInv, SinglePlace, WorkerReceive
<1>2. /\ h \in Task /\ h = accepted[n + 1] /\ n + 1 \in 1..Len(accepted) /\ n \in Nat
      /\ In(h, taskChan)
  <2>1. Len(taskChan) \in Nat /\ Len(taskChan) >= 1 /\ h = taskChan[1] /\ n \in Nat
    BY <1>1, OrderOf
  <2>. QED  BY <2>1, OrderOf DEF In
<1>3. outcome[h] = "none"
  BY <1>2 DEF IInv, SinglePlace
<1>4. \A i \in 1..n : received[i] # h
  BY <1>2, OrderOf DEF InOrder, Unrepeated
<1>5. /\ Len(received') = n + 1
      /\ \A i \in 1..(n + 1) : received'[i] = IF i = n + 1 THEN h ELSE received[i]
  <2>1. received \in Seq(Task)
    BY OrderOf
  <2>. QED  BY <1>1, <1>2, <2>1
<1>6. \A v \in Worker : job'[v] = IF v = w THEN h ELSE job[v]
  BY <1>1 DEF IInv, TypeOK
<1>. HIDE DEF h, n
<1>7. Unrepeated'
  BY <1>1 DEF InOrder, Unrepeated
<1>8. HandedOut'
  <2>1. SUFFICES ASSUME NEW i \in 1..(n + 1), outcome[received'[i]] = "none"
                 PROVE  \E v \in Worker : job'[v] = received'[i]
    BY <1>1, <1>5 DEF HandedOut
  <2>2. CASE i = n + 1
    BY <1>2, <1>5, <1>6, <2>2
  <2>3. CASE i \in 1..n
    <3>1. PICK v \in Worker : job[v] = received[i]
      BY <1>2, <1>5, <2>1, <2>3 DEF InOrder, HandedOut, n
    <3>2. received[i] \in Task /\ NoTask \notin Task
      BY <2>3, OrderOf, EventQueueAssumption DEF n
    <3>3. v # w
      BY <1>1, <3>1, <3>2
    <3>. QED  BY <1>2, <1>5, <1>6, <2>3, <3>1, <3>3
  <2>. QED  BY <1>2, <2>2, <2>3
<1>9. MovedOn'
  <2>1. SUFFICES ASSUME NEW i \in 1..(n + 1), outcome[received'[i]] # "none"
                 PROVE  \E v \in Worker : \A j \in 1..(i - 1) : job'[v] # received'[j]
    BY <1>1, <1>5 DEF MovedOn
  <2>2. i \in 1..n /\ received'[i] = received[i]
    BY <1>2, <1>3, <1>5, <2>1
  <2>3. PICK v \in Worker : \A j \in 1..(i - 1) : job[v] # received[j]
    BY <2>1, <2>2 DEF InOrder, MovedOn, n
  <2>4. \A j \in 1..(i - 1) : job'[v] # received'[j]
    BY <1>2, <1>4, <1>5, <1>6, <2>2, <2>3
  <2>. QED  BY <2>4
<1>. QED  BY <1>7, <1>8, <1>9 DEF InOrder

\* A worker whose task has ended has no task, so no older one.
LEMMA ProcessInOrder ==
    ASSUME IInv, InOrder, NEW w \in Worker, NEW r \in {"ok", "failed"}, ProcessTask(w, r)
    PROVE  InOrder'
<1>1. /\ worker[w] = "processing"
      /\ outcome' = [outcome EXCEPT ![job[w]] = r]
      /\ job' = [job EXCEPT ![w] = NoTask]
      /\ UNCHANGED <<accepted, received>>
  BY DEF ProcessTask
<1>2. /\ \A t \in Task : outcome'[t] = IF t = job[w] THEN r ELSE outcome[t]
      /\ \A v \in Worker : job'[v] = IF v = w THEN NoTask ELSE job[v]
  BY <1>1 DEF IInv, TypeOK
<1>3. \A i \in 1..Len(received) : received[i] \in Task /\ received[i] # NoTask
  BY OrderOf, EventQueueAssumption
<1>4. Unrepeated'
  BY <1>1 DEF InOrder, Unrepeated
<1>5. HandedOut'
  BY <1>1, <1>2, <1>3 DEF InOrder, HandedOut
<1>6. MovedOn'
  <2>1. SUFFICES ASSUME NEW i \in 1..Len(received), outcome'[received[i]] # "none"
                 PROVE  \E v \in Worker : \A j \in 1..(i - 1) : job'[v] # received[j]
    BY <1>1 DEF MovedOn
  <2>2. \A j \in 1..(i - 1) : j \in 1..Len(received)
    BY OrderOf
  <2>3. CASE received[i] = job[w]
    BY <1>2, <1>3, <2>2
  <2>4. CASE received[i] # job[w]
    <3>1. PICK v \in Worker : \A j \in 1..(i - 1) : job[v] # received[j]
      BY <1>2, <1>3, <2>1, <2>4 DEF InOrder, MovedOn
    <3>. QED  BY <1>2, <1>3, <2>2, <3>1
  <2>. QED  BY <2>3, <2>4
<1>. QED  BY <1>4, <1>5, <1>6 DEF InOrder

LEMMA StepInOrder == IInv /\ InOrder /\ [Next]_vars => InOrder'
<1> SUFFICES ASSUME IInv, InOrder, [Next]_vars PROVE InOrder'
  OBVIOUS
<1>1. ASSUME UNCHANGED <<accepted, received, outcome, job>> PROVE InOrder'
  BY <1>1 DEF InOrder, Unrepeated, HandedOut, MovedOn
<1>2. ASSUME NEW t \in Task, Enqueue(t) PROVE InOrder'
  BY <1>2, EnqueueInOrder
<1>3. ASSUME NEW w \in Worker, WorkerStep(w) PROVE InOrder'
  BY <1>1, <1>3, ReceiveInOrder, ProcessInOrder DEF WorkerStep, WorkerExit
<1>4. CASE Stop \/ StopReturn \/ UNCHANGED vars
  BY <1>1, <1>4 DEF Stop, StopReturn, vars
<1>. QED  BY <1>2, <1>3, <1>4 DEF Next

\* The tasks before an ended one that have not ended are with different
\* workers, none of them with the worker that MovedOn names.
LEMMA BoundedOvertaking == IInv /\ InOrder => OvertakeBound
<1> SUFFICES ASSUME IInv, InOrder,
                    NEW i \in 1..Len(accepted), outcome[accepted[i]] # "none"
             PROVE  Cardinality({j \in 1..(i - 1) : outcome[accepted[j]] = "none"})
                        < Cardinality(Worker)
  BY DEF OvertakeBound
<1> DEFINE Late == {j \in 1..(i - 1) : outcome[accepted[j]] = "none"}
<1>1. i \in 1..Len(received) /\ accepted[i] = received[i]
  BY EndedReceived, OrderOf
<1>2. PICK w \in Worker : \A j \in 1..(i - 1) : job[w] # received[j]
  BY <1>1 DEF InOrder, MovedOn
<1>3. ASSUME NEW j \in Late
      PROVE  /\ j \in 1..Len(accepted)
             /\ \E v \in Worker \ {w} : job[v] = accepted[j]
  <2>1. j \in 1..Len(received) /\ j \in 1..Len(accepted) /\ accepted[j] = received[j]
    BY <1>1, OrderOf
  <2>2. PICK v \in Worker : job[v] = received[j]
    BY <2>1 DEF InOrder, HandedOut
  <2>. QED  BY <1>2, <2>1, <2>2
<1> DEFINE holder == [j \in Late |-> CHOOSE v \in Worker \ {w} : job[v] = accepted[j]]
<1>4. \A j \in Late : holder[j] \in Worker \ {w} /\ job[holder[j]] = accepted[j]
  BY <1>3
<1>5. holder \in Injection(Late, Worker \ {w})
  <2>1. holder \in [Late -> Worker \ {w}]
    BY <1>4
  <2>2. ASSUME NEW j \in Late, NEW k \in Late, holder[j] = holder[k]  PROVE j = k
    BY <1>3, <1>4, <2>2 DEF InOrder, Unrepeated
  <2>. HIDE DEF holder, Late
  <2>. QED  BY <2>1, <2>2 DEF Injection, IsInjective
<1>6. /\ IsFiniteSet(Worker \ {w}) /\ Cardinality(Worker) \in Nat
      /\ Cardinality(Worker \ {w}) = Cardinality(Worker) - 1
  BY EventQueueAssumption, FS_RemoveElement, FS_CardinalityType
<1>. HIDE DEF holder, Late
<1>7. IsFiniteSet(Late) /\ Cardinality(Late) <= Cardinality(Worker \ {w})
  BY <1>5, <1>6, FS_Injection
<1>8. Cardinality(Late) \in Nat
  BY <1>7, FS_CardinalityType
<1>. QED  BY <1>6, <1>7, <1>8 DEF Late

\* However the workers overtake each other, a task that has ended has
\* overtaken fewer tasks than there are workers.
THEOREM OvertakeBoundAlways == Spec => []OvertakeBound
<1>. QED  BY InitIInv, StepIInv, InitInOrder, StepInOrder, BoundedOvertaking, PTL DEF Spec

-----------------------------------------------------------------------------
\* A step that moves one task and leaves the others where they are.
LEMMA MoveOne ==
    ASSUME NEW t \in Task,
           \A u \in Task : u # t => statusBar'[u] = statusBar[u],
           stopCall' = stopCall
    PROVE  Pool!Move(t, statusBar[t], statusBar'[t])
<1>1. statusBar' = [statusBar EXCEPT ![t] = statusBar'[t]]
  <2>1. /\ statusBar = [u \in Task |-> statusBar[u]]
        /\ statusBar' = [u \in Task |-> statusBar'[u]]
    BY DEF statusBar
  <2>2. QED
    BY <2>1
<1>2. phaseBar' = phaseBar
  BY DEF phaseBar
<1>3. QED
  BY <1>1, <1>2 DEF Pool!Move

\* The place of one task, spelled out.
LEMMA StatusOf ==
    ASSUME NEW t \in Task
    PROVE  /\ statusBar[t] = IF t \in refused THEN "refused"
                             ELSE IF outcome[t] # "none" THEN "finished"
                             ELSE IF \E w \in Worker : job[w] = t THEN "running"
                             ELSE IF In(t, taskChan) THEN "accepted"
                             ELSE "new"
           /\ statusBar'[t] = IF t \in refused' THEN "refused"
                              ELSE IF outcome'[t] # "none" THEN "finished"
                              ELSE IF \E w \in Worker : job'[w] = t THEN "running"
                              ELSE IF In(t, taskChan') THEN "accepted"
                              ELSE "new"
BY DEF statusBar, In

\* A submission is Accept or Refuse.
LEMMA EnqueueRefines ==
    ASSUME IInv, NEW t \in Task, Enqueue(t)
    PROVE  Pool!Accept(t) \/ Pool!Refuse(t)
<1>0. ~In(t, accepted) /\ t \notin refused
  BY DEF Enqueue
<1>c. /\ ~In(t, taskChan)
      /\ outcome[t] = "none"
      /\ \A w \in Worker : job[w] # t
  BY <1>0 DEF IInv, Accountable
<1>1. statusBar[t] = "new"
  BY <1>0, <1>c, StatusOf
<1>2. CASE EnqueueSend(t)
  <2>1. /\ taskChan \in Seq(Task)
        /\ taskChan' = Append(taskChan, t)
        /\ UNCHANGED <<stopCall, job, refused, outcome>>
    BY <1>2 DEF EnqueueSend, IInv, TypeOK
  <2>2. \A u : In(u, taskChan') <=> In(u, taskChan) \/ u = t
    BY <2>1, InAppend
  <2>3. statusBar'[t] = "accepted"
    BY <1>0, <1>c, <2>1, <2>2, StatusOf
  <2>4. \A u \in Task : u # t => statusBar'[u] = statusBar[u]
    BY <2>1, <2>2, StatusOf
  <2>5. Pool!Move(t, statusBar[t], statusBar'[t])
    BY <2>1, <2>4, MoveOne
  <2>6. QED
    BY <1>1, <2>3, <2>5 DEF Pool!Accept
<1>3. CASE EnqueueFull(t)
  <2>1. /\ refused' = refused \cup {t}
        /\ UNCHANGED <<taskChan, stopCall, job, outcome>>
    BY <1>3 DEF EnqueueFull
  <2>2. statusBar'[t] = "refused"
    BY <2>1, StatusOf
  <2>3. \A u \in Task : u # t => statusBar'[u] = statusBar[u]
    BY <2>1, StatusOf DEF In
  <2>4. Pool!Move(t, statusBar[t], statusBar'[t])
    BY <2>1, <2>3, MoveOne
  <2>5. QED
    BY <1>1, <2>2, <2>4 DEF Pool!Refuse
<1>4. QED
  BY <1>2, <1>3 DEF Enqueue

\* A receive is Begin: a worker that is in its select has not exited, so the
\* pool is not down.
LEMMA ReceiveRefines ==
    ASSUME IInv, NEW w \in Worker, WorkerReceive(w)
    PROVE  \E t \in Task : Pool!Begin(t)
<1> DEFINE h == Head(taskChan)
<1>0. /\ taskChan \in Seq(Task)
      /\ taskChan # <<>>
      /\ worker[w] = "select"
      /\ taskChan' = Tail(taskChan)
      /\ job' = [job EXCEPT ![w] = h]
      /\ UNCHANGED <<stopCall, refused, outcome>>
      /\ \A i, j \in 1..Len(taskChan) : taskChan[i] = taskChan[j] => i = j
  BY DEF IInv, TypeOK, SinglePlace, WorkerReceive
<1>a. \A u : In(u, taskChan') <=> In(u, taskChan) /\ u # h
  BY <1>0, InTail
<1>b. h \in Task /\ In(h, taskChan)
  BY <1>0, InTail
<1>c. /\ outcome[h] = "none"
      /\ h \notin refused
      /\ \A v \in Worker : job[v] # h
      /\ job[w] = NoTask
  BY <1>0, <1>b DEF IInv, SinglePlace, TypeOK
<1>d. \A v \in Worker : job'[v] = IF v = w THEN h ELSE job[v]
  BY <1>0 DEF IInv, TypeOK
<1>1. statusBar[h] = "accepted"
  BY <1>b, <1>c, StatusOf
<1>2. statusBar'[h] = "running"
  BY <1>0, <1>b, <1>c, <1>d, StatusOf
<1>3. \A u \in Task : u # h => statusBar'[u] = statusBar[u]
  <2> SUFFICES ASSUME NEW u \in Task, u # h PROVE statusBar'[u] = statusBar[u]
    OBVIOUS
  <2>1. (\E v \in Worker : job'[v] = u) <=> (\E v \in Worker : job[v] = u)
    BY <1>c, <1>d, EventQueueAssumption
  <2>2. QED
    BY <1>0, <1>a, <2>1, StatusOf
<1>4. phaseBar # "down"
  BY <1>0 DEF phaseBar, IInv, TypeOK, StoppedIsQuiet
<1>5. Pool!Begin(h)
  <2>1. Pool!Move(h, statusBar[h], statusBar'[h])
    BY <1>0, <1>b, <1>3, MoveOne
  <2>2. QED
    BY <2>1, <1>1, <1>2, <1>4 DEF Pool!Begin
<1>6. QED
  BY <1>b, <1>5

\* The return of Execute is End.
LEMMA ProcessRefines ==
    ASSUME IInv, NEW w \in Worker, NEW r \in {"ok", "failed"}, ProcessTask(w, r)
    PROVE  \E t \in Task : Pool!End(t)
<1> DEFINE t == job[w]
<1>0. /\ worker[w] = "processing"
      /\ outcome' = [outcome EXCEPT ![t] = r]
      /\ job' = [job EXCEPT ![w] = NoTask]
      /\ UNCHANGED <<taskChan, stopCall, refused>>
  BY DEF ProcessTask
<1>1. t \in Task
  BY <1>0 DEF IInv, TypeOK, SinglePlace
<1>2. /\ ~In(t, taskChan)
      /\ t \notin refused
      /\ outcome[t] = "none"
      /\ \A v \in Worker : job[v] = t => v = w
  BY <1>0, <1>1 DEF IInv, SinglePlace
<1>3. /\ \A u \in Task : outcome'[u] = IF u = t THEN r ELSE outcome[u]
      /\ \A v \in Worker : job'[v] = IF v = w THEN NoTask ELSE job[v]
  BY <1>0, <1>1 DEF IInv, TypeOK
<1>4. statusBar[t] = "running"
  BY <1>1, <1>2, StatusOf
<1>5. statusBar'[t] = "finished"
  BY <1>0, <1>1, <1>2, <1>3, StatusOf
<1>6. \A u \in Task : u # t => statusBar'[u] = statusBar[u]
  <2> SUFFICES ASSUME NEW u \in Task, u # t PROVE statusBar'[u] = statusBar[u]
    OBVIOUS
  <2>1. (\E v \in Worker : job'[v] = u) <=> (\E v \in Worker : job[v] = u)
    BY <1>3, EventQueueAssumption
  <2>2. QED
    BY <1>0, <1>3, <2>1, StatusOf DEF In
<1>7. phaseBar # "down"
  BY <1>0 DEF phaseBar, IInv, TypeOK, StoppedIsQuiet
<1>8. Pool!End(t)
  <2>1. Pool!Move(t, statusBar[t], statusBar'[t])
    BY <1>0, <1>1, <1>6, MoveOne
  <2>2. QED
    BY <2>1, <1>4, <1>5, <1>7 DEF Pool!End
<1>9. QED
  BY <1>1, <1>8

\* Every step of the queue is a step of the abstract pool or leaves it alone.
LEMMA StepRefines == IInv /\ [Next]_vars => [Pool!Next]_(Pool!vars)
<1> SUFFICES ASSUME IInv, [Next]_vars PROVE [Pool!Next]_(Pool!vars)
  OBVIOUS
<1>s. ASSUME UNCHANGED <<refused, outcome, job, taskChan>>
      PROVE  statusBar' = statusBar
  BY <1>s DEF statusBar, In
<1>1. ASSUME NEW t \in Task, Enqueue(t) PROVE Pool!Next
  BY <1>1, EnqueueRefines DEF Pool!Next
<1>2. ASSUME NEW w \in Worker, WorkerReceive(w) PROVE Pool!Next
  BY <1>2, ReceiveRefines DEF Pool!Next
<1>3. ASSUME NEW w \in Worker, NEW r \in {"ok", "failed"}, ProcessTask(w, r)
      PROVE  Pool!Next
  BY <1>3, ProcessRefines DEF Pool!Next
<1>4. ASSUME NEW w \in Worker, WorkerExit(w) PROVE UNCHANGED Pool!vars
  BY <1>4, <1>s DEF WorkerExit, phaseBar, Pool!vars
<1>5. CASE Stop
  <2>1. statusBar' = statusBar /\ stopCall = "none" /\ stopCall' = "waiting"
    BY <1>5, <1>s DEF Stop
  <2>2. Pool!Close
    BY <2>1 DEF Pool!Close, phaseBar
  <2>3. QED
    BY <2>2 DEF Pool!Next
<1>6. CASE StopReturn
  <2>1. /\ statusBar' = statusBar
        /\ stopCall = "waiting"
        /\ stopCall' = "returned"
        /\ \A w \in Worker : worker[w] = "exited"
    BY <1>6, <1>s DEF StopReturn
  <2>2. \A t \in Task : \A w \in Worker : job[w] # t
    BY <2>1, EventQueueAssumption DEF IInv, SinglePlace
  <2>3. \A t \in Task : statusBar[t] # "running"
    BY <2>2, StatusOf
  <2>4. Pool!GoDown
    BY <2>1, <2>3 DEF Pool!GoDown, phaseBar
  <2>5. QED
    BY <2>4 DEF Pool!Next
<1>7. CASE UNCHANGED vars
  BY <1>7, <1>s DEF vars, phaseBar, Pool!vars
<1>8. QED
  BY <1>1, <1>2, <1>3, <1>4, <1>5, <1>6, <1>7 DEF Next, WorkerStep

\* The worker pool of queue.go implements the abstract pool: at most one
\* execution of each task, none after Stop has returned.
THEOREM QueueImplementsPool == Spec => ImplementsPool
<1>1. Init => Pool!Init
  BY EventQueueAssumption DEF Init, Pool!Init, statusBar, phaseBar, In
<1>2. Spec => []IInv
  BY InitIInv, StepIInv, PTL DEF Spec
<1>3. QED
  BY <1>1, <1>2, StepRefines, PTL DEF Spec, ImplementsPool, Pool!Spec
-----------------------------------------------------------------------------
(* The reaction batcher *)

\* Every callback that has begun, and every timer that may begin one, was
\* paid for by an Add.
TimersPaid ==
    \A k \in Key :
        callbacks[k] + (IF timers[k] = "armed" THEN 1 ELSE 0) <= lastAdded

\* What gathers, and what a batch still holds, are reactions of one post in
\* the order of Add, and a batch holds none from before its name.
Batches ==
    /\ \A k \in Key :
         /\ Increasing(items[k])
         /\ \A r \in Reaction :
              In(r, items[k]) => r <= lastAdded /\ PostOf[r] = k
    /\ \A t \in Reaction :
         /\ Increasing(todo[t])
         /\ \A r \in Reaction :
              In(r, todo[t]) => /\ t <= r /\ r <= lastAdded
                                /\ PostOf[r] = PostOf[t]
    /\ \A r \in Reaction : In(r, synced) => r <= lastAdded

\* What gathers for a post is newer than all that was taken of it.
Newer ==
    \A k \in Key : \A r \in Reaction :
        In(r, items[k]) =>
            /\ \A t, s \in Reaction : In(s, todo[t]) /\ PostOf[s] = k => s < r
            /\ \A s \in Reaction : In(s, synced) /\ PostOf[s] = k => s < r

\* Two batches of a post do not interleave (nor share a reaction), and what a
\* batch still holds was not synced.
Apart ==
    /\ \A t, u, r, s \in Reaction :
         /\ t # u
         /\ In(r, todo[t]) /\ In(s, todo[u])
         /\ PostOf[r] = PostOf[s]
         /\ s <= r
         => s < t
    /\ \A t, r \in Reaction : In(r, todo[t]) => ~In(r, synced)
    /\ \A i, j \in 1..Len(synced) : synced[i] = synced[j] => i = j

\* No reaction is forgotten.
Somewhere ==
    \A r \in 1..lastAdded :
        \/ In(r, items[PostOf[r]])
        \/ \E t \in Reaction : In(r, todo[t])
        \/ In(r, synced)

\* A batch that is not synced to its end is in somebody's hands, and its
\* flusher executes it only when the queue has refused it.
InHands ==
    /\ \A t \in Reaction :
         todo[t] # <<>> => t \in handing \/ Executing(t) \/ In(t, taskChan)
    /\ direct \subseteq refused

\* Between two reactions of a post lies the beginning of a batch that was
\* handed over.
CutBetween(r, x) ==
    \E t \in Reaction : /\ r < t /\ t <= x
                        /\ PostOf[t] = PostOf[x]
                        /\ In(t, accepted) \/ t \in refused

\* What is still to be synced may only be overtaken by a later batch.
Overtaken ==
    \A t, r, x \in Reaction :
        In(r, todo[t]) /\ In(x, synced) /\ PostOf[r] = PostOf[x] /\ r < x
            => CutBetween(r, x)

LEMMA BatcherConstants ==
    /\ MaxReaction \in Nat /\ PostOf \in [Reaction -> Key]
    /\ Reaction \subseteq Task
    /\ \A r \in Reaction : r \in Nat /\ r # 0 /\ PostOf[r] \in Key
BY ReactionBatcherAssumption DEF Reaction

\* The batcher only makes the queue take the queue's steps.
LEMMA BatcherUsesQueue == [BatcherNext]_batcherVars => [Next]_vars
<1> SUFFICES ASSUME [BatcherNext]_batcherVars PROVE [Next]_vars
  OBVIOUS
<1>1. ASSUME NEW k \in Key, Add(k) \/ FlushStep(k) \/ FlushAllStep(k)
      PROVE  UNCHANGED vars
  BY <1>1 DEF Add, FlushStep, TimerFires, CallbackFlush, FlushAllStep, queueVars
<1>2. ASSUME NEW t \in Reaction, OnFlush(t)
      PROVE  Next
  BY <1>2, BatcherConstants DEF OnFlush, Next
<1>3. ASSUME NEW t \in Reaction, SyncNext(t) \/ DirectEnd(t)
      PROVE  UNCHANGED vars
  BY <1>3 DEF SyncNext, DirectEnd, queueVars
<1>4. ASSUME NEW w \in Worker, BatchWorkerStep(w)
      PROVE  Next
  BY <1>4 DEF BatchWorkerStep, WorkerStep, Next
<1>5. FlushAllBegin => UNCHANGED vars
  BY DEF FlushAllBegin, queueVars
<1>6. DeactStop \/ DeactEnd => Next
  BY DEF DeactStop, DeactEnd, Next
<1>7. UNCHANGED batcherVars => UNCHANGED vars
  BY DEF batcherVars, queueVars
<1>8. QED
  BY <1>1, <1>2, <1>3, <1>4, <1>5, <1>6, <1>7
     DEF BatcherNext, BatchStep, DeactStep

-----------------------------------------------------------------------------
(* What the steps do *)

LEMMA AddEffect ==
    ASSUME BatcherTypeOK, NEW k \in Key, Add(k)
    PROVE  /\ lastAdded \in Nat
           /\ lastAdded + 1 \in Reaction
           /\ lastAdded' = lastAdded + 1
           /\ PostOf[lastAdded + 1] = k
           /\ items' \in [Key -> Seq(Reaction)]
           /\ items[k] \in Seq(Reaction)
           /\ items'[k] = Append(items[k], lastAdded + 1)
           /\ \A j \in Key : j # k => items'[j] = items[j]
           /\ \A j \in Key : \A q :
                In(q, items'[j]) <=>
                    In(q, items[j]) \/ (j = k /\ q = lastAdded + 1)
           /\ UNCHANGED <<callbacks, handing, direct, todo, deactVars, taken,
                          synced, queueVars>>
<1>1. /\ lastAdded + 1 \in Reaction
      /\ lastAdded' = lastAdded + 1
      /\ PostOf[lastAdded + 1] = k
      /\ items' = [items EXCEPT ![k] = Append(@, lastAdded + 1)]
      /\ UNCHANGED <<callbacks, handing, direct, todo, deactVars, taken,
                     synced, queueVars>>
  BY DEF Add
<1>2. lastAdded \in Nat /\ items \in [Key -> Seq(Reaction)]
  BY BatcherConstants DEF BatcherTypeOK
<1>3. /\ items' \in [Key -> Seq(Reaction)]
      /\ items[k] \in Seq(Reaction)
      /\ items'[k] = Append(items[k], lastAdded + 1)
      /\ \A j \in Key : j # k => items'[j] = items[j]
  BY <1>1, <1>2
<1>4. \A q : In(q, Append(items[k], lastAdded + 1)) <=>
                In(q, items[k]) \/ q = lastAdded + 1
  BY <1>1, <1>3, InAppend
<1>5. QED
  BY <1>1, <1>2, <1>3, <1>4

\* The first of a sequence, and what is in the empty one.
LEMMA InEnds ==
    /\ \A q : ~In(q, <<>>)
    /\ \A s \in Seq(Reaction) :
         s # <<>> => s[1] \in Reaction /\ In(s[1], s) /\ Len(s) \in Nat /\ Len(s) >= 1
<1>1. \A q : ~In(q, <<>>)
  BY DEF In
<1>2. ASSUME NEW s \in Seq(Reaction), s # <<>>
      PROVE  s[1] \in Reaction /\ In(s[1], s) /\ Len(s) \in Nat /\ Len(s) >= 1
  <2>1. Len(s) \in Nat /\ Len(s) >= 1 /\ s[1] \in Reaction
    BY <1>2
  <2>2. QED
    BY <2>1 DEF In
<1>3. QED
  BY <1>1, <1>2

LEMMA TakeEffect ==
    ASSUME BatcherTypeOK, NEW k \in Key, Take(k)
    PROVE  /\ items \in [Key -> Seq(Reaction)] /\ items' \in [Key -> Seq(Reaction)]
           /\ items'[k] = <<>>
           /\ \A j \in Key : j # k => items'[j] = items[j]
           /\ \A j \in Key : \A q : In(q, items'[j]) <=> In(q, items[j]) /\ j # k
           /\ timers' = [timers EXCEPT ![k] = "none"]
           /\ items[k] = <<>> => UNCHANGED <<handing, todo, taken>>
           /\ items[k] # <<>> =>
                /\ items[k][1] \in Reaction /\ In(items[k][1], items[k])
                /\ handing' = handing \cup {items[k][1]}
                /\ todo' = [todo EXCEPT ![items[k][1]] = items[k]]
                /\ taken' = [taken EXCEPT ![k] = @ \o items[k]]
<1>1. items \in [Key -> Seq(Reaction)]
  BY DEF BatcherTypeOK
<1>2. /\ items' = [items EXCEPT ![k] = <<>>]
      /\ timers' = [timers EXCEPT ![k] = "none"]
      /\ items[k] = <<>> => UNCHANGED <<handing, todo, taken>>
      /\ items[k] # <<>> =>
                /\ handing' = handing \cup {items[k][1]}
                /\ todo' = [todo EXCEPT ![items[k][1]] = items[k]]
                /\ taken' = [taken EXCEPT ![k] = @ \o items[k]]
  BY DEF Take
<1>3. /\ items' \in [Key -> Seq(Reaction)]
      /\ items'[k] = <<>>
      /\ \A j \in Key : j # k => items'[j] = items[j]
  BY <1>1, <1>2
<1>4. items[k] # <<>> => items[k][1] \in Reaction /\ In(items[k][1], items[k])
  BY <1>1, InEnds
<1>5. \A j \in Key : \A q : In(q, items'[j]) <=> In(q, items[j]) /\ j # k
  BY <1>3, InEnds
<1>6. QED
  BY <1>1, <1>2, <1>3, <1>4, <1>5

\* The first of an increasing sequence is its least and occurs once; the rest
\* is increasing, and so is what ends in something greater.
LEMMA IncreasingSeq ==
    ASSUME NEW q \in Seq(Reaction), Increasing(q)
    PROVE  /\ \A i, j \in 1..Len(q) : q[i] = q[j] => i = j
           /\ q # <<>> => /\ Head(q) = q[1] /\ Increasing(Tail(q))
                          /\ \A x : In(x, q) => x \in Reaction /\ Head(q) <= x
           /\ \A e \in Reaction :
                (\A x \in Reaction : In(x, q) => x < e) => Increasing(Append(q, e))
<1>0. /\ Len(q) \in Nat
      /\ \A i \in 1..Len(q) : q[i] \in Reaction /\ q[i] \in Nat
  BY BatcherConstants
<1>1. \A i, j \in 1..Len(q) : q[i] = q[j] => i = j
  <2> SUFFICES ASSUME NEW i \in 1..Len(q), NEW j \in 1..Len(q), q[i] = q[j], i # j
               PROVE  FALSE
    OBVIOUS
  <2>1. i < j \/ j < i
    OBVIOUS
  <2>2. QED
    BY <2>1, <1>0 DEF Increasing
<1>2. ASSUME q # <<>>
      PROVE  /\ Head(q) = q[1] /\ Increasing(Tail(q))
             /\ \A x : In(x, q) => x \in Reaction /\ Head(q) <= x
  <2>1. /\ Head(q) = q[1] /\ Len(q) >= 1 /\ Len(Tail(q)) = Len(q) - 1
        /\ \A i \in 1..Len(Tail(q)) : Tail(q)[i] = q[i + 1]
    BY <1>2
  <2>2. Increasing(Tail(q))
    <3> SUFFICES ASSUME NEW i \in 1..Len(Tail(q)), NEW j \in 1..Len(Tail(q)), i < j
                 PROVE  Tail(q)[i] < Tail(q)[j]
      BY DEF Increasing
    <3>1. i + 1 \in 1..Len(q) /\ j + 1 \in 1..Len(q) /\ i + 1 < j + 1
      BY <1>0, <2>1
    <3>2. QED
      BY <3>1, <2>1 DEF Increasing
  <2>3. ASSUME NEW x, In(x, q)  PROVE x \in Reaction /\ Head(q) <= x
    <3>1. PICK i \in 1..Len(q) : q[i] = x
      BY <2>3 DEF In
    <3>2. i = 1 \/ (1 < i /\ 1 \in 1..Len(q))
      BY <2>1, <1>0
    <3>3. q[1] <= q[i]
      BY <3>2, <1>0, <2>1 DEF Increasing
    <3>4. QED
      BY <3>1, <3>3, <2>1, <1>0
  <2>4. QED
    BY <2>1, <2>2, <2>3
<1>3. ASSUME NEW e \in Reaction, \A x \in Reaction : In(x, q) => x < e
      PROVE  Increasing(Append(q, e))
  <2>1. /\ Len(Append(q, e)) = Len(q) + 1
        /\ \A i \in 1..(Len(q) + 1) :
             Append(q, e)[i] = IF i = Len(q) + 1 THEN e ELSE q[i]
    OBVIOUS
  <2>2. \A i \in 1..Len(q) : q[i] < e
    BY <1>3, <1>0 DEF In
  <2>3. QED
    BY <2>1, <2>2, <1>0 DEF Increasing
<1>4. QED
  BY <1>1, <1>2, <1>3

LEMMA SyncEffect ==
    ASSUME BatcherTypeOK, Batches, NEW t \in Reaction, SyncNext(t)
    PROVE  LET h == Head(todo[t]) IN
           /\ todo[t] # <<>> /\ h \in Reaction /\ In(h, todo[t])
           /\ todo[t] \in Seq(Reaction)
           /\ synced \in Seq(Reaction)
           /\ synced' = Append(synced, h)
           /\ todo' \in [Reaction -> Seq(Reaction)]
           /\ todo'[t] = Tail(todo[t]) /\ Increasing(todo'[t])
           /\ \A u \in Reaction : u # t => todo'[u] = todo[u]
           /\ \A u \in Reaction : \A q :
                In(q, todo'[u]) <=> In(q, todo[u]) /\ ~(u = t /\ q = h)
           /\ \A q : In(q, todo[t]) => q \in Reaction /\ h <= q
           /\ \A q : In(q, synced') <=> In(q, synced) \/ q = h
           /\ UNCHANGED <<mapVars, handing, direct, deactVars, lastAdded,
                          taken, queueVars>>
<1> DEFINE h == Head(todo[t])
<1>1. /\ todo[t] # <<>>
      /\ synced' = Append(synced, h)
      /\ todo' = [todo EXCEPT ![t] = Tail(@)]
      /\ UNCHANGED <<mapVars, handing, direct, deactVars, lastAdded, taken,
                     queueVars>>
  BY DEF SyncNext
<1>2. /\ todo \in [Reaction -> Seq(Reaction)]
      /\ todo[t] \in Seq(Reaction) /\ synced \in Seq(Reaction)
  BY DEF BatcherTypeOK
<1>3. Increasing(todo[t])
  BY DEF Batches
<1>4. /\ Increasing(Tail(todo[t]))
      /\ \A q : In(q, todo[t]) => q \in Reaction /\ h <= q
      /\ \A i, j \in 1..Len(todo[t]) : todo[t][i] = todo[t][j] => i = j
  BY <1>1, <1>2, <1>3, IncreasingSeq
<1>5. /\ h \in Reaction /\ In(h, todo[t])
      /\ Tail(todo[t]) \in Seq(Reaction)
      /\ \A q : In(q, Tail(todo[t])) <=> In(q, todo[t]) /\ q # h
  BY <1>1, <1>2, <1>4, InTail
<1>6. /\ todo' \in [Reaction -> Seq(Reaction)]
      /\ todo'[t] = Tail(todo[t])
      /\ \A u \in Reaction : u # t => todo'[u] = todo[u]
  BY <1>1, <1>2, <1>5
<1>7. \A u \in Reaction : \A q :
         In(q, todo'[u]) <=> In(q, todo[u]) /\ ~(u = t /\ q = h)
  BY <1>5, <1>6
<1>8. \A q : In(q, synced') <=> In(q, synced) \/ q = h
  BY <1>1, <1>2, <1>5, InAppend
<1> HIDE DEF h
<1>9. QED
  BY <1>1, <1>2, <1>4, <1>5, <1>6, <1>7, <1>8 DEF h

-----------------------------------------------------------------------------
(* Types and timers *)

\* Adds, timers and flushes keep the types, the count of callbacks and the
\* tie between a batch and its timer.
LEMMA AddTimers ==
    ASSUME BatcherTypeOK, TimersPaid, NoStrandedBatch, NEW k \in Key, Add(k),
           TypeOK'
    PROVE  BatcherTypeOK' /\ TimersPaid' /\ NoStrandedBatch'
<1> USE BatcherConstants
<1>1. timers \in [Key -> {"none", "armed", "fired"}]
  BY DEF BatcherTypeOK
<1>2. /\ timers' \in [Key -> {"none", "armed", "fired"}]
      /\ timers'[k] = IF timers[k] = "none" THEN "armed" ELSE timers[k]
      /\ \A j \in Key : j # k => timers'[j] = timers[j]
  BY <1>1 DEF Add
<1>3. /\ lastAdded \in Nat
      /\ lastAdded' = lastAdded + 1 /\ lastAdded' \in 0..MaxReaction
      /\ items' \in [Key -> Seq(Reaction)]
      /\ items'[k] # <<>>
      /\ \A j \in Key : j # k => items'[j] = items[j]
      /\ UNCHANGED <<callbacks, handing, direct, todo, deact, flushKeys, mine,
                     taken, synced>>
  <2>1. /\ lastAdded \in Nat /\ lastAdded + 1 \in Reaction
        /\ lastAdded' = lastAdded + 1
        /\ items' \in [Key -> Seq(Reaction)]
        /\ items[k] \in Seq(Reaction)
        /\ items'[k] = Append(items[k], lastAdded + 1)
        /\ \A j \in Key : j # k => items'[j] = items[j]
        /\ UNCHANGED <<callbacks, handing, direct, todo, deactVars, taken, synced>>
    BY AddEffect
  <2>2. lastAdded' \in 0..MaxReaction
    BY <2>1 DEF Reaction
  <2>3. items'[k] # <<>>
    <3>1. In(lastAdded + 1, items'[k])
      BY AddEffect
    <3>2. QED
      BY <3>1, InEnds
  <2>4. QED
    BY <2>1, <2>2, <2>3 DEF deactVars
<1>4. BatcherTypeOK'
  BY <1>2, <1>3 DEF BatcherTypeOK
<1>5. TimersPaid'
  <2> SUFFICES ASSUME NEW j \in Key
               PROVE  callbacks'[j] + (IF timers'[j] = "armed" THEN 1 ELSE 0)
                          <= lastAdded'
    BY DEF TimersPaid
  <2>1. /\ callbacks'[j] = callbacks[j] /\ callbacks[j] \in Nat
        /\ callbacks[j] + (IF timers[j] = "armed" THEN 1 ELSE 0) <= lastAdded
    BY <1>3 DEF BatcherTypeOK, TimersPaid
  <2>2. QED
    BY <2>1, <1>3
<1>6. NoStrandedBatch'
  BY <1>1, <1>2, <1>3 DEF NoStrandedBatch
<1>7. QED
  BY <1>4, <1>5, <1>6

LEMMA FireTimers ==
    ASSUME BatcherTypeOK, TimersPaid, NoStrandedBatch, NEW k \in Key,
           TimerFires(k), TypeOK'
    PROVE  BatcherTypeOK' /\ TimersPaid' /\ NoStrandedBatch'
<1> USE BatcherConstants
<1>0. /\ timers \in [Key -> {"none", "armed", "fired"}]
      /\ callbacks \in [Key -> 0..MaxReaction]
      /\ callbacks \in [Key -> Nat]
      /\ lastAdded \in 0..MaxReaction
  BY DEF BatcherTypeOK
<1>1. /\ timers[k] = "armed"
      /\ timers' = [timers EXCEPT ![k] = "fired"]
      /\ callbacks' = [callbacks EXCEPT ![k] = @ + 1]
      /\ UNCHANGED <<items, handing, direct, todo, deact, flushKeys, mine,
                     lastAdded, taken, synced>>
  BY DEF TimerFires, deactVars
<1>2. callbacks[k] + 1 <= lastAdded /\ callbacks[k] \in Nat
  BY <1>1, <1>0 DEF TimersPaid
<1>3. /\ timers' \in [Key -> {"none", "armed", "fired"}]
      /\ callbacks' \in [Key -> 0..MaxReaction]
      /\ timers'[k] = "fired" /\ callbacks'[k] = callbacks[k] + 1
      /\ \A j \in Key : j # k => timers'[j] = timers[j] /\ callbacks'[j] = callbacks[j]
  BY <1>0, <1>1, <1>2
<1>4. BatcherTypeOK'
  BY <1>1, <1>3 DEF BatcherTypeOK
<1>5. TimersPaid'
  BY <1>0, <1>1, <1>2, <1>3 DEF TimersPaid
<1>6. NoStrandedBatch'
  BY <1>0, <1>1, <1>2, <1>3 DEF NoStrandedBatch
<1>7. QED
  BY <1>4, <1>5, <1>6

\* A flush, in the goroutine of a timer or of FlushAll.
LEMMA TakeTimers ==
    ASSUME BatcherTypeOK, TimersPaid, NoStrandedBatch, NEW k \in Key, Take(k),
           \/ /\ callbacks[k] > 0
              /\ callbacks' = [callbacks EXCEPT ![k] = @ - 1]
           \/ UNCHANGED callbacks,
           UNCHANGED <<direct, deact, lastAdded, synced>>,
           flushKeys' \subseteq Key, mine' \in Reaction \cup {0},
           TypeOK'
    PROVE  BatcherTypeOK' /\ TimersPaid' /\ NoStrandedBatch'
<1>0. /\ timers \in [Key -> {"none", "armed", "fired"}]
      /\ callbacks \in [Key -> 0..MaxReaction]
      /\ lastAdded \in 0..MaxReaction
      /\ todo \in [Reaction -> Seq(Reaction)] /\ handing \in SUBSET Reaction
      /\ taken \in [Key -> Seq(Reaction)]
  BY DEF BatcherTypeOK
<1>1. /\ callbacks' \in [Key -> 0..MaxReaction]
      /\ callbacks'[k] <= callbacks[k]
      /\ \A j \in Key : j # k => callbacks'[j] = callbacks[j]
  <2>1. CASE UNCHANGED callbacks
    BY <2>1, <1>0
  <2>2. CASE callbacks[k] > 0 /\ callbacks' = [callbacks EXCEPT ![k] = @ - 1]
    <3>1. callbacks[k] - 1 \in 0..MaxReaction
      BY <2>2, <1>0, BatcherConstants
    <3>2. QED
      BY <2>2, <3>1, <1>0
  <2>3. QED
    BY <2>1, <2>2
<1>2. /\ timers' \in [Key -> {"none", "armed", "fired"}]
      /\ timers'[k] = "none"
      /\ \A j \in Key : j # k => timers'[j] = timers[j]
  <2>1. timers' = [timers EXCEPT ![k] = "none"]
    BY TakeEffect
  <2>2. QED
    BY <2>1, <1>0
<1>3. /\ items \in [Key -> Seq(Reaction)] /\ items' \in [Key -> Seq(Reaction)]
      /\ items'[k] = <<>>
      /\ \A j \in Key : j # k => items'[j] = items[j]
  BY TakeEffect
<1>4. /\ handing' \in SUBSET Reaction
      /\ todo' \in [Reaction -> Seq(Reaction)]
      /\ taken' \in [Key -> Seq(Reaction)]
  <2>1. CASE items[k] = <<>>
    BY <2>1, <1>0, TakeEffect
  <2>2. CASE items[k] # <<>>
    <3>1. /\ items[k][1] \in Reaction /\ items[k] \in Seq(Reaction)
          /\ handing' = handing \cup {items[k][1]}
          /\ todo' = [todo EXCEPT ![items[k][1]] = items[k]]
          /\ taken' = [taken EXCEPT ![k] = @ \o items[k]]
      BY <2>2, <1>3, TakeEffect
    <3>2. taken[k] \o items[k] \in Seq(Reaction)
      BY <3>1, <1>0
    <3>3. QED
      BY <3>1, <3>2, <1>0
  <2>3. QED
    BY <2>1, <2>2
<1>5. BatcherTypeOK'
  BY <1>0, <1>1, <1>2, <1>3, <1>4 DEF BatcherTypeOK
<1>6. TimersPaid'
  <2> SUFFICES ASSUME NEW j \in Key
               PROVE  callbacks'[j] + (IF timers'[j] = "armed" THEN 1 ELSE 0)
                          <= lastAdded'
    BY DEF TimersPaid
  <2>1. /\ callbacks[j] + (IF timers[j] = "armed" THEN 1 ELSE 0) <= lastAdded
        /\ callbacks[j] \in Nat /\ callbacks'[j] \in Nat
    BY <1>0, <1>1 DEF TimersPaid
  <2>2. callbacks'[j] <= callbacks[j]
    BY <2>1, <1>1
  <2>3. (IF timers'[j] = "armed" THEN 1 ELSE 0)
            <= (IF timers[j] = "armed" THEN 1 ELSE 0)
    BY <1>2
  <2>4. lastAdded' = lastAdded /\ lastAdded \in Nat
    BY <1>0
  <2>5. QED
    BY <2>1, <2>2, <2>3, <2>4
<1>7. NoStrandedBatch'
  BY <1>1, <1>2, <1>3 DEF NoStrandedBatch
<1>8. QED
  BY <1>5, <1>6, <1>7

\* The steps that leave the batches alone.
LEMMA OtherTimers ==
    ASSUME BatcherTypeOK, TimersPaid, NoStrandedBatch, TypeOK',
           UNCHANGED <<mapVars, lastAdded, taken>>,
           handing' \subseteq Reaction, direct' \subseteq Reaction,
           todo' \in [Reaction -> Seq(Reaction)],
           deact' \in {"running", "flushing", "stopping", "stopped"},
           flushKeys' \subseteq Key, mine' \in Reaction \cup {0},
           synced' \in Seq(Reaction)
    PROVE  BatcherTypeOK' /\ TimersPaid' /\ NoStrandedBatch'
<1>1. UNCHANGED <<items, timers, callbacks, lastAdded, taken>>
  BY DEF mapVars
<1>2. BatcherTypeOK'
  BY <1>1 DEF BatcherTypeOK
<1>3. TimersPaid' /\ NoStrandedBatch'
  BY <1>1 DEF TimersPaid, NoStrandedBatch
<1>4. QED
  BY <1>2, <1>3

\* Every step of the batcher keeps them.
LEMMA StepTimers ==
    ASSUME BatcherTypeOK, TimersPaid, NoStrandedBatch, Batches, TypeOK',
           [BatcherNext]_batcherVars
    PROVE  BatcherTypeOK' /\ TimersPaid' /\ NoStrandedBatch'
<1>0. /\ items \in [Key -> Seq(Reaction)]
      /\ handing \subseteq Reaction /\ direct \subseteq Reaction
      /\ todo \in [Reaction -> Seq(Reaction)]
      /\ deact \in {"running", "flushing", "stopping", "stopped"}
      /\ flushKeys \subseteq Key /\ mine \in Reaction \cup {0}
      /\ synced \in Seq(Reaction)
  BY DEF BatcherTypeOK
<1>1. ASSUME NEW k \in Key, Add(k)
      PROVE  BatcherTypeOK' /\ TimersPaid' /\ NoStrandedBatch'
  BY <1>1, AddTimers
<1>2. ASSUME NEW k \in Key, TimerFires(k)
      PROVE  BatcherTypeOK' /\ TimersPaid' /\ NoStrandedBatch'
  BY <1>2, FireTimers
<1>3. ASSUME NEW k \in Key, CallbackFlush(k)
      PROVE  BatcherTypeOK' /\ TimersPaid' /\ NoStrandedBatch'
  <2>1. /\ callbacks[k] > 0 /\ callbacks' = [callbacks EXCEPT ![k] = @ - 1]
        /\ Take(k)
        /\ UNCHANGED <<direct, deact, flushKeys, mine, lastAdded, synced>>
    BY <1>3 DEF CallbackFlush, deactVars
  <2>2. flushKeys' \subseteq Key /\ mine' \in Reaction \cup {0}
    BY <2>1, <1>0
  <2>3. QED
    BY <2>1, <2>2, TakeTimers
<1>4. ASSUME NEW k \in Key, FlushAllStep(k)
      PROVE  BatcherTypeOK' /\ TimersPaid' /\ NoStrandedBatch'
  <2>1. /\ Take(k)
        /\ UNCHANGED <<callbacks, direct, deact, lastAdded, synced>>
        /\ flushKeys' = flushKeys \ {k}
        /\ mine' = IF items[k] = <<>> THEN 0 ELSE items[k][1]
    BY <1>4 DEF FlushAllStep
  <2>2. flushKeys' \subseteq Key /\ mine' \in Reaction \cup {0}
    BY <2>1, <1>0, InEnds
  <2>3. QED
    BY <2>1, <2>2, TakeTimers
<1>5. ASSUME NEW t \in Reaction, OnFlush(t)
      PROVE  BatcherTypeOK' /\ TimersPaid' /\ NoStrandedBatch'
  <2>1. /\ handing' = handing \ {t}
        /\ direct' = direct \/ direct' = direct \cup {t}
        /\ mine' = mine \/ mine' = 0
        /\ UNCHANGED <<mapVars, todo, deact, flushKeys, lastAdded, taken, synced>>
    BY <1>5 DEF OnFlush
  <2>2. /\ handing' \subseteq Reaction /\ direct' \subseteq Reaction
        /\ mine' \in Reaction \cup {0}
    BY <2>1, <1>0
  <2>3. QED
    BY <2>1, <2>2, <1>0, OtherTimers
<1>6. ASSUME NEW t \in Reaction, SyncNext(t)
      PROVE  BatcherTypeOK' /\ TimersPaid' /\ NoStrandedBatch'
  <2>1. /\ Head(todo[t]) \in Reaction
        /\ synced' = Append(synced, Head(todo[t]))
        /\ todo' \in [Reaction -> Seq(Reaction)]
        /\ UNCHANGED <<mapVars, handing, direct, deactVars, lastAdded, taken>>
    BY <1>6, SyncEffect
  <2>2. synced' \in Seq(Reaction)
    BY <2>1, <1>0
  <2>3. QED
    BY <2>1, <2>2, <1>0, OtherTimers DEF deactVars
<1>7. ASSUME NEW t \in Reaction, DirectEnd(t)
      PROVE  BatcherTypeOK' /\ TimersPaid' /\ NoStrandedBatch'
  <2>1. /\ direct' = direct \ {t}
        /\ mine' = mine \/ mine' = 0
        /\ UNCHANGED <<mapVars, handing, todo, deact, flushKeys, lastAdded,
                       taken, synced>>
    BY <1>7 DEF DirectEnd
  <2>2. direct' \subseteq Reaction /\ mine' \in Reaction \cup {0}
    BY <2>1, <1>0
  <2>3. QED
    BY <2>1, <2>2, <1>0, OtherTimers
<1>8. ASSUME NEW w \in Worker, BatchWorkerStep(w)
      PROVE  BatcherTypeOK' /\ TimersPaid' /\ NoStrandedBatch'
  <2>1. UNCHANGED <<mapVars, handing, direct, todo, deactVars, lastAdded,
                    taken, synced>>
    BY <1>8 DEF BatchWorkerStep
  <2>2. QED
    BY <2>1, <1>0, OtherTimers DEF deactVars
<1>9. FlushAllBegin => BatcherTypeOK' /\ TimersPaid' /\ NoStrandedBatch'
  BY <1>0, OtherTimers DEF FlushAllBegin
<1>10. DeactStop \/ DeactEnd => BatcherTypeOK' /\ TimersPaid' /\ NoStrandedBatch'
  BY <1>0, OtherTimers DEF DeactStop, DeactEnd
<1>11. UNCHANGED batcherVars => BatcherTypeOK' /\ TimersPaid' /\ NoStrandedBatch'
  BY <1>0, OtherTimers DEF batcherVars, deactVars
<1>12. QED
  BY <1>1, <1>2, <1>3, <1>4, <1>5, <1>6, <1>7, <1>8, <1>9, <1>10, <1>11
     DEF BatcherNext, FlushStep, BatchStep, DeactStep

-----------------------------------------------------------------------------
(* The batches *)

\* The parts of the invariant that speak of what gathers, what is to be
\* synced and what was.
Contents == Batches /\ Newer /\ Apart /\ Somewhere

LEMMA AddContents ==
    ASSUME BatcherTypeOK, Contents, NEW k \in Key, Add(k)
    PROVE  Contents'
<1> DEFINE n == lastAdded + 1
<1>1. /\ lastAdded \in Nat /\ n \in Reaction /\ lastAdded' = n /\ PostOf[n] = k
      /\ items[k] \in Seq(Reaction)
      /\ items'[k] = Append(items[k], n)
      /\ \A j \in Key : j # k => items'[j] = items[j]
      /\ \A j \in Key : \A q :
           In(q, items'[j]) <=> In(q, items[j]) \/ (j = k /\ q = n)
      /\ todo' = todo /\ synced' = synced
  BY AddEffect
<1>2. n \in Nat /\ lastAdded < n
  BY <1>1
<1> HIDE DEF n
<1>3. Batches'
  <2>1. ASSUME NEW j \in Key
        PROVE  /\ Increasing(items'[j])
               /\ \A r \in Reaction :
                    In(r, items'[j]) => r <= lastAdded' /\ PostOf[r] = j
    <3>1. /\ Increasing(items[j])
          /\ \A r \in Reaction : In(r, items[j]) => r <= lastAdded /\ PostOf[r] = j
      BY DEF Contents, Batches
    <3>2. \A r \in Reaction : In(r, items[j]) => r < n
      BY <3>1, <1>1, <1>2, BatcherConstants
    <3>3. Increasing(items'[j])
      <4>1. CASE j = k
        BY <4>1, <3>1, <3>2, <1>1, IncreasingSeq
      <4>2. CASE j # k
        BY <4>2, <3>1, <1>1
      <4>3. QED
        BY <4>1, <4>2
    <3>4. ASSUME NEW r \in Reaction, In(r, items'[j])
          PROVE  r <= lastAdded' /\ PostOf[r] = j
      <4>1. In(r, items[j]) \/ (j = k /\ r = n)
        BY <3>4, <1>1
      <4>2. CASE In(r, items[j])
        BY <4>2, <3>1, <3>2, <1>1, <1>2, BatcherConstants
      <4>3. CASE j = k /\ r = n
        BY <4>3, <1>1, <1>2
      <4>4. QED
        BY <4>1, <4>2, <4>3
    <3>5. QED
      BY <3>3, <3>4
  <2>2. ASSUME NEW t \in Reaction
        PROVE  /\ Increasing(todo'[t])
               /\ \A r \in Reaction :
                    In(r, todo'[t]) => /\ t <= r /\ r <= lastAdded'
                                       /\ PostOf[r] = PostOf[t]
    BY <1>1, <1>2, BatcherConstants DEF Contents, Batches
  <2>3. \A r \in Reaction : In(r, synced') => r <= lastAdded'
    BY <1>1, <1>2, BatcherConstants DEF Contents, Batches
  <2>4. QED
    BY <2>1, <2>2, <2>3 DEF Batches
<1>4. Newer'
  <2> SUFFICES ASSUME NEW j \in Key, NEW r \in Reaction, In(r, items'[j])
               PROVE  /\ \A t, s \in Reaction :
                           In(s, todo'[t]) /\ PostOf[s] = j => s < r
                      /\ \A s \in Reaction :
                           In(s, synced') /\ PostOf[s] = j => s < r
    BY DEF Newer
  <2>1. CASE In(r, items[j])
    BY <2>1, <1>1 DEF Contents, Newer
  <2>2. CASE r = n
    BY <2>2, <1>1, <1>2, BatcherConstants DEF Contents, Batches
  <2>3. QED
    BY <2>1, <2>2, <1>1
<1>5. Apart'
  BY <1>1 DEF Contents, Apart
<1>6. Somewhere'
  <2> SUFFICES ASSUME NEW r \in 1..lastAdded'
               PROVE  \/ In(r, items'[PostOf[r]])
                      \/ \E t \in Reaction : In(r, todo'[t])
                      \/ In(r, synced')
    BY DEF Somewhere
  <2>1. r = n \/ r \in 1..lastAdded
    BY <1>1 DEF n
  <2>2. CASE r = n
    BY <2>2, <1>1
  <2>3. CASE r \in 1..lastAdded
    <3>1. r \in Reaction
      BY <2>3, BatcherConstants DEF BatcherTypeOK, Reaction
    <3>2. PostOf[r] \in Key
      BY <3>1, BatcherConstants
    <3>3. QED
      BY <2>3, <3>2, <1>1 DEF Contents, Somewhere
  <2>4. QED
    BY <2>1, <2>2, <2>3
<1>7. QED
  BY <1>3, <1>4, <1>5, <1>6 DEF Contents

LEMMA TakeContents ==
    ASSUME BatcherTypeOK, Contents, NEW k \in Key, Take(k),
           UNCHANGED <<lastAdded, synced>>
    PROVE  Contents'
<1>1. /\ items \in [Key -> Seq(Reaction)] /\ items' \in [Key -> Seq(Reaction)]
      /\ items'[k] = <<>>
      /\ \A j \in Key : j # k => items'[j] = items[j]
      /\ \A j \in Key : \A q : In(q, items'[j]) <=> In(q, items[j]) /\ j # k
  BY TakeEffect
<1>2. Increasing(<<>>)
  BY DEF Increasing
<1>3. /\ \A j \in Key : Increasing(items'[j])
      /\ \A j \in Key : \A r \in Reaction :
           In(r, items'[j]) => r <= lastAdded' /\ PostOf[r] = j
      /\ \A r \in Reaction : In(r, synced') => r <= lastAdded'
  BY <1>1, <1>2 DEF Contents, Batches
<1>4. CASE items[k] = <<>>
  <2>1. todo' = todo
    BY <1>4, TakeEffect
  <2>2. \A j \in Key : \A q : In(q, items'[j]) <=> In(q, items[j])
    BY <1>4, <1>1, InEnds
  <2>3. Batches'
    BY <1>3, <2>1 DEF Contents, Batches
  <2>4. Newer' /\ Apart'
    BY <2>1, <2>2 DEF Contents, Newer, Apart
  <2>5. Somewhere'
    <3>1. \A r \in 1..lastAdded : PostOf[r] \in Key
      BY BatcherConstants DEF BatcherTypeOK, Reaction
    <3>2. QED
      BY <2>1, <2>2, <3>1 DEF Contents, Somewhere
  <2>6. QED
    BY <2>3, <2>4, <2>5 DEF Contents
<1>5. CASE items[k] # <<>>
  <2> DEFINE b == items[k][1]
  <2>1. /\ b \in Reaction /\ In(b, items[k])
        /\ todo' = [todo EXCEPT ![b] = items[k]]
    BY <1>5, TakeEffect
  <2>2. todo \in [Reaction -> Seq(Reaction)]
    BY DEF BatcherTypeOK
  <2>3. /\ todo'[b] = items[k]
        /\ \A t \in Reaction : t # b => todo'[t] = todo[t]
    BY <2>1, <2>2
  <2>4. /\ Increasing(items[k])
        /\ \A r \in Reaction : In(r, items[k]) => r <= lastAdded /\ PostOf[r] = k
        /\ PostOf[b] = k
    BY <2>1 DEF Contents, Batches
  <2>5. \A r \in Reaction : In(r, items[k]) => b <= r
    BY <1>1, <1>5, <2>4, IncreasingSeq
  <2>6. \A s, t, r \in Reaction :
           In(r, items[k]) /\ In(s, todo[t]) /\ PostOf[s] = k => s < r
    BY DEF Contents, Newer
  <2> HIDE DEF b
  <2>7. Batches'
    <3>1. ASSUME NEW t \in Reaction
          PROVE  /\ Increasing(todo'[t])
                 /\ \A r \in Reaction :
                      In(r, todo'[t]) => /\ t <= r /\ r <= lastAdded'
                                         /\ PostOf[r] = PostOf[t]
      <4>1. CASE t = b
        BY <4>1, <2>3, <2>4, <2>5
      <4>2. CASE t # b
        BY <4>2, <2>3 DEF Contents, Batches
      <4>3. QED
        BY <4>1, <4>2
    <3>2. QED
      BY <3>1, <1>3 DEF Batches
  <2>8. Newer'
    <3> SUFFICES ASSUME NEW j \in Key, NEW r \in Reaction, In(r, items'[j])
                 PROVE  /\ \A t, s \in Reaction :
                             In(s, todo'[t]) /\ PostOf[s] = j => s < r
                        /\ \A s \in Reaction :
                             In(s, synced') /\ PostOf[s] = j => s < r
      BY DEF Newer
    <3>1. In(r, items[j]) /\ j # k
      BY <1>1
    <3>2. \A s \in Reaction : In(s, synced') /\ PostOf[s] = j => s < r
      BY <3>1 DEF Contents, Newer
    <3>3. ASSUME NEW t \in Reaction, NEW s \in Reaction,
                 In(s, todo'[t]), PostOf[s] = j
          PROVE  s < r
      <4>1. t # b
        BY <3>3, <3>1, <2>3, <2>4
      <4>2. QED
        BY <4>1, <3>1, <3>3, <2>3 DEF Contents, Newer
    <3>4. QED
      BY <3>2, <3>3
  <2>9. Apart'
    <3>1. ASSUME NEW t \in Reaction, NEW u \in Reaction, NEW r \in Reaction,
                 NEW s \in Reaction, t # u, In(r, todo'[t]), In(s, todo'[u]),
                 PostOf[r] = PostOf[s], s <= r
          PROVE  s < t
      <4>1. CASE t = b
        <5>1. In(r, items[k]) /\ In(s, todo[u])
          BY <4>1, <3>1, <2>3
        <5>2. PostOf[s] = k
          BY <5>1, <3>1, <2>4
        <5>3. QED
          BY <4>1, <5>1, <5>2, <2>1, <2>6
      <4>2. CASE u = b
        <5>1. In(s, items[k]) /\ In(r, todo[t])
          BY <4>2, <3>1, <2>3
        <5>2. PostOf[r] = k
          BY <5>1, <3>1, <2>4
        <5>3. r < s
          BY <5>1, <5>2, <2>6
        <5>4. QED
          BY <5>3, <3>1, BatcherConstants
      <4>3. CASE t # b /\ u # b
        BY <4>3, <3>1, <2>3 DEF Contents, Apart
      <4>4. QED
        BY <4>1, <4>2, <4>3
    <3>2. ASSUME NEW t \in Reaction, NEW r \in Reaction, In(r, todo'[t])
          PROVE  ~In(r, synced')
      <4>1. CASE t = b
        <5>1. In(r, items[k]) /\ PostOf[r] = k
          BY <4>1, <3>2, <2>3, <2>4
        <5>2. In(r, synced) => r < r
          BY <5>1 DEF Contents, Newer
        <5>3. QED
          BY <5>2, BatcherConstants
      <4>2. CASE t # b
        BY <4>2, <3>2, <2>3 DEF Contents, Apart
      <4>3. QED
        BY <4>1, <4>2
    <3>3. QED
      BY <3>1, <3>2 DEF Apart, Contents
  <2>10. Somewhere'
    <3> SUFFICES ASSUME NEW r \in 1..lastAdded
                 PROVE  \/ In(r, items'[PostOf[r]])
                        \/ \E t \in Reaction : In(r, todo'[t])
                        \/ In(r, synced)
      BY DEF Somewhere
    <3>1. r \in Reaction /\ PostOf[r] \in Key /\ r \in Nat
      BY BatcherConstants DEF BatcherTypeOK, Reaction
    <3>2. CASE In(r, items[PostOf[r]])
      <4>1. CASE PostOf[r] = k
        BY <4>1, <3>2, <2>1, <2>3
      <4>2. CASE PostOf[r] # k
        BY <4>2, <3>1, <3>2, <1>1
      <4>3. QED
        BY <4>1, <4>2
    <3>3. ASSUME NEW t \in Reaction, In(r, todo[t])
          PROVE  In(r, todo'[t])
      <4>1. t # b
        <5> SUFFICES ASSUME t = b  PROVE FALSE
          OBVIOUS
        <5>1. b <= r /\ PostOf[r] = k
          BY <3>1, <3>3, <2>4 DEF Contents, Batches
        <5>2. r < b
          BY <5>1, <3>1, <3>3, <2>1, <2>6
        <5>3. QED
          BY <5>1, <5>2, <3>1, <2>1, BatcherConstants
      <4>2. QED
        BY <4>1, <3>3, <2>3
    <3>4. QED
      BY <3>2, <3>3 DEF Contents, Somewhere
  <2>11. QED
    BY <2>7, <2>8, <2>9, <2>10 DEF Contents
<1>6. QED
  BY <1>4, <1>5

LEMMA SyncContents ==
    ASSUME BatcherTypeOK, Contents, NEW t \in Reaction, SyncNext(t)
    PROVE  Contents'
<1> DEFINE h == Head(todo[t])
<1>0. Batches
  BY DEF Contents
<1>1. /\ h \in Reaction /\ In(h, todo[t])
      /\ todo[t] \in Seq(Reaction) /\ synced \in Seq(Reaction)
      /\ synced' = Append(synced, h)
      /\ Increasing(todo'[t])
      /\ \A u \in Reaction : u # t => todo'[u] = todo[u]
      /\ \A u \in Reaction : \A q :
           In(q, todo'[u]) <=> In(q, todo[u]) /\ ~(u = t /\ q = h)
      /\ \A q : In(q, todo[t]) => q \in Reaction /\ h <= q
      /\ \A q : In(q, synced') <=> In(q, synced) \/ q = h
      /\ UNCHANGED <<mapVars, lastAdded>>
  BY <1>0, SyncEffect
<1>2. items' = items /\ lastAdded' = lastAdded
  BY <1>1 DEF mapVars
<1> HIDE DEF h
<1>3. /\ t <= h /\ h <= lastAdded /\ PostOf[h] = PostOf[t]
      /\ h \in Nat /\ t \in Nat
  BY <1>0, <1>1, BatcherConstants DEF Batches
<1>4. Batches'
  <2>1. ASSUME NEW u \in Reaction
        PROVE  /\ Increasing(todo'[u])
               /\ \A r \in Reaction :
                    In(r, todo'[u]) => /\ u <= r /\ r <= lastAdded'
                                       /\ PostOf[r] = PostOf[u]
    <3>1. Increasing(todo'[u])
      BY <1>0, <1>1 DEF Batches
    <3>2. QED
      BY <3>1, <1>0, <1>1, <1>2 DEF Batches
  <2>2. \A r \in Reaction : In(r, synced') => r <= lastAdded'
    BY <1>0, <1>1, <1>2, <1>3 DEF Batches
  <2>3. QED
    BY <2>1, <2>2, <1>0, <1>2 DEF Batches
<1>5. Newer'
  <2> SUFFICES ASSUME NEW k \in Key, NEW r \in Reaction, In(r, items[k])
               PROVE  /\ \A u, s \in Reaction :
                           In(s, todo'[u]) /\ PostOf[s] = k => s < r
                      /\ \A s \in Reaction :
                           In(s, synced') /\ PostOf[s] = k => s < r
    BY <1>2 DEF Newer
  <2>1. /\ \A u, s \in Reaction : In(s, todo[u]) /\ PostOf[s] = k => s < r
        /\ \A s \in Reaction : In(s, synced) /\ PostOf[s] = k => s < r
    BY DEF Contents, Newer
  <2>2. QED
    BY <2>1, <1>1
<1>6. Apart'
  <2>1. /\ \A u, v, r, s \in Reaction :
             /\ u # v
             /\ In(r, todo[u]) /\ In(s, todo[v])
             /\ PostOf[r] = PostOf[s]
             /\ s <= r
             => s < u
        /\ \A u, r \in Reaction : In(r, todo[u]) => ~In(r, synced)
        /\ \A i, j \in 1..Len(synced) : synced[i] = synced[j] => i = j
    BY DEF Contents, Apart
  <2>2. \A u, v, r, s \in Reaction :
             /\ u # v
             /\ In(r, todo'[u]) /\ In(s, todo'[v])
             /\ PostOf[r] = PostOf[s]
             /\ s <= r
             => s < u
    BY <2>1, <1>1
  <2>3. ASSUME NEW u \in Reaction, NEW r \in Reaction, In(r, todo'[u])
        PROVE  ~In(r, synced')
    <3>1. In(r, todo[u]) /\ ~(u = t /\ r = h)
      BY <2>3, <1>1
    <3>2. r # h
      <4> SUFFICES ASSUME r = h  PROVE FALSE
        OBVIOUS
      <4>1. u # t /\ In(h, todo[u]) /\ h <= h
        BY <3>1, <1>3
      <4>2. h < t
        BY <4>1, <2>1, <1>1
      <4>3. QED
        BY <4>2, <1>3
    <3>3. QED
      BY <3>1, <3>2, <2>1, <1>1
  <2>4. \A i, j \in 1..Len(synced') : synced'[i] = synced'[j] => i = j
    <3>1. \A i \in 1..Len(synced) : synced[i] # h
      BY <2>1, <1>1 DEF In
    <3>2. /\ Len(synced') = Len(synced) + 1
          /\ Len(synced) \in Nat
          /\ \A i \in 1..Len(synced') :
               synced'[i] = IF i = Len(synced) + 1 THEN h ELSE synced[i]
      BY <1>1
    <3>3. QED
      BY <3>1, <3>2, <2>1
  <2>5. QED
    BY <2>2, <2>3, <2>4 DEF Apart
<1>7. Somewhere'
  <2> SUFFICES ASSUME NEW r \in 1..lastAdded
               PROVE  \/ In(r, items[PostOf[r]])
                      \/ \E u \in Reaction : In(r, todo'[u])
                      \/ In(r, synced')
    BY <1>2 DEF Somewhere
  <2>1. \/ In(r, items[PostOf[r]])
        \/ \E u \in Reaction : In(r, todo[u])
        \/ In(r, synced)
    BY DEF Contents, Somewhere
  <2>2. QED
    BY <2>1, <1>1
<1>8. QED
  BY <1>4, <1>5, <1>6, <1>7 DEF Contents

-----------------------------------------------------------------------------
(* The order of the calls *)

\* Who executes a batch was handed it.
LEMMA ExecutorWasHanded ==
    ASSUME IInv, InHands, NEW t \in Reaction, Executing(t)
    PROVE  In(t, accepted) \/ t \in refused
<1>1. t \in direct => t \in refused
  BY DEF InHands
<1>2. ASSUME NEW w \in Worker, job[w] = t
      PROVE  In(t, accepted)
  BY <1>2, BatcherConstants DEF IInv, Accountable
<1>3. QED
  BY <1>1, <1>2 DEF Executing

\* Nothing that was handed over is taken back.
LEMMA HandedKept ==
    ASSUME IInv, [BatcherNext]_batcherVars
    PROVE  \A r, x : CutBetween(r, x) => CutBetween(r, x)'
<1>1. [Next]_vars
  BY BatcherUsesQueue
<1>2. /\ \A t : In(t, accepted) => In(t, accepted')
      /\ refused \subseteq refused'
  <2>1. ASSUME NEW t \in Task, EnqueueSend(t)
        PROVE  /\ \A u : In(u, accepted) => In(u, accepted')
               /\ refused \subseteq refused'
    <3>1. /\ accepted \in Seq(Task) /\ accepted' = Append(accepted, t)
          /\ refused' = refused
      BY <2>1 DEF EnqueueSend, IInv, TypeOK
    <3>2. QED
      BY <3>1, InAppend
  <2>2. ASSUME NEW t \in Task, EnqueueFull(t)
        PROVE  accepted' = accepted /\ refused' = refused \cup {t}
    BY <2>2 DEF EnqueueFull
  <2>3. ASSUME NEW w \in Worker, WorkerStep(w)
        PROVE  accepted' = accepted /\ refused' = refused
    BY <2>3 DEF WorkerStep, WorkerReceive, ProcessTask, WorkerExit
  <2>4. Stop \/ StopReturn \/ UNCHANGED vars
            => accepted' = accepted /\ refused' = refused
    BY DEF Stop, StopReturn, vars
  <2>5. QED
    BY <2>1, <2>2, <2>3, <2>4, <1>1 DEF Next, Enqueue
<1>3. QED
  BY <1>2 DEF CutBetween

LEMMA SyncOrder ==
    ASSUME IInv, BatcherTypeOK, Contents, InHands, Overtaken, BatchOrderKept,
           NEW t \in Reaction, SyncNext(t)
    PROVE  Overtaken' /\ BatchOrderKept'
<1> DEFINE h == Head(todo[t])
<1>0. Batches
  BY DEF Contents
<1>1. /\ h \in Reaction /\ In(h, todo[t])
      /\ synced \in Seq(Reaction)
      /\ synced' = Append(synced, h)
      /\ \A u \in Reaction : \A q :
           In(q, todo'[u]) <=> In(q, todo[u]) /\ ~(u = t /\ q = h)
      /\ \A q : In(q, todo[t]) => q \in Reaction /\ h <= q
      /\ \A q : In(q, synced') <=> In(q, synced) \/ q = h
      /\ UNCHANGED queueVars
  BY <1>0, SyncEffect
<1>2. /\ t <= h /\ PostOf[h] = PostOf[t] /\ h \in Nat /\ t \in Nat
      /\ accepted' = accepted /\ refused' = refused
      /\ In(t, accepted) \/ t \in refused
  <2>1. Executing(t)
    BY DEF SyncNext
  <2>2. In(t, accepted) \/ t \in refused
    BY <2>1, ExecutorWasHanded
  <2>3. accepted' = accepted /\ refused' = refused
    BY <1>1 DEF queueVars, vars
  <2>4. QED
    BY <2>2, <2>3, <1>0, <1>1, BatcherConstants DEF Batches
<1> HIDE DEF h
<1>3. Overtaken'
  <2> SUFFICES ASSUME NEW u \in Reaction, NEW r \in Reaction, NEW x \in Reaction,
                      In(r, todo'[u]), In(x, synced'),
                      PostOf[r] = PostOf[x], r < x
               PROVE  CutBetween(r, x)
    BY <1>2 DEF Overtaken, CutBetween
  <2>1. In(r, todo[u]) /\ ~(u = t /\ r = h)
    BY <1>1
  <2>2. CASE In(x, synced)
    BY <2>1, <2>2 DEF Overtaken
  <2>3. CASE x = h
    <3>1. u # t
      <4> SUFFICES ASSUME u = t  PROVE FALSE
        OBVIOUS
      <4>1. h <= r
        BY <2>1, <1>1
      <4>2. QED
        BY <4>1, <2>3, BatcherConstants
    <3>2. r <= h
      BY <2>3, BatcherConstants
    <3>3. r < t
      BY <2>1, <2>3, <3>1, <3>2, <1>1 DEF Contents, Apart
    <3>4. QED
      BY <3>3, <2>3, <1>2 DEF CutBetween
  <2>4. QED
    BY <2>2, <2>3, <1>1
<1>4. BatchOrderKept'
  <2>1. /\ Len(synced) \in Nat /\ Len(synced') = Len(synced) + 1
        /\ \A i \in 1..Len(synced') :
             synced'[i] = IF i = Len(synced) + 1 THEN h ELSE synced[i]
        /\ \A i \in 1..Len(synced) : synced[i] \in Reaction
    BY <1>1
  <2> SUFFICES ASSUME NEW i \in 1..Len(synced'), NEW j \in 1..Len(synced'),
                      PostOf[synced'[i]] = PostOf[synced'[j]],
                      synced'[j] < synced'[i], i < j
               PROVE  CutBetween(synced'[j], synced'[i])
    BY <1>2 DEF BatchOrderKept, CutBetween
  <2>2. i \in 1..Len(synced) /\ synced'[i] = synced[i]
    BY <2>1
  <2>3. CASE j \in 1..Len(synced)
    <3>1. synced'[j] = synced[j]
      BY <2>1, <2>3
    <3>2. PostOf[synced[i]] \in Key
      BY <2>1, <2>2, BatcherConstants
    <3>3. QED
      BY <2>2, <2>3, <3>1, <3>2 DEF BatchOrderKept, CutBetween
  <2>4. CASE j = Len(synced) + 1
    <3>1. synced'[j] = h
      BY <2>1, <2>4
    <3>2. synced[i] \in Reaction /\ In(synced[i], synced)
      BY <2>1, <2>2 DEF In
    <3>3. QED
      BY <3>1, <3>2, <2>2, <1>1 DEF Overtaken
  <2>5. QED
    BY <2>3, <2>4, <2>1
<1>5. QED
  BY <1>3, <1>4

-----------------------------------------------------------------------------
(* The partition *)

LEMMA AddPartition ==
    ASSUME BatcherTypeOK, BatchesPartition, NEW k \in Key, Add(k)
    PROVE  BatchesPartition'
<1> DEFINE n == lastAdded + 1
<1>1. /\ lastAdded \in Nat /\ n \in Reaction /\ lastAdded' = n /\ PostOf[n] = k
      /\ items[k] \in Seq(Reaction)
      /\ items'[k] = Append(items[k], n)
      /\ \A j \in Key : j # k => items'[j] = items[j]
      /\ taken' = taken
  BY AddEffect
<1>2. n \in Nat /\ \A r \in Reaction : r <= n <=> r <= lastAdded \/ r = n
  BY <1>1, BatcherConstants
<1>3. taken[k] \in Seq(Reaction)
  BY DEF BatcherTypeOK
<1> HIDE DEF n
<1>4. \A j \in Key :
        /\ Increasing(taken[j] \o items[j])
        /\ \A r \in Reaction :
             In(r, taken[j] \o items[j]) <=> r <= lastAdded /\ PostOf[r] = j
  BY DEF BatchesPartition
<1> SUFFICES ASSUME NEW j \in Key
             PROVE  /\ Increasing(taken[j] \o items'[j])
                    /\ \A r \in Reaction :
                         In(r, taken[j] \o items'[j])
                             <=> r <= lastAdded' /\ PostOf[r] = j
  BY <1>1 DEF BatchesPartition
<1>5. CASE j # k
  BY <1>1, <1>2, <1>4, <1>5
<1>6. CASE j = k
  <2> DEFINE q == taken[k] \o items[k]
  <2>1. q \in Seq(Reaction)
    BY <1>1, <1>3
  <2>2. taken[k] \o items'[k] = Append(q, n)
    <3>1. \A x, y \in Seq(Reaction) : \A e \in Reaction :
             x \o Append(y, e) = Append(x \o y, e)
      OBVIOUS
    <3>2. taken[k] \in Seq(Reaction) /\ items[k] \in Seq(Reaction) /\ n \in Reaction
      BY <1>1, <1>3
    <3>3. taken[k] \o Append(items[k], n) = Append(taken[k] \o items[k], n)
      BY ONLY <3>1, <3>2
    <3>4. QED
      BY <3>3, <1>1
  <2>3. Increasing(q) /\ \A r \in Reaction : In(r, q) <=> r <= lastAdded /\ PostOf[r] = k
    BY <1>4
  <2> HIDE DEF q
  <2>4. \A r \in Reaction : In(r, q) => r < n
    BY <2>3, <1>1, BatcherConstants DEF n
  <2>5. Increasing(Append(q, n))
    BY <2>1, <2>3, <2>4, <1>1, IncreasingSeq
  <2>6. \A r : In(r, Append(q, n)) <=> In(r, q) \/ r = n
    BY <2>1, <1>1, InAppend
  <2>7. QED
    BY <1>1, <1>2, <1>6, <2>2, <2>3, <2>5, <2>6
<1>7. QED
  BY <1>5, <1>6

LEMMA TakePartition ==
    ASSUME BatcherTypeOK, BatchesPartition, NEW k \in Key, Take(k),
           UNCHANGED lastAdded
    PROVE  BatchesPartition'
<1>1. /\ items[k] \in Seq(Reaction) /\ taken \in [Key -> Seq(Reaction)]
      /\ items'[k] = <<>>
      /\ \A j \in Key : j # k => items'[j] = items[j]
  BY TakeEffect DEF BatcherTypeOK
<1>2. \A j \in Key : taken'[j] \o items'[j] = taken[j] \o items[j]
  <2>1. CASE items[k] = <<>>
    BY <2>1, <1>1, TakeEffect
  <2>2. CASE items[k] # <<>>
    <3>1. taken' = [taken EXCEPT ![k] = @ \o items[k]]
      BY <2>2, TakeEffect
    <3>2. taken[k] \o items[k] \in Seq(Reaction)
      BY <1>1
    <3>3. \A q \in Seq(Reaction) : q \o <<>> = q
      OBVIOUS
    <3>4. taken'[k] \o items'[k] = taken[k] \o items[k]
      BY <3>1, <3>2, <3>3, <1>1
    <3>5. QED
      BY <3>1, <3>4, <1>1
  <2>3. QED
    BY <2>1, <2>2
<1>3. QED
  BY <1>2 DEF BatchesPartition

-----------------------------------------------------------------------------
(* In whose hands a batch is *)

LEMMA TakeInHands ==
    ASSUME BatcherTypeOK, InHands, NEW k \in Key, Take(k),
           UNCHANGED <<direct, queueVars>>
    PROVE  InHands'
<1>1. /\ UNCHANGED <<direct, job, taskChan, refused>>
      /\ todo \in [Reaction -> Seq(Reaction)]
  BY DEF queueVars, vars, BatcherTypeOK
<1>2. handing \subseteq handing'
  BY TakeEffect
<1>3. ASSUME NEW t \in Reaction, todo'[t] # <<>>
      PROVE  t \in handing' \/ todo[t] # <<>>
  <2>1. CASE items[k] = <<>>
    BY <2>1, <1>3, TakeEffect
  <2>2. CASE items[k] # <<>>
    <3>1. /\ handing' = handing \cup {items[k][1]}
          /\ todo' = [todo EXCEPT ![items[k][1]] = items[k]]
      BY <2>2, TakeEffect
    <3>2. QED
      BY <3>1, <1>1, <1>3
  <2>3. QED
    BY <2>1, <2>2
<1>4. QED
  BY <1>1, <1>2, <1>3 DEF InHands, Executing

LEMMA OnFlushInHands ==
    ASSUME IInv, InHands, NEW t \in Reaction, OnFlush(t)
    PROVE  InHands'
<1>1. /\ handing' = handing \ {t}
      /\ EnqueueSend(t) \/ EnqueueFull(t)
      /\ \/ taskChan' # taskChan /\ direct' = direct
         \/ taskChan' = taskChan /\ direct' = direct \cup {t}
      /\ todo' = todo
  BY DEF OnFlush, Enqueue
<1>2. taskChan \in Seq(Task) /\ t \in Task
  BY BatcherConstants DEF IInv, TypeOK
<1>3. CASE EnqueueSend(t)
  <2>1. /\ taskChan' = Append(taskChan, t)
        /\ job' = job /\ refused' = refused
    BY <1>3 DEF EnqueueSend
  <2>2. \A u : In(u, taskChan') <=> In(u, taskChan) \/ u = t
    BY <2>1, <1>2, InAppend
  <2>3. taskChan' # taskChan
    <3>1. Len(taskChan') = Len(taskChan) + 1 /\ Len(taskChan) \in Nat
      BY <2>1, <1>2
    <3>2. QED
      BY <3>1
  <2>4. QED
    BY <2>1, <2>2, <2>3, <1>1 DEF InHands, Executing
<1>4. CASE EnqueueFull(t)
  <2>1. /\ taskChan' = taskChan /\ job' = job
        /\ refused' = refused \cup {t}
    BY <1>4 DEF EnqueueFull
  <2>2. direct' = direct \cup {t}
    BY <2>1, <1>1
  <2>3. QED
    BY <2>1, <2>2, <1>1 DEF InHands, Executing
<1>5. QED
  BY <1>1, <1>3, <1>4

LEMMA WorkerInHands ==
    ASSUME IInv, InHands, NEW w \in Worker, BatchWorkerStep(w)
    PROVE  InHands'
<1>1. UNCHANGED <<handing, direct, todo>>
  BY DEF BatchWorkerStep
<1>2. /\ job \in [Worker -> Task \cup {NoTask}] /\ taskChan \in Seq(Task)
      /\ \A i, j \in 1..Len(taskChan) : taskChan[i] = taskChan[j] => i = j
      /\ \A v \in Worker : worker[v] = "processing" <=> job[v] # NoTask
      /\ \A t \in Reaction : t # NoTask
  BY EventQueueAssumption, BatcherConstants DEF IInv, TypeOK, SinglePlace
<1>3. CASE WorkerReceive(w)
  <2>1. /\ taskChan # <<>> /\ taskChan' = Tail(taskChan)
        /\ job' = [job EXCEPT ![w] = Head(taskChan)]
        /\ job[w] = NoTask /\ refused' = refused
    BY <1>2, <1>3 DEF WorkerReceive
  <2>2. \A t : In(t, Tail(taskChan)) <=> In(t, taskChan) /\ t # Head(taskChan)
    BY <1>2, <2>1, InTail
  <2>3. job'[w] = Head(taskChan) /\ \A v \in Worker : v # w => job'[v] = job[v]
    BY <1>2, <2>1
  <2>4. \A t \in Reaction : In(t, taskChan) => In(t, taskChan') \/ job'[w] = t
    BY <2>1, <2>2, <2>3
  <2>5. \A t \in Reaction : \A v \in Worker : job[v] = t => job'[v] = t
    BY <1>2, <2>1, <2>3
  <2>6. QED
    BY <1>1, <2>1, <2>4, <2>5 DEF InHands, Executing
<1>4. CASE worker[w] = "processing" /\ todo[job[w]] = <<>> /\ ProcessTask(w, "ok")
  <2>1. /\ job' = [job EXCEPT ![w] = NoTask]
        /\ taskChan' = taskChan /\ refused' = refused
    BY <1>4 DEF ProcessTask
  <2>2. \A t \in Reaction : \A v \in Worker :
           job[v] = t /\ todo[t] # <<>> => job'[v] = t
    BY <1>2, <1>4, <2>1
  <2>3. QED
    BY <1>1, <2>1, <2>2 DEF InHands, Executing
<1>5. CASE WorkerExit(w)
  BY <1>1, <1>5 DEF WorkerExit, InHands, Executing
<1>6. QED
  BY <1>3, <1>4, <1>5 DEF BatchWorkerStep

-----------------------------------------------------------------------------
(* Every step *)

\* A step adds to a batch, takes one, syncs a reaction, or touches none.
LEMMA StepKinds ==
    ASSUME [BatcherNext]_batcherVars
    PROVE  \/ \E k \in Key : Add(k)
           \/ \E k \in Key : /\ Take(k)
                             /\ UNCHANGED <<direct, lastAdded, synced, queueVars>>
           \/ \E t \in Reaction : SyncNext(t)
           \/ /\ UNCHANGED <<items, todo, lastAdded, taken, synced>>
              /\ \/ \E t \in Reaction : OnFlush(t) \/ DirectEnd(t)
                 \/ \E w \in Worker : BatchWorkerStep(w)
                 \/ UNCHANGED <<handing, direct, taskChan, job, refused>>
<1>1. ASSUME NEW k \in Key, TimerFires(k)
      PROVE  UNCHANGED <<items, todo, lastAdded, taken, synced,
                         handing, direct, taskChan, job, refused>>
  BY <1>1 DEF TimerFires, queueVars, vars
<1>2. ASSUME NEW k \in Key, CallbackFlush(k) \/ FlushAllStep(k)
      PROVE  Take(k) /\ UNCHANGED <<direct, lastAdded, synced, queueVars>>
  BY <1>2 DEF CallbackFlush, FlushAllStep
<1>3. ASSUME NEW t \in Reaction, OnFlush(t) \/ DirectEnd(t)
      PROVE  UNCHANGED <<items, todo, lastAdded, taken, synced>>
  BY <1>3 DEF OnFlush, DirectEnd, mapVars
<1>4. ASSUME NEW w \in Worker, BatchWorkerStep(w)
      PROVE  UNCHANGED <<items, todo, lastAdded, taken, synced>>
  BY <1>4 DEF BatchWorkerStep, mapVars
<1>5. FlushAllBegin \/ DeactStop \/ DeactEnd \/ UNCHANGED batcherVars
        => UNCHANGED <<items, todo, lastAdded, taken, synced,
                       handing, direct, taskChan, job, refused>>
  BY DEF FlushAllBegin, DeactStop, DeactEnd, Stop, StopReturn, batcherVars,
         mapVars, queueVars, vars
<1>6. QED
  BY <1>1, <1>2, <1>3, <1>4, <1>5
     DEF BatcherNext, FlushStep, BatchStep, DeactStep

LEMMA StepContents ==
    ASSUME BatcherTypeOK, Contents, BatchesPartition, [BatcherNext]_batcherVars
    PROVE  Contents' /\ BatchesPartition'
<1>1. ASSUME NEW k \in Key, Add(k)
      PROVE  Contents' /\ BatchesPartition'
  BY <1>1, AddContents, AddPartition
<1>2. ASSUME NEW k \in Key, Take(k), UNCHANGED <<lastAdded, synced>>
      PROVE  Contents' /\ BatchesPartition'
  BY <1>2, TakeContents, TakePartition
<1>3. ASSUME NEW t \in Reaction, SyncNext(t)
      PROVE  Contents' /\ BatchesPartition'
  <2>1. UNCHANGED <<items, taken, lastAdded>>
    BY <1>3 DEF SyncNext, mapVars
  <2>2. BatchesPartition'
    BY <2>1 DEF BatchesPartition
  <2>3. QED
    BY <2>2, <1>3, SyncContents
<1>4. ASSUME UNCHANGED <<items, todo, lastAdded, taken, synced>>
      PROVE  Contents' /\ BatchesPartition'
  BY <1>4 DEF Contents, Batches, Newer, Apart, Somewhere, BatchesPartition
<1>5. QED
  BY <1>1, <1>2, <1>3, <1>4, StepKinds

LEMMA StepInHands ==
    ASSUME IInv, BatcherTypeOK, Batches, InHands, [BatcherNext]_batcherVars
    PROVE  InHands'
<1>1. ASSUME NEW k \in Key, Add(k)
      PROVE  InHands'
  BY <1>1 DEF Add, queueVars, vars, InHands, Executing
<1>2. ASSUME NEW k \in Key, Take(k), UNCHANGED <<direct, queueVars>>
      PROVE  InHands'
  BY <1>2, TakeInHands
<1>3. ASSUME NEW t \in Reaction, SyncNext(t)
      PROVE  InHands'
  <2>1. /\ todo[t] # <<>>
        /\ \A u \in Reaction : u # t => todo'[u] = todo[u]
        /\ UNCHANGED <<handing, direct, queueVars>>
    BY <1>3, SyncEffect
  <2>2. QED
    BY <2>1 DEF InHands, Executing, queueVars, vars
<1>4. ASSUME NEW t \in Reaction, OnFlush(t)
      PROVE  InHands'
  BY <1>4, OnFlushInHands
<1>5. ASSUME NEW t \in Reaction, DirectEnd(t)
      PROVE  InHands'
  BY <1>5 DEF DirectEnd, InHands, Executing, queueVars, vars
<1>6. ASSUME NEW w \in Worker, BatchWorkerStep(w)
      PROVE  InHands'
  BY <1>6, WorkerInHands
<1>7. ASSUME UNCHANGED <<todo, handing, direct, taskChan, job, refused>>
      PROVE  InHands'
  BY <1>7 DEF InHands, Executing
<1>8. QED
  BY <1>1, <1>2, <1>3, <1>4, <1>5, <1>6, <1>7, StepKinds

LEMMA StepOrder ==
    ASSUME IInv, BatcherTypeOK, Contents, InHands, Overtaken, BatchOrderKept,
           [BatcherNext]_batcherVars
    PROVE  Overtaken' /\ BatchOrderKept'
<1>1. \A r, x : CutBetween(r, x) => CutBetween(r, x)'
  BY HandedKept
<1>2. ASSUME UNCHANGED synced
      PROVE  BatchOrderKept'
  <2> SUFFICES ASSUME NEW k \in Key,
                      NEW i \in 1..Len(synced), NEW j \in 1..Len(synced),
                      PostOf[synced[i]] = k, PostOf[synced[j]] = k,
                      synced[j] < synced[i], i < j
               PROVE  CutBetween(synced[j], synced[i])'
    BY <1>2 DEF BatchOrderKept, CutBetween
  <2>1. CutBetween(synced[j], synced[i])
    BY DEF BatchOrderKept, CutBetween
  <2>2. QED
    BY <2>1, <1>1, <1>2
<1>3. ASSUME UNCHANGED <<todo, synced>>
      PROVE  Overtaken'
  BY <1>1, <1>3 DEF Overtaken
<1>4. ASSUME NEW k \in Key, Add(k)
      PROVE  Overtaken' /\ BatchOrderKept'
  <2>1. UNCHANGED <<todo, synced>>
    BY <1>4 DEF Add
  <2>2. QED
    BY <2>1, <1>2, <1>3
<1>5. ASSUME NEW k \in Key, Take(k), UNCHANGED synced
      PROVE  Overtaken'
  <2> SUFFICES ASSUME NEW t \in Reaction, NEW r \in Reaction, NEW x \in Reaction,
                      In(r, todo'[t]), In(x, synced),
                      PostOf[r] = PostOf[x], r < x
               PROVE  CutBetween(r, x)'
    BY <1>5 DEF Overtaken
  <2>1. CASE In(r, todo[t])
    BY <2>1, <1>1 DEF Overtaken
  <2>2. CASE ~In(r, todo[t])
    <3>1. items[k] # <<>> /\ todo \in [Reaction -> Seq(Reaction)]
      BY <2>2, <1>5, TakeEffect DEF BatcherTypeOK
    <3>2. todo' = [todo EXCEPT ![items[k][1]] = items[k]]
      BY <3>1, <1>5, TakeEffect
    <3>3. In(r, items[k])
      BY <2>2, <3>1, <3>2
    <3>4. PostOf[x] = k
      BY <3>3 DEF Contents, Batches
    <3>5. x < r
      BY <3>3, <3>4 DEF Contents, Newer
    <3>6. QED
      BY <3>5, BatcherConstants
  <2>3. QED
    BY <2>1, <2>2
<1>6. ASSUME NEW t \in Reaction, SyncNext(t)
      PROVE  Overtaken' /\ BatchOrderKept'
  BY <1>6, SyncOrder
<1>7. QED
  BY <1>2, <1>3, <1>4, <1>5, <1>6, StepKinds


-----------------------------------------------------------------------------
(* The theorems *)

BatcherInv == /\ IInv
              /\ BatcherTypeOK
              /\ TimersPaid
              /\ NoStrandedBatch
              /\ BatchesPartition
              /\ Contents
              /\ InHands
              /\ Overtaken
              /\ BatchOrderKept

LEMMA BatcherInitInv == BatcherInit => BatcherInv
<1> SUFFICES ASSUME BatcherInit PROVE BatcherInv
  OBVIOUS
<1>1. /\ Init
      /\ items = [k \in Key |-> <<>>]
      /\ timers = [k \in Key |-> "none"]
      /\ callbacks = [k \in Key |-> 0]
      /\ handing = {} /\ direct = {}
      /\ todo = [t \in Reaction |-> <<>>]
      /\ deact = "running" /\ flushKeys = {} /\ mine = 0 /\ lastAdded = 0
      /\ taken = [k \in Key |-> <<>>]
      /\ synced = <<>>
  BY DEF BatcherInit
<1>2. IInv /\ TypeOK
  BY <1>1, InitIInv DEF IInv
<1>3. BatcherTypeOK
  BY <1>1, <1>2, BatcherConstants DEF BatcherTypeOK
<1>4. TimersPaid /\ NoStrandedBatch
  BY <1>1 DEF TimersPaid, NoStrandedBatch
<1>5. \A k \in Key : taken[k] \o items[k] = <<>>
  BY <1>1
<1>6. BatchesPartition
  BY <1>1, <1>5, InEnds, BatcherConstants DEF BatchesPartition, Increasing
<1>7. Contents
  BY <1>1, InEnds DEF Contents, Batches, Newer, Apart, Somewhere, Increasing
<1>8. InHands
  BY <1>1 DEF InHands
<1>9. Overtaken /\ BatchOrderKept
  BY <1>1, InEnds DEF Overtaken, BatchOrderKept
<1>10. QED
  BY <1>2, <1>3, <1>4, <1>6, <1>7, <1>8, <1>9 DEF BatcherInv

LEMMA BatcherStepInv == BatcherInv /\ [BatcherNext]_batcherVars => BatcherInv'
<1> SUFFICES ASSUME BatcherInv, [BatcherNext]_batcherVars PROVE BatcherInv'
  OBVIOUS
<1>1. /\ IInv /\ BatcherTypeOK /\ TimersPaid /\ NoStrandedBatch
      /\ BatchesPartition /\ Contents /\ Batches /\ InHands
      /\ Overtaken /\ BatchOrderKept
  BY DEF BatcherInv, Contents
<1>2. IInv' /\ TypeOK'
  BY <1>1, BatcherUsesQueue, StepIInv DEF IInv
<1>3. BatcherTypeOK' /\ TimersPaid' /\ NoStrandedBatch'
  BY <1>1, <1>2, StepTimers
<1>4. Contents' /\ BatchesPartition'
  BY <1>1, StepContents
<1>5. InHands'
  BY <1>1, StepInHands
<1>6. Overtaken' /\ BatchOrderKept'
  BY <1>1, StepOrder
<1>7. QED
  BY <1>2, <1>3, <1>4, <1>5, <1>6 DEF BatcherInv

LEMMA BatcherInvAlways == BatcherSpec => []BatcherInv
<1>1. QED
  BY BatcherInitInv, BatcherStepInv, PTL DEF BatcherSpec

\* Each reaction added is in one place.
LEMMA EachInOnePlace == BatcherTypeOK /\ Contents /\ InHands => EachOnce
<1> SUFFICES ASSUME BatcherTypeOK, Contents, InHands PROVE EachOnce
  OBVIOUS
<1>1. ASSUME NEW r \in 1..lastAdded
      PROVE  Cardinality({k \in Key : In(r, items[k])})
                 + Cardinality({t \in Reaction : In(r, todo[t])})
                 = IF In(r, synced) THEN 0 ELSE 1
  <2> DEFINE G == {k \in Key : In(r, items[k])}
             B == {t \in Reaction : In(r, todo[t])}
  <2>0. r \in Reaction /\ PostOf[r] \in Key /\ r \in Nat
    BY BatcherConstants DEF BatcherTypeOK, Reaction
  <2>1. /\ G \subseteq {PostOf[r]}
        /\ \A t \in B : PostOf[r] = PostOf[t] /\ t <= r
    BY <2>0 DEF Contents, Batches
  <2>2. \A t, u \in B : t = u
    <3> SUFFICES ASSUME NEW t \in B, NEW u \in B, t # u  PROVE FALSE
      OBVIOUS
    <3>1. r < t
      BY <2>0 DEF Contents, Apart
    <3>2. QED
      BY <3>1, <2>0, <2>1, BatcherConstants
  <2>3. G # {} => B = {} /\ ~In(r, synced)
    <3> SUFFICES ASSUME NEW k \in G
                 PROVE  B = {} /\ ~In(r, synced)
      OBVIOUS
    <3>1. PostOf[r] = k /\ k \in Key /\ In(r, items[k])
      BY <2>1
    <3>2. /\ \A t \in Reaction : In(r, todo[t]) => r < r
          /\ In(r, synced) => r < r
      BY <3>1, <2>0 DEF Contents, Newer
    <3>3. ~(r < r)
      BY <2>0
    <3>4. QED
      BY <3>2, <3>3
  <2>4. B # {} => ~In(r, synced)
    BY <2>0 DEF Contents, Apart
  <2>5. In(r, synced) \/ G # {} \/ B # {}
    BY <2>0 DEF Contents, Somewhere
  <2>6. Cardinality({}) = 0 /\ \A x : Cardinality({x}) = 1
    BY FS_EmptySet, FS_Singleton
  <2> HIDE DEF G, B
  <2>7. Cardinality(G) = IF G = {} THEN 0 ELSE 1
    <3>1. G # {} => G = {PostOf[r]}
      BY <2>1
    <3>2. QED
      BY <3>1, <2>6
  <2>8. Cardinality(B) = IF B = {} THEN 0 ELSE 1
    <3>1. ASSUME NEW t \in B  PROVE B = {t}
      BY <2>2
    <3>2. QED
      BY <3>1, <2>6
  <2>9. Cardinality(G) + Cardinality(B) = IF In(r, synced) THEN 0 ELSE 1
    BY <2>3, <2>4, <2>5, <2>7, <2>8
  <2>10. QED
    BY <2>9 DEF G, B
<1>2. \A i, j \in 1..Len(synced) : synced[i] = synced[j] => i = j
  BY DEF Contents, Apart
<1>3. \A t \in Reaction :
         todo[t] # <<>> => t \in handing \/ Executing(t) \/ In(t, taskChan)
  BY DEF InHands
<1>4. QED
  BY <1>1, <1>2, <1>3 DEF EachOnce

\* Maps, timers, batches and the hands they are in keep their types, and no
\* more flushes of timers are on their way than there were calls of Add
\* (batcher.go, hooks.go).
THEOREM ReactionBatcherTypeOK == BatcherSpec => []BatcherTypeOK
<1>1. BatcherInv => BatcherTypeOK
  BY DEF BatcherInv
<1>2. QED
  BY <1>1, BatcherInvAlways, PTL

\* Whatever late timers and FlushAll do, a batch that gathers has a timer or a
\* flush on its way, and only such a batch has one (batcher.go, Add and Flush).
THEOREM ReactionBatcherNoStrandedBatch == BatcherSpec => []NoStrandedBatch
<1>1. BatcherInv => NoStrandedBatch
  BY DEF BatcherInv
<1>2. QED
  BY <1>1, BatcherInvAlways, PTL

\* Batches are consecutive parts of what was added for a post, and a reaction
\* is in one of them, and in somebody's hands, until it is synced, once
\* (batcher.go, Flush; hooks.go, processReactionBatch).
THEOREM ReactionBatcherInOneBatch == BatcherSpec => []InOneBatch
<1>1. BatcherInv => InOneBatch
  BY EachInOnePlace DEF BatcherInv, InOneBatch
<1>2. QED
  BY <1>1, BatcherInvAlways, PTL

\* However many workers and flushers execute batches together, two reactions
\* of a post are only synced against the order of the hooks when a batch
\* begins between them (hooks.go, processReactionBatch).
THEOREM ReactionBatcherBatchOrderKept == BatcherSpec => []BatchOrderKept
<1>1. BatcherInv => BatchOrderKept
  BY DEF BatcherInv
<1>2. QED
  BY <1>1, BatcherInvAlways, PTL

\* The batcher and OnDeactivate are clients that use the queue as it is made
\* for: what is proved of the queue holds of it under the batcher too.
THEOREM ReactionBatcherRunsQueue == BatcherSpec => Spec
<1>1. BatcherInit => Init
  BY DEF BatcherInit
<1>2. QED
  BY <1>1, BatcherUsesQueue, PTL DEF BatcherSpec, Spec

=============================================================================
