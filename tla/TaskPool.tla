------------------------------ MODULE TaskPool ------------------------------
(***************************************************************************)
(* What the bridge expects of its worker pool, without channels or         *)
(* goroutines: a submitted task is refused or accepted; an accepted task   *)
(* begins at most once and ends at most once; once the pool is down no     *)
(* task is running and none will begin any more.  A task accepted but not  *)
(* begun by then stays accepted for ever: the pool promises at most one    *)
(* execution, not at least one.                                            *)
(***************************************************************************)
CONSTANT Task

VARIABLES status,   \* status[t]: how far task t has come
          phase     \* "open", "closing" or "down"

vars == <<status, phase>>

Status == {"new", "refused", "accepted", "running", "finished"}

TypeOK == /\ status \in [Task -> Status]
          /\ phase \in {"open", "closing", "down"}

Init == /\ status = [t \in Task |-> "new"]
        /\ phase = "open"

Move(t, from, to) == /\ status[t] = from
                     /\ status' = [status EXCEPT ![t] = to]
                     /\ UNCHANGED phase

Refuse(t) == Move(t, "new", "refused")

Accept(t) == Move(t, "new", "accepted")

Begin(t) == phase # "down" /\ Move(t, "accepted", "running")

End(t) == phase # "down" /\ Move(t, "running", "finished")

Close == /\ phase = "open"
         /\ phase' = "closing"
         /\ UNCHANGED status

GoDown == /\ phase = "closing"
          /\ \A t \in Task : status[t] # "running"
          /\ phase' = "down"
          /\ UNCHANGED status

Next == \/ \E t \in Task : Refuse(t) \/ Accept(t) \/ Begin(t) \/ End(t)
        \/ Close
        \/ GoDown

Spec == Init /\ [][Next]_vars
=============================================================================
