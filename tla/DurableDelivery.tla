--------------------------- MODULE DurableDelivery ---------------------------
(***************************************************************************)
(* What the transactional outbox promises, with no rows, leases or          *)
(* processes: an event that was committed is handled at least once before   *)
(* it is published, it is published or dead-lettered but never both, that   *)
(* verdict is final, and every event reaches one.                           *)
(***************************************************************************)
CONSTANT Event

VARIABLES
    status,   \* status[e] \in {"absent", "pending", "published", "dead"}
    done      \* done[e]: the work of e was done at least once

vars == <<status, done>>

Init ==
    /\ status = [e \in Event |-> "absent"]
    /\ done = [e \in Event |-> FALSE]

Enqueue(e) ==
    /\ status[e] = "absent"
    /\ status' = [status EXCEPT ![e] = "pending"]
    /\ UNCHANGED done

\* A slow process may still do the work after the verdict.
Work(e) ==
    /\ status[e] # "absent"
    /\ done' = [done EXCEPT ![e] = TRUE]
    /\ UNCHANGED status

Publish(e) ==
    /\ status[e] = "pending"
    /\ done[e]
    /\ status' = [status EXCEPT ![e] = "published"]
    /\ UNCHANGED done

DeadLetter(e) ==
    /\ status[e] = "pending"
    /\ status' = [status EXCEPT ![e] = "dead"]
    /\ UNCHANGED done

Next == \E e \in Event : Enqueue(e) \/ Work(e) \/ Publish(e) \/ DeadLetter(e)

Safety == Init /\ [][Next]_vars

Spec == Safety /\ \A e \in Event : WF_vars(Publish(e) \/ DeadLetter(e))
=============================================================================
