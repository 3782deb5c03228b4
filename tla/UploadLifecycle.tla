--------------------------- MODULE UploadLifecycle ---------------------------
(***************************************************************************)
(* What a quarantined upload goes through, with no events, leases or        *)
(* processes: a scan verdict, attempts to process it, and one document      *)
(* revision or a dead letter that an administrator may lift.  A revision    *)
(* is made exactly when the upload becomes PROCESSED, which is final.       *)
(***************************************************************************)
CONSTANT Upload

VARIABLES
    status,      \* status[u], the statuses of QuarantineStatus
    revisions    \* revisions[u]: document revisions made from u

vars == <<status, revisions>>

Init ==
    /\ status = [u \in Upload |-> "QUARANTINED"]
    /\ revisions = [u \in Upload |-> 0]

Move(u, from, to) ==
    /\ status[u] \in from
    /\ status' = [status EXCEPT ![u] = to]

Scan(u) ==
    /\ \E verdict \in {"CLEAN", "REJECTED", "SCAN_FAILED"} :
           Move(u, {"QUARANTINED", "SCAN_FAILED"}, verdict)
    /\ UNCHANGED revisions

Start(u) ==
    /\ Move(u, {"CLEAN", "PROCESSING_FAILED"}, "PROCESSING")
    /\ UNCHANGED revisions

Fail(u) ==
    /\ Move(u, {"PROCESSING"}, "PROCESSING_FAILED")
    /\ UNCHANGED revisions

Complete(u) ==
    /\ Move(u, {"PROCESSING"}, "PROCESSED")
    /\ revisions' = [revisions EXCEPT ![u] = 1]

Bury(u) ==
    /\ Move(u, {"CLEAN", "PROCESSING", "PROCESSING_FAILED"},
            "PROCESSING_DEAD_LETTERED")
    /\ UNCHANGED revisions

Requeue(u) ==
    /\ Move(u, {"PROCESSING_DEAD_LETTERED"}, "CLEAN")
    /\ UNCHANGED revisions

Next ==
    \E u \in Upload :
        \/ Scan(u) \/ Start(u) \/ Fail(u) \/ Complete(u) \/ Bury(u) \/ Requeue(u)

Open(u) == status[u] \in {"CLEAN", "PROCESSING", "PROCESSING_FAILED"}

Safety == Init /\ [][Next]_vars

\* An open upload does not stay open.
Spec == Safety /\ \A u \in Upload : Open(u) ~> ~Open(u)
=============================================================================
