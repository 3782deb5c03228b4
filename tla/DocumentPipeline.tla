-------------------------- MODULE DocumentPipeline --------------------------
(***************************************************************************)
(* Processing of quarantined uploads: the malware scan                      *)
(* (application/quarantine.py), the dispatcher that delivers the            *)
(* document.upload.scan-clean events (application/document_jobs.py) and     *)
(* the processor that turns a clean upload into a document revision         *)
(* (application/document_processing.py).                                    *)
(*                                                                         *)
(* One delivery is a sequence of short transactions: claim the outbox row,  *)
(* claim the upload, (read, parse and store with no transaction open),      *)
(* complete or record the failure, settle the outbox row.  Processes crash  *)
(* and are overtaken between any two of them.  There are two leases, on the *)
(* outbox row and on the upload; both last LeaseSeconds, and the second     *)
(* starts later.                                                            *)
(***************************************************************************)
EXTENDS OutboxEvent

CONSTANTS
    Upload,          \* quarantined uploads, each of a document of its own
    NoJob,           \* a dispatcher process between two deliveries
    NoToken,         \* no claim on the upload yet
    TimeoutSeconds,  \* document_job_timeout_seconds
    MaxGenerations,  \* bound: scan-clean events per upload (1 + replays)
    MaxScans,        \* bound: scanner runs per upload
    MaxFaults        \* bound: crashes, overruns and failed transactions

\* config.py refuses a timeout that is not shorter than the lease.
ASSUME TimeoutAssumption ==
    TimeoutSeconds \in Nat \ {0} /\ TimeoutSeconds < LeaseSeconds

ASSUME BoundAssumption ==
    MaxGenerations \in Nat \ {0} /\ MaxScans \in Nat \ {0} /\ MaxFaults \in Nat

VARIABLES
    upload,      \* upload[u]: the QuarantinedUploadRow
    outbox,      \* outbox[e]: rows of topic document.upload.scan-clean
    job,         \* job[w]: what process w remembers of its delivery
    registered,  \* registered[u]: document revisions made from u
    scans,       \* scans[u]: scanner runs recorded
    faults

vars == <<upload, outbox, job, registered, scans, faults>>

\* The event of generation 1 comes from the scan, the later ones from
\* requeue_processing.
Event == Upload \X (1 .. MaxGenerations)

Status == {"QUARANTINED", "SCAN_FAILED", "REJECTED", "CLEAN", "PROCESSING",
           "PROCESSING_FAILED", "PROCESSED", "PROCESSING_DEAD_LETTERED"}

UploadRow ==
    [status   : Status,
     attempts : 0 .. MaxAttempts,
     lease    : Lease \cup {NoLease}]

\* `token' and `attempt' are the outbox claim, `ticket' the lease token of the
\* upload, `elapsed' the time since the upload was claimed; `step' is the next
\* transaction to run.
Job ==
    [event   : Event,
     token   : Token,
     attempt : 1 .. AttemptCap,
     step    : {"claim", "process", "fail", "settle", "acknowledge",
                "dead_letter", "retry"},
     ticket  : Token \cup {NoToken},
     elapsed : 0 .. TimeoutSeconds + 1]

\* Besides the tokens that processes and rows remember there is a fresh one.
ASSUME TokenAssumption ==
    /\ Token # {}
    /\ \A f \in [Worker -> Token], g \in [Event -> Token] :
          \E t \in Token : /\ \A w \in Worker : f[w] # t
                         /\ \A e \in Event : g[e] # t

ASSUME NoJobAssumption == NoJob \notin Job

TypeOK ==
    /\ upload \in [Upload -> UploadRow]
    /\ outbox \in [Event -> Row]
    /\ job \in [Worker -> Job \cup {NoJob}]
    /\ registered \in [Upload -> 0 .. 2]
    /\ scans \in [Upload -> 0 .. MaxScans]
    /\ faults \in 0 .. MaxFaults

Init ==
    /\ upload = [u \in Upload |->
                    [status |-> "QUARANTINED", attempts |-> 0, lease |-> NoLease]]
    /\ outbox = [e \in Event |-> AbsentRow]
    /\ job = [w \in Worker |-> NoJob]
    /\ registered = [u \in Upload |-> 0]
    /\ scans = [u \in Upload |-> 0]
    /\ faults = 0
-----------------------------------------------------------------------------
Busy(w) == job[w] # NoJob

\* The upload that process w works on.
Target(w) == job[w].event[1]

At(w, step) == Busy(w) /\ job[w].step = step

Goto(w, step) == job' = [job EXCEPT ![w].step = step]

\* uuid4 is fresh: the new token differs from all that are remembered.
FreshToken(inUse) == CHOOSE t \in Token : t \notin inUse

DeliveryTokens ==
    {job[w].token : w \in {v \in Worker : Busy(v)}}
        \cup {outbox[e].lease.token : e \in {d \in Event : outbox[d].lease # NoLease}}

ProcessingTokens ==
    {job[w].ticket : w \in {v \in Worker : Busy(v)}}
        \cup {upload[u].lease.token : u \in {x \in Upload : upload[x].lease # NoLease}}

\* Mutant: whoever finishes the work settles the upload.
OwnsUploadIgnored(w) == upload[Target(w)].status # "PROCESSED"

\* _require_processing_owner: it does not look at the expiry of the lease.
OwnsUpload(w) ==
    LET row == upload[Target(w)] IN
    /\ row.status = "PROCESSING"
    /\ row.lease # NoLease
    /\ row.lease.worker = w
    /\ row.lease.token = job[w].ticket

\* _dead_letter_row
BuriedUpload(row) ==
    [row EXCEPT !.status = "PROCESSING_DEAD_LETTERED", !.lease = NoLease]
-----------------------------------------------------------------------------
(* quarantine.py                                                            *)

\* record_scan_result: only an upload that waits for a verdict takes one; the
\* CLEAN verdict inserts the first scan-clean event.
RecordScanResult(u, verdict) ==
    /\ upload[u].status \in {"QUARANTINED", "SCAN_FAILED"}
    /\ scans[u] < MaxScans
    /\ scans' = [scans EXCEPT ![u] = @ + 1]
    /\ upload' = [upload EXCEPT ![u].status = verdict]
    /\ outbox' = IF verdict = "CLEAN"
                 THEN [outbox EXCEPT ![<<u, 1>>] = InsertedRow]
                 ELSE outbox
    /\ UNCHANGED <<job, registered, faults>>

\* requeue_processing: the administrator gives a dead-lettered upload a new
\* event and a new budget.  Any dead-lettered event of the upload counts as
\* the terminal evidence.
RequeueProcessing(u) ==
    /\ upload[u].status = "PROCESSING_DEAD_LETTERED"
    /\ \E g \in 1 .. MaxGenerations : outbox[<<u, g>>].deadLettered
    /\ \E g \in 2 .. MaxGenerations :
        /\ ~outbox[<<u, g>>].exists
        /\ outbox[<<u, g - 1>>].exists
        /\ outbox' = [outbox EXCEPT ![<<u, g>>] = InsertedRow]
    /\ upload' = [upload EXCEPT ![u].status = "CLEAN", ![u].attempts = 0]
    /\ UNCHANGED <<job, registered, scans, faults>>
-----------------------------------------------------------------------------
(* document_jobs.py and document_processing.py                              *)

\* dispatch_next: the claim of an outbox row.
ClaimEvent(w) ==
    /\ ~Busy(w)
    /\ \E e \in Event :
        /\ Claimable(outbox[e])
        /\ LET token == FreshToken(DeliveryTokens)
               row == ClaimedRow(outbox[e], w, token)
           IN  /\ outbox' = [outbox EXCEPT ![e] = row]
               /\ job' = [job EXCEPT ![w] =
                            [event |-> e, token |-> token,
                             attempt |-> row.attempts, step |-> "claim",
                             ticket |-> NoToken, elapsed |-> 0]]
    /\ UNCHANGED <<upload, registered, scans, faults>>

\* Mutant: a dead-lettered upload counts as done.
FindUploadFinishedAnyhow(w) ==
    /\ At(w, "claim")
    /\ upload[Target(w)].status \in {"PROCESSED", "PROCESSING_DEAD_LETTERED"}
    /\ Goto(w, "acknowledge")
    /\ UNCHANGED <<upload, outbox, registered, scans, faults>>

\* _claim, first returns: the upload is finished already.
FindUploadFinished(w) ==
    /\ At(w, "claim")
    /\ \/ /\ upload[Target(w)].status = "PROCESSED"
          /\ Goto(w, "acknowledge")
       \/ /\ upload[Target(w)].status = "PROCESSING_DEAD_LETTERED"
          /\ Goto(w, "dead_letter")
    /\ UNCHANGED <<upload, outbox, registered, scans, faults>>

\* Mutant: a second delivery processes the upload again.
StartableAgain(row) ==
    \/ row.status \in {"CLEAN", "PROCESSING_FAILED", "PROCESSED"}
    \/ row.status = "PROCESSING" /\ ~LeaseLive(row)

\* Mutant: a live lease does not stop the claim.
StartableUnderLease(row) ==
    row.status \in {"CLEAN", "PROCESSING", "PROCESSING_FAILED"}

\* _claim goes on: a failed upload, a clean one, or one whose lease ran out.
Startable(row) ==
    \/ row.status \in {"CLEAN", "PROCESSING_FAILED"}
    \/ row.status = "PROCESSING" /\ ~LeaseLive(row)

\* _claim raises ValueError: the upload is leased, or a qualification or the
\* scan evidence is not valid at the moment.
RefuseUpload(w) ==
    /\ At(w, "claim")
    /\ LET row == upload[Target(w)] IN
        \/ row.status = "PROCESSING" /\ LeaseLive(row)
        \/ Startable(row) /\ row.attempts < MaxAttempts
    /\ Goto(w, "settle")
    /\ UNCHANGED <<upload, outbox, registered, scans, faults>>

\* _claim, the attempts are used up.
ExhaustUpload(w) ==
    /\ At(w, "claim")
    /\ Startable(upload[Target(w)])
    /\ upload[Target(w)].attempts >= MaxAttempts
    /\ upload' = [upload EXCEPT ![Target(w)] = BuriedUpload(@)]
    /\ Goto(w, "dead_letter")
    /\ UNCHANGED <<outbox, registered, scans, faults>>

\* _claim succeeds.
StartProcessing(w) ==
    /\ At(w, "claim")
    /\ Startable(upload[Target(w)])
    /\ upload[Target(w)].attempts < MaxAttempts
    /\ LET token == FreshToken(ProcessingTokens) IN
        /\ upload' = [upload EXCEPT ![Target(w)] =
                        [status |-> "PROCESSING", attempts |-> @.attempts + 1,
                         lease |-> FreshLease(w, token)]]
        /\ job' = [job EXCEPT ![w].step = "process", ![w].ticket = token]
    /\ UNCHANGED <<outbox, registered, scans, faults>>

\* Mutant: the deadline is as long as the lease.
InTimeLate(w) == job[w].elapsed <= LeaseSeconds

InTime(w) == job[w].elapsed <= TimeoutSeconds

\* _complete: the owner, before its deadline, registers the revision.
CompleteProcessing(w) ==
    /\ At(w, "process")
    /\ OwnsUpload(w)
    /\ InTime(w)
    /\ upload' = [upload EXCEPT ![Target(w)].status = "PROCESSED",
                                ![Target(w)].lease = NoLease]
    /\ registered' = [registered EXCEPT ![Target(w)] = IF @ < 2 THEN @ + 1 ELSE @]
    /\ Goto(w, "acknowledge")
    /\ UNCHANGED <<outbox, scans, faults>>

\* _prepare or _complete raises: unreadable file, deadline, lost lease,
\* changed qualification.
AbandonProcessing(w) ==
    /\ At(w, "process")
    /\ Goto(w, "fail")
    /\ UNCHANGED <<upload, outbox, registered, scans, faults>>

\* _record_failure and what dispatch_next makes of the view it returns.
RecordFailure(w) ==
    /\ At(w, "fail")
    /\ LET row == upload[Target(w)] IN
        \/ /\ ~OwnsUpload(w)
           /\ Goto(w, CASE row.status = "PROCESSED" -> "acknowledge"
                        [] row.status = "PROCESSING_DEAD_LETTERED" -> "dead_letter"
                        [] OTHER -> "settle")
           /\ UNCHANGED upload
        \/ /\ OwnsUpload(w)
           /\ row.attempts >= MaxAttempts
           /\ upload' = [upload EXCEPT ![Target(w)] = BuriedUpload(@)]
           /\ Goto(w, "dead_letter")
        \/ /\ OwnsUpload(w)
           /\ row.attempts < MaxAttempts
           /\ upload' = [upload EXCEPT ![Target(w)].status = "PROCESSING_FAILED",
                                       ![Target(w)].lease = NoLease]
           /\ Goto(w, "settle")
    /\ UNCHANGED <<outbox, registered, scans, faults>>

\* Mutant: the last delivery is not recognised.
TerminalLate(w) == job[w].attempt > MaxAttempts

\* The last delivery: _settle_processing_error calls processor.dead_letter,
\* which does not ask who holds the lease of the upload.
Terminal(w) == job[w].attempt >= MaxAttempts

DeadLetterUpload(w) ==
    /\ At(w, "settle")
    /\ Terminal(w)
    /\ upload' = IF upload[Target(w)].status \in
                        {"CLEAN", "PROCESSING", "PROCESSING_FAILED"}
                 THEN [upload EXCEPT ![Target(w)] = BuriedUpload(@)]
                 ELSE upload
    /\ Goto(w, "dead_letter")
    /\ UNCHANGED <<outbox, registered, scans, faults>>

\* The transaction that a process is in fails and is rolled back: recording a
\* failure raises into dispatch_next, dead_letter leaves the event to a retry.
TransactionFails(w) ==
    /\ faults < MaxFaults
    /\ faults' = faults + 1
    /\ \/ At(w, "fail") /\ Goto(w, "settle")
       \/ At(w, "settle") /\ Terminal(w) /\ Goto(w, "retry")
    /\ UNCHANGED <<upload, outbox, registered, scans>>

OwnsEvent(w) ==
    /\ ~Settled(outbox[job[w].event])
    /\ Owns(outbox[job[w].event], w, job[w].token)

\* _acknowledge; the process is idle again whether or not the row was its own.
AcknowledgeEvent(w) ==
    /\ At(w, "acknowledge")
    /\ outbox' = IF OwnsEvent(w)
                 THEN [outbox EXCEPT ![job[w].event] = PublishedRow(@)]
                 ELSE outbox
    /\ job' = [job EXCEPT ![w] = NoJob]
    /\ UNCHANGED <<upload, registered, scans, faults>>

\* _reject after an error that is not the last one, forced with the upload
\* dead-lettered, or without the right to dead-letter the event.
RejectEvent(w) ==
    /\ \/ At(w, "settle") /\ ~Terminal(w)
       \/ At(w, "dead_letter")
       \/ At(w, "retry")
    /\ outbox' = IF OwnsEvent(w)
                 THEN [outbox EXCEPT ![job[w].event] =
                          RejectedRow(@, At(w, "dead_letter"), ~At(w, "retry"))]
                 ELSE outbox
    /\ job' = [job EXCEPT ![w] = NoJob]
    /\ UNCHANGED <<upload, registered, scans, faults>>

Crash(w) ==
    /\ Busy(w)
    /\ faults < MaxFaults
    /\ faults' = faults + 1
    /\ job' = [job EXCEPT ![w] = NoJob]
    /\ UNCHANGED <<upload, outbox, registered, scans>>

\* With this tick a process at work loses its event or misses its deadline.
Overrun ==
    \E w \in Worker :
        /\ Busy(w)
        /\ \/ OwnsEvent(w) /\ outbox[job[w].event].lease.left = 1
           \/ At(w, "process") /\ job[w].elapsed = TimeoutSeconds

Tick ==
    /\ outbox' = [e \in Event |-> AgedRow(outbox[e])]
    /\ upload' = [u \in Upload |-> [upload[u] EXCEPT !.lease = AgedLease(@)]]
    /\ job' = [w \in Worker |->
                  IF At(w, "process") /\ InTime(w)
                  THEN [job[w] EXCEPT !.elapsed = @ + 1]
                  ELSE job[w]]
    /\ IF Overrun
       THEN faults < MaxFaults /\ faults' = faults + 1
       ELSE faults' = faults
    /\ UNCHANGED <<registered, scans>>

Work(w) ==
    \/ FindUploadFinished(w)
    \/ RefuseUpload(w)
    \/ ExhaustUpload(w)
    \/ StartProcessing(w)
    \/ CompleteProcessing(w)
    \/ AbandonProcessing(w)
    \/ RecordFailure(w)
    \/ DeadLetterUpload(w)
    \/ AcknowledgeEvent(w)
    \/ RejectEvent(w)

Next ==
    \/ \E u \in Upload :
        \/ \E verdict \in {"CLEAN", "REJECTED", "SCAN_FAILED"} :
               RecordScanResult(u, verdict)
        \/ RequeueProcessing(u)
    \/ \E w \in Worker :
        \/ ClaimEvent(w)
        \/ Work(w)
        \/ TransactionFails(w)
        \/ Crash(w)
    \/ Tick

Spec == Init /\ [][Next]_vars

\* The scheduler keeps starting dispatchers, a started delivery goes on, and
\* time passes.  Nothing makes the scanner or the administrator act.
Fairness ==
    /\ WF_vars(Tick)
    /\ \A w \in Worker : SF_vars(ClaimEvent(w)) /\ WF_vars(Work(w))

FairSpec == Spec /\ Fairness
-----------------------------------------------------------------------------
Open(u) == upload[u].status \in {"CLEAN", "PROCESSING", "PROCESSING_FAILED"}

\* However often an upload is delivered, retried, reclaimed or replayed, one
\* document revision is made from it, exactly when it becomes PROCESSED.
RegisteredOnce ==
    \A u \in Upload :
        registered[u] = IF upload[u].status = "PROCESSED" THEN 1 ELSE 0

\* An event is acknowledged only once its upload is processed.
DeliveredMeansProcessed ==
    \A e \in Event : outbox[e].published => upload[e[1]].status = "PROCESSED"

\* Work is never lost: an upload that still has to be processed has an event
\* that will be delivered.  No order of transactions, crashes and replays
\* settles the last event of an open upload.
NoOrphanedUpload ==
    \A u \in Upload :
        Open(u) => \E g \in 1 .. MaxGenerations : Pending(outbox[<<u, g>>])

\* No upload is lost between its row and its events, in either direction.
UploadStands == TypeOK /\ DeliveredMeansProcessed /\ NoOrphanedUpload

\* A revision is registered by the process whose lease on the upload is still
\* live, although the code compares only the token and its own deadline.
CompletedUnderLease ==
    [][\A u \in Upload :
        registered'[u] # registered[u] =>
            /\ LeaseLive(upload[u])
            /\ \E w \in Worker :
                /\ Busy(w)
                /\ Target(w) = u
                /\ upload[u].lease.token = job[w].ticket]_vars

\* While the lease of an upload is live, the upload is taken from its process
\* only by a dead letter of a delivery that is exhausted.
LiveUploadKept ==
    [][\A u \in Upload :
        (upload[u].status = "PROCESSING" /\ LeaseLive(upload[u])) =>
            \/ /\ upload'[u].status = "PROCESSING"
               /\ upload'[u].lease.token = upload[u].lease.token
            \/ \E w \in Worker :
                /\ Busy(w)
                /\ Target(w) = u
                /\ \/ OwnsUpload(w)
                   \/ Terminal(w) /\ upload'[u].status = "PROCESSING_DEAD_LETTERED"]_vars

\* The transactions of the three services implement the life of an upload.
Lifecycle ==
    INSTANCE UploadLifecycle WITH
        status    <- [u \in Upload |-> upload[u].status],
        revisions <- registered

\* UploadLifecycle with its liveness.
ImplementsUploadLifecycle == Lifecycle!Spec
=============================================================================
