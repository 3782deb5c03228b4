----------------------- MODULE DocumentPipelineProofs -----------------------
(***************************************************************************)
(* Proofs about DocumentPipeline, for any sets of uploads, processes and    *)
(* tokens and any policy and timeout that the configuration accepts.        *)
(***************************************************************************)
EXTENDS DocumentPipeline, TLAPS

\* The first event of an upload is inserted with its CLEAN verdict.
EventsFollowScan ==
    \A e \in Event :
        outbox[e].exists =>
            upload[e[1]].status \notin {"QUARANTINED", "SCAN_FAILED", "REJECTED"}

\* A process only ever holds an event that was inserted.
JobsHaveEvents == \A w \in Worker : Busy(w) => outbox[job[w].event].exists

\* Who is about to acknowledge has seen the upload PROCESSED, which is final.
AcknowledgedIsProcessed ==
    \A w \in Worker :
        At(w, "acknowledge") => upload[Target(w)].status = "PROCESSED"

\* A row that still carries the token of a process carries it from the claim
\* of that process, and was claimed by no other since.
ClaimsAgree ==
    \A w \in Worker, e \in Event :
        (/\ Busy(w)
         /\ outbox[e].lease # NoLease
         /\ outbox[e].lease.token = job[w].token)
            => e = job[w].event /\ outbox[e].attempts = job[w].attempt

\* An open upload has a pending event that no process is about to
\* dead-letter: after a replay, a process may still hold the dead letter of an
\* earlier generation.
OpenIsDeliverable ==
    \A u \in Upload :
        Open(u) =>
            \E g \in 1 .. MaxGenerations :
                /\ Pending(outbox[<<u, g>>])
                /\ \A w \in Worker : At(w, "dead_letter") => job[w].event # <<u, g>>

\* The lease of an upload lasts longer than the deadline of its process: both
\* began together.
LeaseOutlastsWork ==
    \A w \in Worker :
        At(w, "process") /\ OwnsUpload(w) /\ InTime(w)
            => upload[Target(w)].lease.left + job[w].elapsed >= LeaseSeconds

\* The inductive invariant.
IInv ==
    /\ TypeOK
    /\ RegisteredOnce
    /\ DeliveredMeansProcessed
    /\ EventsFollowScan
    /\ JobsHaveEvents
    /\ AcknowledgedIsProcessed
    /\ ClaimsAgree
    /\ OpenIsDeliverable
    /\ LeaseOutlastsWork
-----------------------------------------------------------------------------
(* Typing.                                                                  *)

Step == {"claim", "process", "fail", "settle", "acknowledge", "dead_letter", "retry"}

Unscanned == {"QUARANTINED", "SCAN_FAILED", "REJECTED"}

OpenStatus == {"CLEAN", "PROCESSING", "PROCESSING_FAILED"}

\* The event of a generation of an upload, and back.
LEMMA EventParts ==
    /\ \A u \in Upload, g \in 1 .. MaxGenerations :
          <<u, g>> \in Event /\ <<u, g>>[1] = u
    /\ \A e \in Event :
          /\ e[1] \in Upload
          /\ e[2] \in 1 .. MaxGenerations
          /\ e = <<e[1], e[2]>>
    /\ 1 \in 1 .. MaxGenerations
  BY BoundAssumption DEF Event

\* What a busy process remembers.
LEMMA BusyTypes ==
    ASSUME TypeOK, NEW w \in Worker, Busy(w)
    PROVE  /\ job[w] \in Job
           /\ job[w].event \in Event
           /\ Target(w) = job[w].event[1]
           /\ Target(w) \in Upload
           /\ outbox[job[w].event] \in Row
           /\ upload[Target(w)] \in UploadRow
  BY EventParts DEF TypeOK, Busy, Job, Target

\* A process that goes on to another step keeps the rest of what it remembers.
LEMMA GotoEffect ==
    ASSUME TypeOK, NEW w \in Worker, Busy(w), NEW s \in Step, Goto(w, s)
    PROVE  /\ job' \in [Worker -> Job \cup {NoJob}]
           /\ \A v \in Worker : v # w => job'[v] = job[v]
           /\ job'[w] # NoJob
           /\ job'[w].step = s
           /\ job'[w].event = job[w].event
           /\ job'[w].token = job[w].token
           /\ job'[w].attempt = job[w].attempt
           /\ job'[w].ticket = job[w].ticket
           /\ job'[w].elapsed = job[w].elapsed
  <1>1. job[w] \in Job
    BY BusyTypes
  <1>2. [job[w] EXCEPT !.step = s] \in Job
    BY <1>1 DEF Job, Step
  <1>3. /\ job' = [job EXCEPT ![w] = [job[w] EXCEPT !.step = s]]
        /\ job'[w] = [job[w] EXCEPT !.step = s]
    BY DEF Goto, TypeOK
  <1> QED BY <1>1, <1>2, <1>3, NoJobAssumption DEF TypeOK, Job

\* The token of a claim is one that no process and no event remembers.
LEMMA FreshDeliveryToken ==
    ASSUME TypeOK
    PROVE  /\ FreshToken(DeliveryTokens) \in Token
           /\ \A w \in Worker : Busy(w) => job[w].token # FreshToken(DeliveryTokens)
           /\ \A e \in Event : outbox[e].lease # NoLease
                 => outbox[e].lease.token # FreshToken(DeliveryTokens)
  <1>1. PICK any \in Token : TRUE
    BY TokenAssumption
  <1> DEFINE f == [w \in Worker |-> IF Busy(w) THEN job[w].token ELSE any]
             g == [e \in Event |-> IF outbox[e].lease # NoLease
                                   THEN outbox[e].lease.token ELSE any]
  <1>2. f \in [Worker -> Token] /\ g \in [Event -> Token]
    BY DEF TypeOK, Busy, Job, Row, Lease
  <1> HIDE DEF f, g
  <1>3. PICK t \in Token : (\A w \in Worker : f[w] # t) /\ (\A e \in Event : g[e] # t)
    BY <1>2, TokenAssumption
  <1>4. t \notin DeliveryTokens
    BY <1>3 DEF f, g, DeliveryTokens
  <1>5. FreshToken(DeliveryTokens) \in Token \ DeliveryTokens
    BY <1>4 DEF FreshToken
  <1> QED BY <1>5 DEF DeliveryTokens

\* The token of a claim on an upload is one that no process and no upload
\* remembers.
LEMMA FreshProcessingToken ==
    ASSUME TypeOK
    PROVE  /\ FreshToken(ProcessingTokens) \in Token
           /\ \A w \in Worker : Busy(w) => job[w].ticket # FreshToken(ProcessingTokens)
           /\ \A u \in Upload : upload[u].lease # NoLease
                 => upload[u].lease.token # FreshToken(ProcessingTokens)
  <1>1. PICK any \in Token : TRUE
    BY TokenAssumption
  <1> DEFINE f == [w \in Worker |-> IF Busy(w) /\ job[w].ticket \in Token
                                   THEN job[w].ticket ELSE any]
             g == [e \in Event |-> IF upload[e[1]].lease # NoLease
                                   THEN upload[e[1]].lease.token ELSE any]
  <1>2. f \in [Worker -> Token]
    OBVIOUS
  <1>3. g \in [Event -> Token]
    BY EventParts DEF TypeOK, UploadRow, Lease
  <1> HIDE DEF f, g
  <1>4. PICK t \in Token : (\A w \in Worker : f[w] # t) /\ (\A e \in Event : g[e] # t)
    BY <1>2, <1>3, TokenAssumption
  <1>5. \A w \in Worker : Busy(w) => job[w].ticket # t
    BY <1>4 DEF f
  <1>6. \A u \in Upload : upload[u].lease # NoLease => upload[u].lease.token # t
    <2> SUFFICES ASSUME NEW u \in Upload, upload[u].lease # NoLease
                 PROVE  upload[u].lease.token # t
      OBVIOUS
    <2>1. <<u, 1>> \in Event /\ <<u, 1>>[1] = u
      BY EventParts
    <2>2. g[<<u, 1>>] = upload[u].lease.token
      BY <2>1 DEF g
    <2> QED BY <1>4, <2>1, <2>2
  <1>7. t \notin ProcessingTokens
    BY <1>5, <1>6 DEF ProcessingTokens
  <1>8. FreshToken(ProcessingTokens) \in Token \ ProcessingTokens
    BY <1>7 DEF FreshToken
  <1> QED BY <1>8 DEF ProcessingTokens
-----------------------------------------------------------------------------
(* The invariant, action by action.                                         *)

LEMMA InitIInv == Init => IInv
  <1> SUFFICES ASSUME Init PROVE IInv
    OBVIOUS
  <1>1. TypeOK
    <2>1. [status |-> "QUARANTINED", attempts |-> 0, lease |-> NoLease] \in UploadRow
      BY PolicyAssumption DEF UploadRow, Status
    <2> QED BY <2>1, RowTyped, BoundAssumption DEF Init, TypeOK
  <1>2. \A w \in Worker : ~Busy(w)
    BY DEF Init, Busy
  <1>3. \A e \in Event : ~outbox[e].exists /\ ~outbox[e].published /\ outbox[e].lease = NoLease
    BY DEF Init, AbsentRow
  <1>4. \A u \in Upload : upload[u].status = "QUARANTINED" /\ registered[u] = 0
    BY DEF Init
  <1> QED
    BY <1>1, <1>2, <1>3, <1>4
       DEF IInv, RegisteredOnce, DeliveredMeansProcessed, EventsFollowScan,
           JobsHaveEvents, AcknowledgedIsProcessed, ClaimsAgree, OpenIsDeliverable,
           LeaseOutlastsWork, At, Open

\* The revisions that are made from an upload of this status.
Revisions(status) == IF status = "PROCESSED" THEN 1 ELSE 0

\* A process w goes on to the step s, and may leave the row `row' in its
\* upload.
GoesOn(w, s, row) ==
    /\ Busy(w)
    /\ Goto(w, s)
    /\ upload' = [upload EXCEPT ![Target(w)] = row]
    /\ registered' = [registered EXCEPT ![Target(w)] = Revisions(row.status)]
    /\ UNCHANGED <<outbox, scans>>
    /\ faults' \in 0 .. MaxFaults

\* The invariant survives such a step when the row does not stop being
\* PROCESSED, is not opened, keeps its lease or loses it, and justifies the
\* verdict that follows.
LEMMA GoesOnIInv ==
    ASSUME IInv, NEW w \in Worker, NEW s \in Step \ {"claim", "process"},
           NEW row \in UploadRow,
           GoesOn(w, s, row),
           upload[Target(w)].status = "PROCESSED" => row.status = "PROCESSED",
           row.status \in Unscanned => upload[Target(w)].status \in Unscanned,
           row.status \in OpenStatus => upload[Target(w)].status \in OpenStatus,
           row.lease = NoLease \/ row = upload[Target(w)],
           s = "acknowledge" => row.status = "PROCESSED",
           s = "dead_letter" => row.status \notin OpenStatus
    PROVE  IInv'
  <1> DEFINE u == Target(w)
  <1>1. /\ u \in Upload
        /\ job[w].event \in Event
        /\ u = job[w].event[1]
    BY BusyTypes DEF IInv, GoesOn
  <1>2. /\ job' \in [Worker -> Job \cup {NoJob}]
        /\ \A v \in Worker : v # w => job'[v] = job[v]
        /\ job'[w] # NoJob
        /\ job'[w].step = s
        /\ job'[w].event = job[w].event
        /\ job'[w].token = job[w].token
        /\ job'[w].attempt = job[w].attempt
    BY GotoEffect DEF IInv, GoesOn
  <1>3. /\ upload' \in [Upload -> UploadRow]
        /\ upload'[u] = row
        /\ \A x \in Upload : x # u => upload'[x] = upload[x]
        /\ outbox' = outbox
        /\ registered' \in [Upload -> 0 .. 2]
        /\ registered'[u] = Revisions(row.status)
        /\ \A x \in Upload : x # u => registered'[x] = registered[x]
    BY <1>1 DEF IInv, TypeOK, GoesOn, Revisions
  <1> HIDE DEF u
  <1>4. TypeOK'
    BY <1>2, <1>3 DEF IInv, TypeOK, GoesOn
  <1>5. \A x \in Upload :
          /\ upload[x].status = "PROCESSED" => upload'[x].status = "PROCESSED"
          /\ upload'[x].status \in Unscanned => upload[x].status \in Unscanned
          /\ upload'[x].status \in OpenStatus => upload[x].status \in OpenStatus
    BY <1>3 DEF u
  <1>6. RegisteredOnce' /\ DeliveredMeansProcessed' /\ EventsFollowScan'
    <2>1. RegisteredOnce'
      BY <1>3 DEF IInv, RegisteredOnce, Revisions
    <2>2. DeliveredMeansProcessed' /\ EventsFollowScan'
      BY <1>3, <1>5, EventParts
         DEF IInv, DeliveredMeansProcessed, EventsFollowScan, Unscanned
    <2> QED BY <2>1, <2>2
  <1>7. \A v \in Worker : (job'[v] # NoJob <=> job[v] # NoJob)
          /\ (job[v] # NoJob => /\ job'[v].event = job[v].event
                                /\ job'[v].token = job[v].token
                                /\ job'[v].attempt = job[v].attempt)
    BY <1>2 DEF GoesOn, Busy
  <1>8. JobsHaveEvents' /\ ClaimsAgree'
    BY <1>3, <1>7 DEF IInv, JobsHaveEvents, ClaimsAgree, Busy
  <1>9. AcknowledgedIsProcessed'
    <2> SUFFICES ASSUME NEW v \in Worker, At(v, "acknowledge")'
                 PROVE  upload'[job'[v].event[1]].status = "PROCESSED"
      BY DEF AcknowledgedIsProcessed, Target
    <2>1. CASE v = w
      BY <2>1, <1>1, <1>2, <1>3 DEF At
    <2>2. CASE v # w
      <3>1. At(v, "acknowledge") /\ job'[v] = job[v]
        BY <2>2, <1>2 DEF At, Busy
      <3>2. job[v].event[1] \in Upload /\ upload[job[v].event[1]].status = "PROCESSED"
        BY <3>1, BusyTypes DEF IInv, AcknowledgedIsProcessed, At, Target
      <3> QED BY <3>1, <3>2, <1>5
    <2> QED BY <2>1, <2>2
  <1>10. OpenIsDeliverable'
    <2> SUFFICES ASSUME NEW x \in Upload, Open(x)'
                 PROVE  \E g \in 1 .. MaxGenerations :
                           /\ Pending(outbox[<<x, g>>])
                           /\ \A v \in Worker :
                                 At(v, "dead_letter")' => job'[v].event # <<x, g>>
      BY <1>3 DEF OpenIsDeliverable
    <2>1. Open(x) /\ upload'[x].status \in OpenStatus
      BY <1>5 DEF Open, OpenStatus
    <2>2. PICK g \in 1 .. MaxGenerations :
             /\ Pending(outbox[<<x, g>>])
             /\ \A v \in Worker : At(v, "dead_letter") => job[v].event # <<x, g>>
      BY <2>1 DEF IInv, OpenIsDeliverable
    <2>3. ASSUME NEW v \in Worker, At(v, "dead_letter")'
          PROVE  job'[v].event # <<x, g>>
      <3>1. CASE v = w
        <4>1. u # x
          BY <2>1, <2>3, <3>1, <1>2, <1>3 DEF At
        <4> QED BY <3>1, <4>1, <1>1, <1>2, EventParts
      <3>2. CASE v # w
        BY <2>2, <2>3, <3>2, <1>2 DEF At, Busy
      <3> QED BY <3>1, <3>2
    <2> QED BY <2>2, <2>3
  <1>11. LeaseOutlastsWork'
    <2> SUFFICES ASSUME NEW v \in Worker, At(v, "process")', OwnsUpload(v)', InTime(v)'
                 PROVE  upload'[Target(v)'].lease.left + job'[v].elapsed >= LeaseSeconds
      BY DEF LeaseOutlastsWork
    <2>1. v # w
      BY <1>2 DEF At
    <2>2. job'[v] = job[v] /\ Busy(v) /\ Target(v)' = Target(v) /\ Target(v) \in Upload
      BY <2>1, <1>2, BusyTypes DEF At, Busy, Target, IInv
    <2>3. upload'[Target(v)] = upload[Target(v)]
      BY <2>2, <1>3 DEF OwnsUpload, u
    <2>4. At(v, "process") /\ OwnsUpload(v) /\ InTime(v)
      BY <2>2, <2>3 DEF At, Busy, OwnsUpload, InTime
    <2> QED BY <2>2, <2>3, <2>4 DEF IInv, LeaseOutlastsWork
  <1> QED BY <1>4, <1>6, <1>8, <1>9, <1>10, <1>11 DEF IInv

\* Nothing is written when the row is the one that is there, and no revision
\* is made or lost when its status stays on the same side.
LEMMA SameRow ==
    ASSUME IInv, NEW w \in Worker, Busy(w)
    PROVE  /\ [upload EXCEPT ![Target(w)] = upload[Target(w)]] = upload
           /\ \A status : (status = "PROCESSED" <=> upload[Target(w)].status = "PROCESSED")
                 => [registered EXCEPT ![Target(w)] = Revisions(status)] = registered
  <1>1. Target(w) \in Upload
    BY BusyTypes DEF IInv
  <1>2. registered[Target(w)] = Revisions(upload[Target(w)].status)
    BY <1>1 DEF IInv, RegisteredOnce, Revisions
  <1> QED BY <1>1, <1>2 DEF IInv, TypeOK, Revisions

\* _dead_letter_row
LEMMA BuriedUploadProperties ==
    ASSUME NEW row \in UploadRow
    PROVE  /\ BuriedUpload(row) \in UploadRow
           /\ BuriedUpload(row).status = "PROCESSING_DEAD_LETTERED"
           /\ BuriedUpload(row).lease = NoLease
  BY DEF BuriedUpload, UploadRow, Status

\* The steps at which a process ends its work on an upload.
LEMMA EndSteps ==
    {"fail", "settle", "acknowledge", "dead_letter", "retry"} \subseteq Step \ {"claim", "process"}
  BY DEF Step

\* A step of a process that leaves its upload alone.
LEMMA GoesOnUnchangedIInv ==
    ASSUME IInv, NEW w \in Worker, Busy(w), NEW s \in Step \ {"claim", "process"},
           Goto(w, s), UNCHANGED <<upload, outbox, registered, scans>>,
           faults' \in 0 .. MaxFaults,
           s = "acknowledge" => upload[Target(w)].status = "PROCESSED",
           s = "dead_letter" => upload[Target(w)].status \notin OpenStatus
    PROVE  IInv'
  <1>1. upload[Target(w)] \in UploadRow
    BY BusyTypes DEF IInv
  <1>2. GoesOn(w, s, upload[Target(w)])
    BY SameRow DEF GoesOn
  <1> QED BY <1>1, <1>2, GoesOnIInv

\* A step of a process that buries its open upload.
LEMMA GoesOnBuriedIInv ==
    ASSUME IInv, NEW w \in Worker, Busy(w), Goto(w, "dead_letter"),
           upload[Target(w)].status \in OpenStatus,
           upload' = [upload EXCEPT ![Target(w)] = BuriedUpload(@)],
           UNCHANGED <<outbox, registered, scans, faults>>
    PROVE  IInv'
  <1>1. /\ upload[Target(w)] \in UploadRow
        /\ Target(w) \in Upload
        /\ faults \in 0 .. MaxFaults
    BY BusyTypes DEF IInv, TypeOK
  <1>2. GoesOn(w, "dead_letter", BuriedUpload(upload[Target(w)]))
    BY <1>1, SameRow, BuriedUploadProperties DEF GoesOn, OpenStatus
  <1> QED
    BY <1>1, <1>2, GoesOnIInv, EndSteps, BuriedUploadProperties
       DEF OpenStatus, Unscanned

LEMMA FindUploadFinishedIInv ==
    ASSUME IInv, NEW w \in Worker, FindUploadFinished(w)
    PROVE  IInv'
  BY GoesOnUnchangedIInv, EndSteps
     DEF FindUploadFinished, At, OpenStatus, IInv, TypeOK

LEMMA RefuseUploadIInv ==
    ASSUME IInv, NEW w \in Worker, RefuseUpload(w)
    PROVE  IInv'
  BY GoesOnUnchangedIInv, EndSteps DEF RefuseUpload, At, IInv, TypeOK

LEMMA ExhaustUploadIInv ==
    ASSUME IInv, NEW w \in Worker, ExhaustUpload(w)
    PROVE  IInv'
  BY GoesOnBuriedIInv DEF ExhaustUpload, At, Startable, OpenStatus

LEMMA AbandonProcessingIInv ==
    ASSUME IInv, NEW w \in Worker, AbandonProcessing(w)
    PROVE  IInv'
  BY GoesOnUnchangedIInv, EndSteps DEF AbandonProcessing, At, IInv, TypeOK

LEMMA RecordFailureIInv ==
    ASSUME IInv, NEW w \in Worker, RecordFailure(w)
    PROVE  IInv'
  <1> DEFINE row == upload[Target(w)]
  <1>1. /\ Busy(w)
        /\ row \in UploadRow
        /\ Target(w) \in Upload
        /\ faults \in 0 .. MaxFaults
        /\ UNCHANGED <<outbox, registered, scans, faults>>
    BY BusyTypes DEF IInv, TypeOK, RecordFailure, At
  <1>2. CASE /\ ~OwnsUpload(w)
             /\ Goto(w, CASE row.status = "PROCESSED" -> "acknowledge"
                          [] row.status = "PROCESSING_DEAD_LETTERED" -> "dead_letter"
                          [] OTHER -> "settle")
             /\ UNCHANGED upload
    <2>1. CASE row.status = "PROCESSED"
      BY <1>1, <1>2, <2>1, GoesOnUnchangedIInv, EndSteps
    <2>2. CASE row.status = "PROCESSING_DEAD_LETTERED"
      BY <1>1, <1>2, <2>2, GoesOnUnchangedIInv, EndSteps DEF OpenStatus
    <2>3. CASE row.status \notin {"PROCESSED", "PROCESSING_DEAD_LETTERED"}
      BY <1>1, <1>2, <2>3, GoesOnUnchangedIInv, EndSteps
    <2> QED BY <2>1, <2>2, <2>3
  <1>3. CASE /\ OwnsUpload(w)
             /\ upload' = [upload EXCEPT ![Target(w)] = BuriedUpload(@)]
             /\ Goto(w, "dead_letter")
    BY <1>1, <1>3, GoesOnBuriedIInv DEF OwnsUpload, OpenStatus
  <1>4. CASE /\ OwnsUpload(w)
             /\ upload' = [upload EXCEPT ![Target(w)].status = "PROCESSING_FAILED",
                                         ![Target(w)].lease = NoLease]
             /\ Goto(w, "settle")
    <2> DEFINE failed == [row EXCEPT !.status = "PROCESSING_FAILED", !.lease = NoLease]
    <2>1. /\ failed \in UploadRow
          /\ failed.status = "PROCESSING_FAILED"
          /\ failed.lease = NoLease
      BY <1>1 DEF UploadRow, Status
    <2>2. upload' = [upload EXCEPT ![Target(w)] = failed]
      BY <1>1, <1>4 DEF IInv, TypeOK
    <2> HIDE DEF failed
    <2>3. row.status = "PROCESSING"
      BY <1>4 DEF OwnsUpload
    <2>4. GoesOn(w, "settle", failed)
      BY <1>1, <1>4, <2>1, <2>2, <2>3, SameRow DEF GoesOn
    <2> QED BY <2>1, <2>3, <2>4, GoesOnIInv, EndSteps DEF Unscanned, OpenStatus
  <1> QED BY <1>2, <1>3, <1>4 DEF RecordFailure

LEMMA DeadLetterUploadIInv ==
    ASSUME IInv, NEW w \in Worker, DeadLetterUpload(w)
    PROVE  IInv'
  <1>1. CASE upload[Target(w)].status \in OpenStatus
    BY <1>1, GoesOnBuriedIInv DEF DeadLetterUpload, At, OpenStatus
  <1>2. CASE upload[Target(w)].status \notin OpenStatus
    BY <1>2, GoesOnUnchangedIInv, EndSteps
       DEF DeadLetterUpload, At, OpenStatus, IInv, TypeOK
  <1> QED BY <1>1, <1>2

LEMMA TransactionFailsIInv ==
    ASSUME IInv, NEW w \in Worker, TransactionFails(w)
    PROVE  IInv'
  <1>1. faults' \in 0 .. MaxFaults
    BY BoundAssumption DEF TransactionFails, IInv, TypeOK
  <1> QED BY <1>1, GoesOnUnchangedIInv, EndSteps DEF TransactionFails, At
-----------------------------------------------------------------------------
\* A process w forgets its delivery, and may leave the row `row' in its event.
LeavesOff(w, row) ==
    /\ Busy(w)
    /\ job' = [job EXCEPT ![w] = NoJob]
    /\ outbox' = [outbox EXCEPT ![job[w].event] = row]
    /\ UNCHANGED <<upload, registered, scans>>
    /\ faults' \in 0 .. MaxFaults

\* The invariant survives when the row is the one that is there or has lost
\* its lease, and is settled only with an upload that is PROCESSED or, as a
\* dead letter, by a process that was about to.
LEMMA LeavesOffIInv ==
    ASSUME IInv, NEW w \in Worker, NEW row \in Row,
           LeavesOff(w, row),
           row.exists,
           row.lease = NoLease \/ row = outbox[job[w].event],
           row.published => \/ outbox[job[w].event].published
                            \/ upload[Target(w)].status = "PROCESSED",
           row.deadLettered => \/ outbox[job[w].event].deadLettered
                               \/ At(w, "dead_letter")
    PROVE  IInv'
  <1> DEFINE e == job[w].event
  <1>1. e \in Event /\ Target(w) = e[1] /\ outbox[e].exists
    BY BusyTypes DEF IInv, JobsHaveEvents, LeavesOff
  <1>2. /\ outbox' \in [Event -> Row]
        /\ outbox'[e] = row
        /\ \A d \in Event : d # e => outbox'[d] = outbox[d]
        /\ upload' = upload
        /\ registered' = registered
    BY <1>1 DEF IInv, TypeOK, LeavesOff
  <1>3. /\ job' \in [Worker -> Job \cup {NoJob}]
        /\ ~Busy(w)'
        /\ \A v \in Worker : v # w => job'[v] = job[v]
    BY DEF IInv, TypeOK, LeavesOff, Busy
  <1>4. \A v \in Worker : Busy(v)' => v # w /\ job'[v] = job[v] /\ Busy(v)
    BY <1>3 DEF Busy
  <1> HIDE DEF e
  <1>5. TypeOK' /\ RegisteredOnce'
    BY <1>2, <1>3 DEF IInv, TypeOK, LeavesOff, RegisteredOnce
  <1>6. DeliveredMeansProcessed'
    BY <1>1, <1>2 DEF IInv, DeliveredMeansProcessed, e
  <1>7. EventsFollowScan'
    BY <1>1, <1>2 DEF IInv, EventsFollowScan
  <1>8. JobsHaveEvents'
    <2> SUFFICES ASSUME NEW v \in Worker, Busy(v)'
                 PROVE  outbox'[job'[v].event].exists
      BY DEF JobsHaveEvents
    <2>1. job'[v] = job[v] /\ Busy(v) /\ job[v].event \in Event
      BY <1>4, BusyTypes DEF IInv
    <2> QED BY <2>1, <1>2 DEF IInv, JobsHaveEvents
  <1>9. AcknowledgedIsProcessed'
    BY <1>2, <1>4 DEF IInv, AcknowledgedIsProcessed, At, Target
  <1>10. ClaimsAgree'
    <2> SUFFICES ASSUME NEW v \in Worker, NEW d \in Event, Busy(v)',
                        outbox'[d].lease # NoLease,
                        outbox'[d].lease.token = job'[v].token
                 PROVE  d = job'[v].event /\ outbox'[d].attempts = job'[v].attempt
      BY DEF ClaimsAgree
    <2>1. outbox'[d] = outbox[d]
      BY <1>2 DEF e
    <2> QED BY <2>1, <1>4 DEF IInv, ClaimsAgree
  <1>11. OpenIsDeliverable'
    <2> SUFFICES ASSUME NEW x \in Upload, Open(x)
                 PROVE  \E g \in 1 .. MaxGenerations :
                           /\ Pending(outbox'[<<x, g>>])
                           /\ \A v \in Worker :
                                 At(v, "dead_letter")' => job'[v].event # <<x, g>>
      BY <1>2 DEF OpenIsDeliverable, Open
    <2>1. PICK g \in 1 .. MaxGenerations :
             /\ Pending(outbox[<<x, g>>])
             /\ \A v \in Worker : At(v, "dead_letter") => job[v].event # <<x, g>>
      BY DEF IInv, OpenIsDeliverable
    <2>2. <<x, g>> \in Event /\ <<x, g>>[1] = x
      BY EventParts
    <2>3. Pending(outbox'[<<x, g>>])
      <3>1. CASE <<x, g>> = e
        <4>1. ~At(w, "dead_letter") /\ upload[Target(w)].status # "PROCESSED"
          BY <2>1, <2>2, <3>1, <1>1 DEF e, Open
        <4> QED BY <4>1, <2>1, <3>1, <1>2 DEF Pending, Settled, e
      <3>2. CASE <<x, g>> # e
        BY <3>2, <2>1, <2>2, <1>2
      <3> QED BY <3>1, <3>2
    <2> QED BY <2>1, <2>3, <1>4 DEF At
  <1>12. LeaseOutlastsWork'
    BY <1>2, <1>4 DEF IInv, LeaseOutlastsWork, At, OwnsUpload, InTime, Target
  <1> QED BY <1>5, <1>6, <1>7, <1>8, <1>9, <1>10, <1>11, <1>12 DEF IInv

\* A delivery that is forgotten without a word.
LEMMA LeavesOffUnchangedIInv ==
    ASSUME IInv, NEW w \in Worker, Busy(w), job' = [job EXCEPT ![w] = NoJob],
           UNCHANGED <<upload, outbox, registered, scans>>,
           faults' \in 0 .. MaxFaults
    PROVE  IInv'
  <1> DEFINE row == outbox[job[w].event]
  <1>1. row \in Row /\ row.exists
    BY BusyTypes DEF IInv, JobsHaveEvents
  <1>2. LeavesOff(w, row)
    BY DEF LeavesOff, IInv, TypeOK
  <1> QED BY <1>1, <1>2, LeavesOffIInv

LEMMA CrashIInv ==
    ASSUME IInv, NEW w \in Worker, Crash(w)
    PROVE  IInv'
  <1>1. faults' \in 0 .. MaxFaults
    BY BoundAssumption DEF Crash, IInv, TypeOK
  <1> QED BY <1>1, LeavesOffUnchangedIInv DEF Crash

LEMMA AcknowledgeEventIInv ==
    ASSUME IInv, NEW w \in Worker, AcknowledgeEvent(w)
    PROVE  IInv'
  <1> DEFINE row == outbox[job[w].event]
  <1>1. /\ Busy(w)
        /\ row \in Row
        /\ row.exists
        /\ upload[Target(w)].status = "PROCESSED"
        /\ faults \in 0 .. MaxFaults
    BY BusyTypes DEF IInv, TypeOK, AcknowledgeEvent, At, AcknowledgedIsProcessed,
                     JobsHaveEvents
  <1>2. CASE OwnsEvent(w)
    <2>1. LeavesOff(w, PublishedRow(row))
      BY <1>1, <1>2 DEF AcknowledgeEvent, LeavesOff
    <2> QED BY <1>1, <2>1, PublishedRowProperties, LeavesOffIInv
  <1>3. CASE ~OwnsEvent(w)
    BY <1>1, <1>3, LeavesOffUnchangedIInv DEF AcknowledgeEvent
  <1> QED BY <1>2, <1>3

\* A process that owns its event has the attempts of the event right.
LEMMA OwnerKnowsAttempts ==
    ASSUME IInv, NEW w \in Worker, Busy(w), OwnsEvent(w)
    PROVE  outbox[job[w].event].attempts = job[w].attempt
  BY BusyTypes DEF IInv, ClaimsAgree, OwnsEvent, Owns, LeaseLive

LEMMA RejectEventIInv ==
    ASSUME IInv, NEW w \in Worker, RejectEvent(w)
    PROVE  IInv'
  <1> DEFINE old == outbox[job[w].event]
  <1>1. /\ Busy(w)
        /\ old \in Row
        /\ old.exists
        /\ faults \in 0 .. MaxFaults
    BY BusyTypes DEF IInv, TypeOK, RejectEvent, At, JobsHaveEvents
  <1>2. CASE OwnsEvent(w)
    <2>1. PICK force \in BOOLEAN, allow \in BOOLEAN :
             force = At(w, "dead_letter") /\ allow = ~At(w, "retry")
      BY DEF At, Busy
    <2> DEFINE row == RejectedRow(old, force, allow)
    <2>2. /\ row \in Row
          /\ row.published = old.published
          /\ row.exists = old.exists
          /\ row.lease = NoLease
      <3>1. force \in BOOLEAN /\ allow \in BOOLEAN /\ old \in Row
        BY <1>1, <2>1
      <3> QED BY <3>1, RejectedRowProperties
    <2>3. row.deadLettered =>
              old.deadLettered \/ force \/ (allow /\ old.attempts >= MaxAttempts)
      BY <1>1, <2>1, RejectedRowProperties
    <2>4. allow /\ old.attempts >= MaxAttempts => force
      BY <1>1, <1>2, <2>1, OwnerKnowsAttempts DEF RejectEvent, Terminal
    <2>5. LeavesOff(w, row)
      BY <1>1, <1>2, <2>1 DEF RejectEvent, LeavesOff
    <2> QED BY <1>1, <2>1, <2>2, <2>3, <2>4, <2>5, LeavesOffIInv
  <1>3. CASE ~OwnsEvent(w)
    BY <1>1, <1>3, LeavesOffUnchangedIInv DEF RejectEvent
  <1> QED BY <1>2, <1>3
-----------------------------------------------------------------------------
LEMMA ClaimEventIInv ==
    ASSUME IInv, NEW w \in Worker, ClaimEvent(w)
    PROVE  IInv'
  <1> DEFINE token == FreshToken(DeliveryTokens)
  <1>1. PICK e \in Event :
          /\ Claimable(outbox[e])
          /\ outbox' = [outbox EXCEPT ![e] = ClaimedRow(outbox[e], w, token)]
          /\ job' = [job EXCEPT ![w] =
                        [event |-> e, token |-> token,
                         attempt |-> ClaimedRow(outbox[e], w, token).attempts,
                         step |-> "claim", ticket |-> NoToken, elapsed |-> 0]]
    BY DEF ClaimEvent
  <1> DEFINE row == ClaimedRow(outbox[e], w, token)
             claim == [event |-> e, token |-> token, attempt |-> row.attempts,
                       step |-> "claim", ticket |-> NoToken, elapsed |-> 0]
  <1>2. /\ ~Busy(w)
        /\ outbox[e] \in Row
        /\ outbox[e].exists
        /\ UNCHANGED <<upload, registered, scans, faults>>
    BY <1>1 DEF ClaimEvent, IInv, TypeOK, Claimable, Pending
  <1>3. /\ token \in Token
        /\ \A v \in Worker : Busy(v) => job[v].token # token
        /\ \A d \in Event : outbox[d].lease # NoLease => outbox[d].lease.token # token
    BY FreshDeliveryToken DEF IInv
  <1> HIDE DEF token
  <1>4. /\ row \in Row
        /\ row.published = outbox[e].published
        /\ row.deadLettered = outbox[e].deadLettered
        /\ row.exists = outbox[e].exists
        /\ row.attempts \in 1 .. AttemptCap
        /\ row.lease = [worker |-> w, token |-> token, left |-> LeaseSeconds]
    BY <1>2, <1>3, ClaimedRowProperties
  <1> HIDE DEF row
  <1>5. claim \in Job
    BY <1>1, <1>3, <1>4, TimeoutAssumption DEF Job
  <1>6. claim.event = e /\ claim.token = token /\ claim.attempt = row.attempts
          /\ claim.step = "claim"
    OBVIOUS
  <1>7. job' = [job EXCEPT ![w] = claim] /\ outbox' = [outbox EXCEPT ![e] = row]
    BY <1>1 DEF row
  <1> HIDE DEF claim
  <1>8. /\ job' \in [Worker -> Job \cup {NoJob}]
        /\ job'[w] = claim
        /\ \A v \in Worker : v # w => job'[v] = job[v]
        /\ outbox' \in [Event -> Row]
        /\ outbox'[e] = row
        /\ \A d \in Event : d # e => outbox'[d] = outbox[d]
    BY <1>1, <1>4, <1>5, <1>7 DEF IInv, TypeOK
  <1>9. \A d \in Event :
          /\ outbox'[d].exists = outbox[d].exists
          /\ outbox'[d].published = outbox[d].published
          /\ outbox'[d].deadLettered = outbox[d].deadLettered
    BY <1>4, <1>8
  <1>10. \A v \in Worker, s \in Step : s # "claim" /\ At(v, s)' => v # w /\ At(v, s)
    BY <1>6, <1>8 DEF At, Busy
  <1>11. TypeOK' /\ RegisteredOnce'
    BY <1>2, <1>8 DEF IInv, TypeOK, RegisteredOnce
  <1>12. DeliveredMeansProcessed' /\ EventsFollowScan'
    BY <1>2, <1>9 DEF IInv, DeliveredMeansProcessed, EventsFollowScan
  <1>13. JobsHaveEvents'
    <2> SUFFICES ASSUME NEW v \in Worker, Busy(v)'
                 PROVE  outbox'[job'[v].event].exists
      BY DEF JobsHaveEvents
    <2>1. CASE v = w
      BY <2>1, <1>2, <1>6, <1>8, <1>4
    <2>2. CASE v # w
      <3>1. Busy(v) /\ job'[v] = job[v] /\ job[v].event \in Event
        BY <2>2, <1>8, BusyTypes DEF Busy, IInv
      <3> QED BY <3>1, <1>9 DEF IInv, JobsHaveEvents
    <2> QED BY <2>1, <2>2
  <1>14. AcknowledgedIsProcessed'
    BY <1>2, <1>8, <1>10 DEF IInv, AcknowledgedIsProcessed, Target, Step
  <1>15. ClaimsAgree'
    <2> SUFFICES ASSUME NEW v \in Worker, NEW d \in Event, Busy(v)',
                        outbox'[d].lease # NoLease,
                        outbox'[d].lease.token = job'[v].token
                 PROVE  d = job'[v].event /\ outbox'[d].attempts = job'[v].attempt
      BY DEF ClaimsAgree
    <2>1. CASE v = w
      <3>1. d = e
        BY <2>1, <1>3, <1>6, <1>8
      <3> QED BY <2>1, <3>1, <1>6, <1>8
    <2>2. CASE v # w
      <3>1. job'[v] = job[v] /\ Busy(v)
        BY <2>2, <1>8 DEF Busy
      <3>2. d # e
        BY <3>1, <1>3, <1>4, <1>8
      <3> QED BY <3>1, <3>2, <1>8 DEF IInv, ClaimsAgree
    <2> QED BY <2>1, <2>2
  <1>16. OpenIsDeliverable'
    <2> SUFFICES ASSUME NEW x \in Upload, Open(x)
                 PROVE  \E g \in 1 .. MaxGenerations :
                           /\ Pending(outbox'[<<x, g>>])
                           /\ \A v \in Worker :
                                 At(v, "dead_letter")' => job'[v].event # <<x, g>>
      BY <1>2 DEF OpenIsDeliverable, Open
    <2>1. PICK g \in 1 .. MaxGenerations :
             /\ Pending(outbox[<<x, g>>])
             /\ \A v \in Worker : At(v, "dead_letter") => job[v].event # <<x, g>>
      BY DEF IInv, OpenIsDeliverable
    <2>2. Pending(outbox'[<<x, g>>])
      BY <2>1, <1>9, EventParts DEF Pending, Settled
    <2> QED BY <2>1, <2>2, <1>8, <1>10 DEF Step
  <1>17. LeaseOutlastsWork'
    BY <1>2, <1>8, <1>10
       DEF IInv, LeaseOutlastsWork, OwnsUpload, InTime, Target, Step
  <1> QED BY <1>11, <1>12, <1>13, <1>14, <1>15, <1>16, <1>17 DEF IInv

LEMMA CompleteProcessingIInv ==
    ASSUME IInv, NEW w \in Worker, CompleteProcessing(w)
    PROVE  IInv'
  <1> DEFINE u == Target(w)
             row == [upload[u] EXCEPT !.status = "PROCESSED", !.lease = NoLease]
  <1>1. /\ Busy(w)
        /\ u \in Upload
        /\ upload[u] \in UploadRow
        /\ upload[u].status = "PROCESSING"
        /\ Goto(w, "acknowledge")
        /\ UNCHANGED <<outbox, scans, faults>>
    BY BusyTypes DEF CompleteProcessing, At, OwnsUpload, IInv
  <1>2. row \in UploadRow /\ row.status = "PROCESSED" /\ row.lease = NoLease
    BY <1>1 DEF UploadRow, Status
  <1>3. upload' = [upload EXCEPT ![u] = row]
    BY <1>1 DEF CompleteProcessing, IInv, TypeOK
  <1>4. registered' = [registered EXCEPT ![u] = 1]
    <2>1. registered[u] = 0
      BY <1>1 DEF IInv, RegisteredOnce
    <2>2. registered' = [registered EXCEPT ![u] =
                            IF registered[u] < 2 THEN registered[u] + 1 ELSE registered[u]]
      BY DEF CompleteProcessing
    <2> QED BY <2>1, <2>2
  <1> HIDE DEF row
  <1>5. GoesOn(w, "acknowledge", row)
    BY <1>1, <1>2, <1>3, <1>4 DEF GoesOn, IInv, TypeOK, Revisions
  <1> QED BY <1>1, <1>2, <1>5, GoesOnIInv, EndSteps DEF Unscanned, OpenStatus

LEMMA StartProcessingIInv ==
    ASSUME IInv, NEW w \in Worker, StartProcessing(w)
    PROVE  IInv'
  <1> DEFINE u == Target(w)
             token == FreshToken(ProcessingTokens)
             row == [status |-> "PROCESSING", attempts |-> upload[u].attempts + 1,
                     lease |-> FreshLease(w, token)]
             next == [job[w] EXCEPT !.step = "process", !.ticket = token]
  <1>1. /\ At(w, "claim")
        /\ Busy(w)
        /\ job[w] \in Job
        /\ u \in Upload
        /\ u = job[w].event[1]
        /\ upload[u] \in UploadRow
        /\ upload[u].attempts < MaxAttempts
        /\ upload[u].status \in OpenStatus
        /\ UNCHANGED <<outbox, registered, scans, faults>>
    BY BusyTypes DEF StartProcessing, At, IInv, Startable, OpenStatus
  <1>2. token \in Token
    BY FreshProcessingToken DEF IInv
  <1>3. upload' = [upload EXCEPT ![u] = row]
    BY DEF StartProcessing
  <1>4. job' = [job EXCEPT ![w] = next]
    BY <1>1 DEF StartProcessing, IInv, TypeOK
  <1> HIDE DEF token
  <1>5. row \in UploadRow
    <2>1. FreshLease(w, token) \in Lease
      BY <1>2, PolicyAssumption DEF FreshLease, Lease
    <2>2. upload[u].attempts + 1 \in 0 .. MaxAttempts
      BY <1>1, PolicyAssumption DEF UploadRow
    <2> QED BY <2>1, <2>2 DEF UploadRow, Status
  <1>6. row.status = "PROCESSING" /\ row.lease = [worker |-> w, token |-> token, left |-> LeaseSeconds]
    BY DEF FreshLease
  <1>7. next \in Job
    BY <1>1, <1>2 DEF Job
  <1>8. /\ next.step = "process"
        /\ next.event = job[w].event
        /\ next.token = job[w].token
        /\ next.attempt = job[w].attempt
        /\ next.ticket = token
        /\ next.elapsed \in Nat
    BY <1>1, TimeoutAssumption DEF Job
  <1> HIDE DEF row, next
  <1>9. /\ upload' \in [Upload -> UploadRow]
        /\ upload'[u] = row
        /\ \A x \in Upload : x # u => upload'[x] = upload[x]
        /\ job' \in [Worker -> Job \cup {NoJob}]
        /\ job'[w] = next
        /\ \A v \in Worker : v # w => job'[v] = job[v]
    BY <1>1, <1>3, <1>4, <1>5, <1>7 DEF IInv, TypeOK
  <1> HIDE DEF u
  <1>10. \A v \in Worker : (Busy(v)' <=> Busy(v))
           /\ (Busy(v) => /\ job'[v].event = job[v].event
                          /\ job'[v].token = job[v].token
                          /\ job'[v].attempt = job[v].attempt)
    BY <1>1, <1>7, <1>8, <1>9, NoJobAssumption DEF Busy
  <1>11. \A v \in Worker, s \in Step : s # "process" /\ At(v, s)' => v # w /\ At(v, s)
    BY <1>8, <1>9 DEF At, Busy
  <1>12. \A x \in Upload :
           /\ upload[x].status = "PROCESSED" <=> upload'[x].status = "PROCESSED"
           /\ upload'[x].status \in Unscanned => upload[x].status \in Unscanned
           /\ upload'[x].status \in OpenStatus => upload[x].status \in OpenStatus
    BY <1>1, <1>6, <1>9 DEF OpenStatus, Unscanned
  <1>13. TypeOK'
    BY <1>1, <1>9 DEF IInv, TypeOK
  <1>14. RegisteredOnce'
    BY <1>1, <1>12 DEF IInv, RegisteredOnce
  <1>15. DeliveredMeansProcessed' /\ EventsFollowScan'
    BY <1>1, <1>12, EventParts
       DEF IInv, DeliveredMeansProcessed, EventsFollowScan, Unscanned
  <1>16. JobsHaveEvents' /\ ClaimsAgree'
    BY <1>1, <1>10 DEF IInv, JobsHaveEvents, ClaimsAgree
  <1>17. AcknowledgedIsProcessed'
    <2> SUFFICES ASSUME NEW v \in Worker, At(v, "acknowledge")'
                 PROVE  upload'[job'[v].event[1]].status = "PROCESSED"
      BY DEF AcknowledgedIsProcessed, Target
    <2>1. At(v, "acknowledge") /\ job'[v] = job[v]
      BY <1>9, <1>11 DEF Step
    <2>2. job[v].event[1] \in Upload /\ upload[job[v].event[1]].status = "PROCESSED"
      BY <2>1, BusyTypes DEF IInv, AcknowledgedIsProcessed, At, Target
    <2> QED BY <2>1, <2>2, <1>12
  <1>18. OpenIsDeliverable'
    <2> SUFFICES ASSUME NEW x \in Upload, Open(x)'
                 PROVE  \E g \in 1 .. MaxGenerations :
                           /\ Pending(outbox[<<x, g>>])
                           /\ \A v \in Worker :
                                 At(v, "dead_letter")' => job'[v].event # <<x, g>>
      BY <1>1 DEF OpenIsDeliverable
    <2>1. Open(x)
      BY <1>12 DEF Open, OpenStatus
    <2> QED BY <2>1, <1>9, <1>11 DEF IInv, OpenIsDeliverable, Step
  <1>19. LeaseOutlastsWork'
    <2> SUFFICES ASSUME NEW v \in Worker, At(v, "process")', OwnsUpload(v)', InTime(v)'
                 PROVE  upload'[Target(v)'].lease.left + job'[v].elapsed >= LeaseSeconds
      BY DEF LeaseOutlastsWork
    <2>1. CASE v = w
      <3>1. Target(v)' = u
        BY <2>1, <1>1, <1>8, <1>9 DEF Target
      <3> QED BY <2>1, <3>1, <1>6, <1>8, <1>9, PolicyAssumption
    <2>2. CASE v # w
      <3>1. /\ job'[v] = job[v]
            /\ Busy(v)
            /\ Target(v)' = Target(v)
            /\ Target(v) \in Upload
        BY <2>2, <1>9, BusyTypes DEF At, Busy, Target, IInv
      <3>2. upload'[Target(v)].lease.worker = v
        BY <3>1 DEF OwnsUpload
      <3>3. Target(v) # u
        BY <3>2, <2>2, <1>6, <1>9
      <3>4. upload'[Target(v)] = upload[Target(v)]
        BY <3>1, <3>3, <1>9
      <3>5. At(v, "process") /\ OwnsUpload(v) /\ InTime(v)
        BY <3>1, <3>4 DEF At, Busy, OwnsUpload, InTime
      <3> QED BY <3>1, <3>4, <3>5 DEF IInv, LeaseOutlastsWork
    <2> QED BY <2>1, <2>2
  <1> QED BY <1>13, <1>14, <1>15, <1>16, <1>17, <1>18, <1>19 DEF IInv
-----------------------------------------------------------------------------
\* A transaction outside the deliveries gives the upload u the row `row' and
\* inserts an event of u exactly when this makes it CLEAN.
Decides(u, row) ==
    /\ upload' = [upload EXCEPT ![u] = row]
    /\ outbox' \in [Event -> Row]
    /\ \A e \in Event :
          \/ outbox'[e] = outbox[e]
          \/ outbox'[e] = InsertedRow /\ ~outbox[e].exists /\ e[1] = u /\ row.status = "CLEAN"
    /\ row.status = "CLEAN" =>
          \E g \in 1 .. MaxGenerations :
              outbox'[<<u, g>>] = InsertedRow /\ ~outbox[<<u, g>>].exists
    /\ scans' \in [Upload -> 0 .. MaxScans]
    /\ UNCHANGED <<job, registered, faults>>

LEMMA DecidesIInv ==
    ASSUME IInv, NEW u \in Upload, NEW row \in UploadRow, Decides(u, row),
           upload[u].status # "PROCESSED",
           row.status \in Unscanned \cup {"CLEAN"},
           row.status \in Unscanned => upload[u].status \in Unscanned
    PROVE  IInv'
  <1>1. /\ upload' \in [Upload -> UploadRow]
        /\ upload'[u] = row
        /\ \A x \in Upload : x # u => upload'[x] = upload[x]
        /\ job' = job
        /\ registered' = registered
    BY DEF IInv, TypeOK, Decides
  <1>2. /\ InsertedRow.exists
        /\ InsertedRow.lease = NoLease
        /\ ~InsertedRow.published
        /\ Pending(InsertedRow)
    BY DEF InsertedRow, AbsentRow, Pending, Settled
  <1>3. row.status \notin {"PROCESSED", "PROCESSING", "PROCESSING_FAILED"}
    BY DEF Unscanned
  <1>4. \A v \in Worker : (Busy(v)' <=> Busy(v)) /\ \A s \in Step : At(v, s)' <=> At(v, s)
    BY <1>1 DEF At, Busy
  <1>5. \A e \in Event : outbox[e].exists => outbox'[e] = outbox[e]
    BY DEF Decides
  <1>6. TypeOK' /\ RegisteredOnce'
    BY <1>1, <1>3 DEF IInv, TypeOK, RegisteredOnce, Decides
  <1>7. DeliveredMeansProcessed'
    <2> SUFFICES ASSUME NEW e \in Event, outbox'[e].published
                 PROVE  upload'[e[1]].status = "PROCESSED"
      BY DEF DeliveredMeansProcessed
    <2>1. outbox[e].published
      BY <1>2 DEF Decides
    <2> QED BY <2>1, <1>1, EventParts DEF IInv, DeliveredMeansProcessed
  <1>8. EventsFollowScan'
    <2> SUFFICES ASSUME NEW e \in Event, outbox'[e].exists
                 PROVE  upload'[e[1]].status \notin Unscanned
      BY DEF EventsFollowScan, Unscanned
    <2>1. CASE e[1] # u
      <3>1. outbox'[e] = outbox[e]
        BY <2>1 DEF Decides
      <3> QED BY <2>1, <3>1, <1>1, EventParts DEF IInv, EventsFollowScan, Unscanned
    <2>2. CASE e[1] = u
      <3>1. outbox[e].exists \/ row.status = "CLEAN"
        BY DEF Decides
      <3> QED BY <2>2, <3>1, <1>1 DEF IInv, EventsFollowScan, Unscanned
    <2> QED BY <2>1, <2>2
  <1>9. JobsHaveEvents'
    <2> SUFFICES ASSUME NEW v \in Worker, Busy(v)
                 PROVE  outbox'[job[v].event].exists
      BY <1>1, <1>4 DEF JobsHaveEvents
    <2>1. job[v].event \in Event /\ outbox[job[v].event].exists
      BY BusyTypes DEF IInv, JobsHaveEvents
    <2> QED BY <2>1, <1>5
  <1>10. AcknowledgedIsProcessed'
    <2> SUFFICES ASSUME NEW v \in Worker, At(v, "acknowledge")
                 PROVE  upload'[Target(v)].status = "PROCESSED"
      BY <1>1, <1>4 DEF AcknowledgedIsProcessed, Target, Step
    <2>1. upload[Target(v)].status = "PROCESSED" /\ Target(v) \in Upload
      BY BusyTypes DEF IInv, AcknowledgedIsProcessed, At
    <2> QED BY <2>1, <1>1
  <1>11. ClaimsAgree'
    <2> SUFFICES ASSUME NEW v \in Worker, NEW e \in Event, Busy(v),
                        outbox'[e].lease # NoLease,
                        outbox'[e].lease.token = job[v].token
                 PROVE  e = job[v].event /\ outbox'[e].attempts = job[v].attempt
      BY <1>1, <1>4 DEF ClaimsAgree
    <2>1. outbox'[e] = outbox[e]
      BY <1>2 DEF Decides
    <2> QED BY <2>1 DEF IInv, ClaimsAgree
  <1>12. OpenIsDeliverable'
    <2> SUFFICES ASSUME NEW x \in Upload, Open(x)'
                 PROVE  \E g \in 1 .. MaxGenerations :
                           /\ Pending(outbox'[<<x, g>>])
                           /\ \A v \in Worker :
                                 At(v, "dead_letter") => job[v].event # <<x, g>>
      BY <1>1, <1>4 DEF OpenIsDeliverable, Step
    <2>1. CASE x = u
      <3>1. PICK g \in 1 .. MaxGenerations :
               outbox'[<<u, g>>] = InsertedRow /\ ~outbox[<<u, g>>].exists
        BY <2>1, <1>1, <1>3 DEF Open, Decides
      <3>2. \A v \in Worker : Busy(v) => job[v].event # <<u, g>>
        BY <3>1 DEF IInv, JobsHaveEvents
      <3> QED BY <2>1, <3>1, <3>2, <1>2 DEF At
    <2>2. CASE x # u
      <3>1. Open(x)
        BY <2>2, <1>1 DEF Open
      <3>2. PICK g \in 1 .. MaxGenerations :
               /\ Pending(outbox[<<x, g>>])
               /\ \A v \in Worker : At(v, "dead_letter") => job[v].event # <<x, g>>
        BY <3>1 DEF IInv, OpenIsDeliverable
      <3>3. Pending(outbox'[<<x, g>>])
        BY <3>2, <1>5, EventParts DEF Pending
      <3> QED BY <3>2, <3>3
    <2> QED BY <2>1, <2>2
  <1>13. LeaseOutlastsWork'
    <2> SUFFICES ASSUME NEW v \in Worker, At(v, "process"), OwnsUpload(v)', InTime(v)
                 PROVE  upload'[Target(v)].lease.left + job[v].elapsed >= LeaseSeconds
      BY <1>1, <1>4 DEF LeaseOutlastsWork, InTime, Target, Step
    <2>1. Target(v) \in Upload /\ upload'[Target(v)].status = "PROCESSING"
      BY <1>1, BusyTypes DEF At, OwnsUpload, Target, IInv
    <2>2. upload'[Target(v)] = upload[Target(v)]
      BY <2>1, <1>1, <1>3
    <2>3. OwnsUpload(v)
      BY <2>2, <1>1 DEF OwnsUpload, Target
    <2> QED BY <2>2, <2>3 DEF IInv, LeaseOutlastsWork
  <1> QED BY <1>6, <1>7, <1>8, <1>9, <1>10, <1>11, <1>12, <1>13 DEF IInv

LEMMA RecordScanResultIInv ==
    ASSUME IInv, NEW u \in Upload, NEW verdict \in {"CLEAN", "REJECTED", "SCAN_FAILED"},
           RecordScanResult(u, verdict)
    PROVE  IInv'
  <1> DEFINE row == [upload[u] EXCEPT !.status = verdict]
  <1>1. /\ row \in UploadRow
        /\ row.status = verdict
        /\ upload[u].status \in {"QUARANTINED", "SCAN_FAILED"}
    BY DEF RecordScanResult, IInv, TypeOK, UploadRow, Status
  <1>2. upload' = [upload EXCEPT ![u] = row]
    BY DEF RecordScanResult
  <1> HIDE DEF row
  <1>3. \A e \in Event : e[1] = u => ~outbox[e].exists
    BY <1>1 DEF IInv, EventsFollowScan
  <1>4. <<u, 1>> \in Event /\ <<u, 1>>[1] = u /\ 1 \in 1 .. MaxGenerations
    BY EventParts
  <1>5. outbox' = IF verdict = "CLEAN" THEN [outbox EXCEPT ![<<u, 1>>] = InsertedRow]
                  ELSE outbox
    BY DEF RecordScanResult
  <1>6. /\ outbox' \in [Event -> Row]
        /\ \A e \in Event :
              \/ outbox'[e] = outbox[e]
              \/ outbox'[e] = InsertedRow /\ ~outbox[e].exists /\ e[1] = u
                   /\ verdict = "CLEAN"
        /\ verdict = "CLEAN" => outbox'[<<u, 1>>] = InsertedRow /\ ~outbox[<<u, 1>>].exists
    BY <1>3, <1>4, <1>5, RowTyped DEF IInv, TypeOK
  <1>7. scans' \in [Upload -> 0 .. MaxScans]
    <2>1. scans[u] + 1 \in 0 .. MaxScans
      BY BoundAssumption DEF RecordScanResult, IInv, TypeOK
    <2> QED BY <2>1 DEF RecordScanResult, IInv, TypeOK
  <1>8. Decides(u, row)
    BY <1>1, <1>2, <1>4, <1>6, <1>7 DEF Decides, RecordScanResult
  <1> QED BY <1>1, <1>8, DecidesIInv DEF Unscanned

LEMMA RequeueProcessingIInv ==
    ASSUME IInv, NEW u \in Upload, RequeueProcessing(u)
    PROVE  IInv'
  <1> DEFINE row == [upload[u] EXCEPT !.status = "CLEAN", !.attempts = 0]
  <1>1. /\ row \in UploadRow
        /\ row.status = "CLEAN"
        /\ upload[u].status = "PROCESSING_DEAD_LETTERED"
    <2>1. upload[u] \in UploadRow /\ 0 \in 0 .. MaxAttempts
      BY PolicyAssumption DEF IInv, TypeOK
    <2>2. row \in UploadRow /\ row.status = "CLEAN"
      BY <2>1 DEF UploadRow, Status
    <2> QED BY <2>2 DEF RequeueProcessing
  <1>2. upload' = [upload EXCEPT ![u] = row]
    BY DEF RequeueProcessing, IInv, TypeOK
  <1> HIDE DEF row
  <1>3. PICK g \in 2 .. MaxGenerations :
          ~outbox[<<u, g>>].exists /\ outbox' = [outbox EXCEPT ![<<u, g>>] = InsertedRow]
    BY DEF RequeueProcessing
  <1>4. g \in 1 .. MaxGenerations /\ <<u, g>> \in Event /\ <<u, g>>[1] = u
    BY <1>3, EventParts
  <1>5. /\ outbox' \in [Event -> Row]
        /\ \A e \in Event : \/ outbox'[e] = outbox[e]
                            \/ outbox'[e] = InsertedRow /\ e = <<u, g>>
        /\ outbox'[<<u, g>>] = InsertedRow
    BY <1>3, <1>4, RowTyped DEF IInv, TypeOK
  <1>6. \A e \in Event :
          \/ outbox'[e] = outbox[e]
          \/ outbox'[e] = InsertedRow /\ ~outbox[e].exists /\ e[1] = u /\ row.status = "CLEAN"
    BY <1>1, <1>3, <1>4, <1>5
  <1>7. \E h \in 1 .. MaxGenerations :
          outbox'[<<u, h>>] = InsertedRow /\ ~outbox[<<u, h>>].exists
    BY <1>3, <1>4, <1>5
  <1>8. scans' \in [Upload -> 0 .. MaxScans] /\ UNCHANGED <<job, registered, faults>>
    BY DEF RequeueProcessing, IInv, TypeOK
  <1>9. Decides(u, row)
    BY <1>2, <1>5, <1>6, <1>7, <1>8 DEF Decides
  <1> QED BY <1>1, <1>9, DecidesIInv DEF Unscanned

LEMMA TickIInv ==
    ASSUME IInv, Tick
    PROVE  IInv'
  <1>1. \A e \in Event :
          /\ outbox'[e] \in Row
          /\ outbox'[e].exists = outbox[e].exists
          /\ outbox'[e].published = outbox[e].published
          /\ outbox'[e].deadLettered = outbox[e].deadLettered
          /\ outbox'[e].attempts = outbox[e].attempts
          /\ outbox'[e].lease = NoLease <=> outbox[e].lease = NoLease
          /\ outbox[e].lease # NoLease => outbox'[e].lease.token = outbox[e].lease.token
    <2>1. \A e \in Event : outbox[e] \in Row /\ outbox'[e] = AgedRow(outbox[e])
      BY DEF IInv, TypeOK, Tick
    <2> QED BY <2>1, AgedRowProperties
  <1>2. \A u \in Upload :
          /\ upload'[u] \in UploadRow
          /\ upload'[u].status = upload[u].status
          /\ upload'[u].lease = AgedLease(upload[u].lease)
          /\ upload[u].lease \in Lease \cup {NoLease}
    <2> SUFFICES ASSUME NEW u \in Upload
                 PROVE  /\ upload'[u] \in UploadRow
                        /\ upload'[u].status = upload[u].status
                        /\ upload'[u].lease = AgedLease(upload[u].lease)
                        /\ upload[u].lease \in Lease \cup {NoLease}
      OBVIOUS
    <2>1. upload[u] \in UploadRow
      BY DEF IInv, TypeOK
    <2>2. upload[u].lease \in Lease \cup {NoLease}
      BY <2>1 DEF UploadRow
    <2>3. AgedLease(upload[u].lease) \in Lease \cup {NoLease}
      BY <2>2, AgedLeaseProperties
    <2>4. upload'[u] = [upload[u] EXCEPT !.lease = AgedLease(upload[u].lease)]
      BY DEF Tick
    <2> QED BY <2>1, <2>2, <2>3, <2>4 DEF UploadRow
  <1>3. \A w \in Worker :
          /\ job'[w] \in Job \cup {NoJob}
          /\ Busy(w)' <=> Busy(w)
          /\ Busy(w) => /\ job'[w].event = job[w].event
                        /\ job'[w].token = job[w].token
                        /\ job'[w].attempt = job[w].attempt
                        /\ job'[w].step = job[w].step
                        /\ job'[w].ticket = job[w].ticket
          /\ At(w, "process") /\ InTime(w) => job'[w].elapsed = job[w].elapsed + 1
          /\ ~(At(w, "process") /\ InTime(w)) => job'[w] = job[w]
    <2> SUFFICES ASSUME NEW w \in Worker
                 PROVE  /\ job'[w] \in Job \cup {NoJob}
                        /\ Busy(w)' <=> Busy(w)
                        /\ Busy(w) => /\ job'[w].event = job[w].event
                                      /\ job'[w].token = job[w].token
                                      /\ job'[w].attempt = job[w].attempt
                                      /\ job'[w].step = job[w].step
                                      /\ job'[w].ticket = job[w].ticket
                        /\ At(w, "process") /\ InTime(w)
                              => job'[w].elapsed = job[w].elapsed + 1
                        /\ ~(At(w, "process") /\ InTime(w)) => job'[w] = job[w]
      OBVIOUS
    <2>1. CASE At(w, "process") /\ InTime(w)
      <3>1. job[w] \in Job
        BY <2>1, BusyTypes DEF At, IInv
      <3>2. job'[w] = [job[w] EXCEPT !.elapsed = job[w].elapsed + 1]
        BY <2>1 DEF Tick
      <3>3. job[w].elapsed + 1 \in 0 .. TimeoutSeconds + 1
        BY <2>1, <3>1, TimeoutAssumption DEF InTime, Job
      <3>4. job'[w] \in Job
        BY <3>1, <3>2, <3>3 DEF Job
      <3> QED BY <2>1, <3>1, <3>2, <3>4, NoJobAssumption DEF Busy, At, Job
    <2>2. CASE ~(At(w, "process") /\ InTime(w))
      <3>1. job'[w] = job[w]
        BY <2>2 DEF Tick
      <3> QED BY <2>2, <3>1 DEF Busy, IInv, TypeOK
    <2> QED BY <2>1, <2>2
  <1>4. registered' = registered /\ scans' = scans /\ faults' \in 0 .. MaxFaults
    BY BoundAssumption DEF Tick, IInv, TypeOK
  <1>5. \A w \in Worker, s \in Step : At(w, s)' <=> At(w, s)
    BY <1>3 DEF At
  <1>6. TypeOK'
    <2>1. /\ outbox' = [e \in Event |-> outbox'[e]]
          /\ upload' = [u \in Upload |-> upload'[u]]
          /\ job' = [w \in Worker |-> job'[w]]
      BY DEF Tick
    <2> QED BY <2>1, <1>1, <1>2, <1>3, <1>4 DEF TypeOK, IInv
  <1>7. RegisteredOnce' /\ DeliveredMeansProcessed' /\ EventsFollowScan'
    BY <1>1, <1>2, <1>4, EventParts
       DEF IInv, RegisteredOnce, DeliveredMeansProcessed, EventsFollowScan
  <1>8. JobsHaveEvents' /\ ClaimsAgree'
    <2>1. JobsHaveEvents'
      BY <1>1, <1>3, BusyTypes DEF IInv, JobsHaveEvents
    <2>2. ClaimsAgree'
      BY <1>1, <1>3 DEF IInv, ClaimsAgree
    <2> QED BY <2>1, <2>2
  <1>9. AcknowledgedIsProcessed'
    <2> SUFFICES ASSUME NEW v \in Worker, At(v, "acknowledge")
                 PROVE  upload'[job'[v].event[1]].status = "PROCESSED"
      BY <1>5 DEF AcknowledgedIsProcessed, Target, Step
    <2>1. /\ Busy(v)
          /\ upload[job[v].event[1]].status = "PROCESSED"
          /\ job[v].event[1] \in Upload
      BY BusyTypes DEF IInv, AcknowledgedIsProcessed, At, Target
    <2> QED BY <2>1, <1>2, <1>3
  <1>10. OpenIsDeliverable'
    <2> SUFFICES ASSUME NEW x \in Upload, Open(x)'
                 PROVE  \E g \in 1 .. MaxGenerations :
                           /\ Pending(outbox'[<<x, g>>])
                           /\ \A v \in Worker :
                                 At(v, "dead_letter")' => job'[v].event # <<x, g>>
      BY DEF OpenIsDeliverable
    <2>1. Open(x)
      BY <1>2 DEF Open
    <2>2. PICK g \in 1 .. MaxGenerations :
             /\ Pending(outbox[<<x, g>>])
             /\ \A v \in Worker : At(v, "dead_letter") => job[v].event # <<x, g>>
      BY <2>1 DEF IInv, OpenIsDeliverable
    <2>3. Pending(outbox'[<<x, g>>])
      BY <2>2, <1>1, EventParts DEF Pending, Settled
    <2>4. \A v \in Worker : At(v, "dead_letter")' => job'[v].event = job[v].event
      BY <1>3, <1>5 DEF At, Step
    <2> QED BY <2>2, <2>3, <2>4, <1>5 DEF Step
  <1>11. LeaseOutlastsWork'
    <2> SUFFICES ASSUME NEW v \in Worker, At(v, "process")', OwnsUpload(v)', InTime(v)'
                 PROVE  upload'[Target(v)'].lease.left + job'[v].elapsed >= LeaseSeconds
      BY DEF LeaseOutlastsWork
    <2>1. At(v, "process") /\ Busy(v) /\ job[v] \in Job
      BY <1>5, BusyTypes DEF Step, At, IInv
    <2>2. Target(v)' = Target(v) /\ Target(v) \in Upload
      BY <2>1, <1>3, BusyTypes DEF Target, IInv
    <2>3. InTime(v) /\ job'[v].elapsed = job[v].elapsed + 1
      <3>1. ~InTime(v) => job'[v] = job[v]
        BY <1>3
      <3> QED BY <3>1, <2>1, <1>3 DEF InTime
    <2>4. /\ upload[Target(v)].lease \in Lease
          /\ OwnsUpload(v)
          /\ upload'[Target(v)].lease.left = CountDown(upload[Target(v)].lease.left)
      BY <2>1, <2>2, <1>2, <1>3, AgedLeaseProperties DEF OwnsUpload
    <2>5. upload[Target(v)].lease.left + job[v].elapsed >= LeaseSeconds
      BY <2>1, <2>3, <2>4 DEF IInv, LeaseOutlastsWork
    <2>6. upload[Target(v)].lease.left \in Nat /\ job[v].elapsed \in Nat
      BY <2>1, <2>4, PolicyAssumption, TimeoutAssumption DEF Lease, Job
    <2> QED BY <2>2, <2>3, <2>4, <2>5, <2>6, PolicyAssumption DEF CountDown
  <1> QED BY <1>6, <1>7, <1>8, <1>9, <1>10, <1>11 DEF IInv
-----------------------------------------------------------------------------
(* The theorems.                                                            *)

LEMMA NextIInv == IInv /\ [Next]_vars => IInv'
  <1> SUFFICES ASSUME IInv, [Next]_vars PROVE IInv'
    OBVIOUS
  <1>1. CASE UNCHANGED vars
    BY <1>1 DEF vars, IInv, TypeOK, RegisteredOnce, DeliveredMeansProcessed,
                EventsFollowScan, JobsHaveEvents, AcknowledgedIsProcessed,
                ClaimsAgree, OpenIsDeliverable, LeaseOutlastsWork,
                Busy, Target, At, Open, OwnsUpload, InTime
  <1>2. ASSUME NEW u \in Upload, NEW verdict \in {"CLEAN", "REJECTED", "SCAN_FAILED"},
               RecordScanResult(u, verdict)
        PROVE  IInv'
    BY <1>2, RecordScanResultIInv
  <1>3. ASSUME NEW u \in Upload, RequeueProcessing(u)
        PROVE  IInv'
    BY <1>3, RequeueProcessingIInv
  <1>4. ASSUME NEW w \in Worker, ClaimEvent(w) \/ TransactionFails(w) \/ Crash(w)
        PROVE  IInv'
    BY <1>4, ClaimEventIInv, TransactionFailsIInv, CrashIInv
  <1>5. ASSUME NEW w \in Worker, Work(w)
        PROVE  IInv'
    BY <1>5, FindUploadFinishedIInv, RefuseUploadIInv, ExhaustUploadIInv,
       StartProcessingIInv, CompleteProcessingIInv, AbandonProcessingIInv,
       RecordFailureIInv, DeadLetterUploadIInv, AcknowledgeEventIInv,
       RejectEventIInv DEF Work
  <1>6. CASE Tick
    BY <1>6, TickIInv
  <1> QED BY <1>1, <1>2, <1>3, <1>4, <1>5, <1>6 DEF Next

LEMMA Invariance == Spec => []IInv
  BY InitIInv, NextIInv, PTL DEF Spec

\* However many processes deliver an upload, however they crash and are
\* overtaken, and however often it is replayed: one revision is made from it.
THEOREM OneRevision == Spec => []RegisteredOnce
  <1>1. IInv => RegisteredOnce
    BY DEF IInv
  <1> QED BY <1>1, Invariance, PTL

\* An acknowledged event belongs to a processed upload, and an upload that is
\* still to be processed has an event that will be delivered.
THEOREM NothingIsLost == Spec => []UploadStands
  <1>1. IInv => UploadStands
    <2> SUFFICES ASSUME IInv PROVE NoOrphanedUpload
      BY DEF IInv, UploadStands
    <2> QED BY DEF IInv, OpenIsDeliverable, NoOrphanedUpload
  <1> QED BY <1>1, Invariance, PTL

\* Only _complete makes a revision.
LEMMA RegisteredByOwner ==
    ASSUME IInv, [Next]_vars, NEW u \in Upload, registered'[u] # registered[u]
    PROVE  \E w \in Worker : CompleteProcessing(w) /\ Target(w) = u
  <1>1. PICK w \in Worker : CompleteProcessing(w)
    BY DEF Next, vars, Work, RecordScanResult, RequeueProcessing, ClaimEvent,
           TransactionFails, Crash, FindUploadFinished, RefuseUpload,
           ExhaustUpload, StartProcessing, AbandonProcessing, RecordFailure,
           DeadLetterUpload, AcknowledgeEvent, RejectEvent, Tick
  <1>2. Target(w) \in Upload
    BY <1>1, BusyTypes DEF CompleteProcessing, At, IInv
  <1>3. \A x \in Upload : x # Target(w) => registered'[x] = registered[x]
    BY <1>1, <1>2 DEF CompleteProcessing, IInv, TypeOK
  <1> QED BY <1>1, <1>3

\* The process that registers a revision still has the lease of the upload:
\* the timeout is shorter than the lease, and the lease began first.
THEOREM CompletionHoldsTheLease == Spec => CompletedUnderLease
  <1>1. ASSUME IInv, [Next]_vars, NEW u \in Upload, registered'[u] # registered[u]
        PROVE  /\ LeaseLive(upload[u])
               /\ \E w \in Worker : /\ Busy(w)
                                    /\ Target(w) = u
                                    /\ upload[u].lease.token = job[w].ticket
    <2>1. PICK w \in Worker : CompleteProcessing(w) /\ Target(w) = u
      BY <1>1, RegisteredByOwner
    <2>2. At(w, "process") /\ Busy(w) /\ OwnsUpload(w) /\ InTime(w)
      BY <2>1 DEF CompleteProcessing, At
    <2>3. upload[u].lease.left + job[w].elapsed >= LeaseSeconds
      BY <1>1, <2>1, <2>2 DEF IInv, LeaseOutlastsWork
    <2>4. job[w].elapsed \in Nat /\ job[w].elapsed <= TimeoutSeconds
      BY <1>1, <2>2, BusyTypes, TimeoutAssumption DEF InTime, IInv, Job
    <2>5. upload[u].lease # NoLease /\ upload[u].lease.left \in Nat
      BY <1>1, <2>1, <2>2, PolicyAssumption
         DEF IInv, TypeOK, UploadRow, Lease, OwnsUpload
    <2>6. LeaseLive(upload[u])
      BY <2>3, <2>4, <2>5, TimeoutAssumption, PolicyAssumption DEF LeaseLive
    <2> QED BY <2>1, <2>2, <2>6 DEF OwnsUpload
  <1>2. IInv /\ [Next]_vars =>
          \A u \in Upload :
            registered'[u] # registered[u] =>
                /\ LeaseLive(upload[u])
                /\ \E w \in Worker : /\ Busy(w)
                                     /\ Target(w) = u
                                     /\ upload[u].lease.token = job[w].ticket
    BY <1>1
  <1> QED BY <1>2, Invariance, PTL DEF Spec, CompletedUnderLease

\* While the lease of an upload is live, nothing takes the upload from its
\* process but a delivery that has used up its attempts.
THEOREM LiveUploadsAreKept == Spec => LiveUploadKept
  <1> DEFINE Kept(u) ==
          \/ /\ upload'[u].status = "PROCESSING"
             /\ upload'[u].lease.token = upload[u].lease.token
          \/ \E w \in Worker :
              /\ Busy(w)
              /\ Target(w) = u
              /\ \/ OwnsUpload(w)
                 \/ Terminal(w) /\ upload'[u].status = "PROCESSING_DEAD_LETTERED"
  <1>1. ASSUME IInv, [Next]_vars, NEW u \in Upload,
               upload[u].status = "PROCESSING", LeaseLive(upload[u])
        PROVE  Kept(u)
    <2>1. CASE upload'[u] = upload[u]
      BY <1>1, <2>1
    <2>2. ASSUME NEW x \in Upload,
                 \/ \E verdict \in {"CLEAN", "REJECTED", "SCAN_FAILED"} :
                        RecordScanResult(x, verdict)
                 \/ RequeueProcessing(x)
          PROVE  Kept(u)
      <3>1. x # u
        BY <1>1, <2>2 DEF RecordScanResult, RequeueProcessing
      <3>2. upload'[u] = upload[u]
        BY <1>1, <2>2, <3>1 DEF RecordScanResult, RequeueProcessing, IInv, TypeOK
      <3> QED BY <2>1, <3>2
    <2>3. ASSUME NEW w \in Worker, Work(w)
          PROVE  Kept(u)
      <3>1. CASE /\ Busy(w)
                 /\ \A x \in Upload : x # Target(w) => upload'[x] = upload[x]
                 /\ OwnsUpload(w)
        BY <2>1, <3>1
      <3>2. CASE ExhaustUpload(w) \/ StartProcessing(w)
        <4>1. Target(w) # u
          BY <1>1, <3>2 DEF ExhaustUpload, StartProcessing, Startable
        <4>2. upload'[u] = upload[u]
          BY <1>1, <3>2, <4>1 DEF ExhaustUpload, StartProcessing, IInv, TypeOK
        <4> QED BY <2>1, <4>2
      <3>3. CASE DeadLetterUpload(w)
        <4>1. Busy(w) /\ Terminal(w) /\ Target(w) \in Upload
          BY <1>1, <3>3, BusyTypes DEF DeadLetterUpload, At, IInv
        <4>2. CASE Target(w) = u
          <5>1. upload'[u] = BuriedUpload(upload[u])
            BY <1>1, <3>3, <4>2 DEF DeadLetterUpload, IInv, TypeOK
          <5>2. upload[u] \in UploadRow
            BY <1>1 DEF IInv, TypeOK
          <5> QED BY <4>1, <4>2, <5>1, <5>2, BuriedUploadProperties
        <4>3. CASE Target(w) # u
          <5>1. upload'[u] = upload[u]
            BY <1>1, <3>3, <4>3 DEF DeadLetterUpload, IInv, TypeOK
          <5> QED BY <2>1, <5>1
        <4> QED BY <4>2, <4>3
      <3>4. CASE CompleteProcessing(w) \/ RecordFailure(w)
        <4>1. upload' = upload \/ (Busy(w) /\ OwnsUpload(w))
          BY <3>4 DEF CompleteProcessing, RecordFailure, At
        <4>2. \A x \in Upload : x # Target(w) => upload'[x] = upload[x]
          BY <1>1, <3>4 DEF CompleteProcessing, RecordFailure, IInv, TypeOK
        <4> QED BY <2>1, <3>1, <4>1, <4>2
      <3>5. CASE upload' = upload
        BY <2>1, <3>5
      <3> QED
        BY <2>3, <3>2, <3>3, <3>4, <3>5
           DEF Work, FindUploadFinished, RefuseUpload, AbandonProcessing,
               AcknowledgeEvent, RejectEvent
    <2>4. CASE Tick
      <3>1. upload[u].lease \in Lease \cup {NoLease}
        BY <1>1 DEF IInv, TypeOK, UploadRow
      <3>2. /\ upload'[u].status = upload[u].status
            /\ upload'[u].lease = AgedLease(upload[u].lease)
        BY <1>1, <2>4 DEF Tick, IInv, TypeOK, UploadRow
      <3> QED BY <1>1, <3>1, <3>2, AgedLeaseProperties DEF LeaseLive
    <2>5. CASE upload' = upload
      BY <2>1, <2>5
    <2> QED
      BY <1>1, <2>2, <2>3, <2>4, <2>5
         DEF Next, vars, ClaimEvent, TransactionFails, Crash
  <1>2. IInv /\ [Next]_vars =>
          [\A u \in Upload :
              (upload[u].status = "PROCESSING" /\ LeaseLive(upload[u])) => Kept(u)]_vars
    BY <1>1
  <1> QED BY <1>2, Invariance, PTL DEF Spec, LiveUploadKept
-----------------------------------------------------------------------------
(* The refinement.                                                          *)

statuses == [u \in Upload |-> upload[u].status]

\* The moves of UploadLifecycle that make no revision.
Moves(from, to) ==
    \/ from \in {"QUARANTINED", "SCAN_FAILED"} /\ to \in {"CLEAN", "REJECTED", "SCAN_FAILED"}
    \/ from \in {"CLEAN", "PROCESSING_FAILED"} /\ to = "PROCESSING"
    \/ from = "PROCESSING" /\ to = "PROCESSING_FAILED"
    \/ from \in OpenStatus /\ to = "PROCESSING_DEAD_LETTERED"
    \/ from = "PROCESSING_DEAD_LETTERED" /\ to = "CLEAN"

LEMMA OneStatus ==
    ASSUME IInv, NEW u \in Upload, NEW row \in UploadRow,
           upload' = [upload EXCEPT ![u] = row]
    PROVE  statuses' = [statuses EXCEPT ![u] = row.status]
  BY DEF IInv, TypeOK, statuses

\* One upload moves, or keeps its status, and no revision is made.
LEMMA MoveRefines ==
    ASSUME IInv, NEW u \in Upload, NEW row \in UploadRow,
           upload' = [upload EXCEPT ![u] = row], registered' = registered,
           Moves(upload[u].status, row.status) \/ row.status = upload[u].status
    PROVE  Lifecycle!Next \/ (statuses' = statuses /\ registered' = registered)
  <1>1. statuses' = [statuses EXCEPT ![u] = row.status]
    BY OneStatus
  <1>2. statuses[u] = upload[u].status
    BY DEF statuses
  <1>3. CASE row.status = upload[u].status
    BY <1>1, <1>3 DEF statuses
  <1>4. CASE Moves(upload[u].status, row.status)
    <2>1. \/ Lifecycle!Scan(u) \/ Lifecycle!Start(u) \/ Lifecycle!Fail(u)
          \/ Lifecycle!Bury(u) \/ Lifecycle!Requeue(u)
      BY <1>1, <1>2, <1>4
         DEF Moves, OpenStatus, statuses, Lifecycle!Move, Lifecycle!Scan,
             Lifecycle!Start, Lifecycle!Fail, Lifecycle!Bury, Lifecycle!Requeue
    <2> QED BY <2>1 DEF Lifecycle!Next
  <1> QED BY <1>3, <1>4

\* The transactions outside the deliveries.
LEMMA DecisionsRefine ==
    ASSUME IInv, NEW u \in Upload,
           \/ \E verdict \in {"CLEAN", "REJECTED", "SCAN_FAILED"} :
                  RecordScanResult(u, verdict)
           \/ RequeueProcessing(u)
    PROVE  Lifecycle!Next \/ (statuses' = statuses /\ registered' = registered)
  <1>1. upload[u] \in UploadRow
    BY DEF IInv, TypeOK
  <1>2. ASSUME NEW verdict \in {"CLEAN", "REJECTED", "SCAN_FAILED"},
               RecordScanResult(u, verdict)
        PROVE  Lifecycle!Next \/ (statuses' = statuses /\ registered' = registered)
    <2> DEFINE row == [upload[u] EXCEPT !.status = verdict]
    <2>1. row \in UploadRow /\ row.status = verdict
      BY <1>1 DEF UploadRow, Status
    <2>2. /\ upload' = [upload EXCEPT ![u] = row]
          /\ registered' = registered
          /\ upload[u].status \in {"QUARANTINED", "SCAN_FAILED"}
      BY <1>2 DEF RecordScanResult
    <2> HIDE DEF row
    <2> QED BY <2>1, <2>2, MoveRefines DEF Moves
  <1>3. CASE RequeueProcessing(u)
    <2> DEFINE row == [upload[u] EXCEPT !.status = "CLEAN", !.attempts = 0]
    <2>1. 0 \in 0 .. MaxAttempts
      BY PolicyAssumption
    <2>2. row \in UploadRow /\ row.status = "CLEAN"
      BY <1>1, <2>1 DEF UploadRow, Status
    <2>3. /\ upload' = [upload EXCEPT ![u] = row]
          /\ registered' = registered
          /\ upload[u].status = "PROCESSING_DEAD_LETTERED"
      BY <1>3 DEF RequeueProcessing, IInv, TypeOK
    <2> HIDE DEF row
    <2> QED BY <2>2, <2>3, MoveRefines DEF Moves
  <1> QED BY <1>2, <1>3

\* A step of a process that buries an open upload.
LEMMA BuryRefines ==
    ASSUME IInv, NEW w \in Worker, Busy(w), upload[Target(w)].status \in OpenStatus,
           upload' = [upload EXCEPT ![Target(w)] = BuriedUpload(@)],
           registered' = registered
    PROVE  Lifecycle!Next \/ (statuses' = statuses /\ registered' = registered)
  <1>1. Target(w) \in Upload /\ upload[Target(w)] \in UploadRow
    BY BusyTypes DEF IInv
  <1> QED BY <1>1, BuriedUploadProperties, MoveRefines DEF Moves

\* The one step that makes a revision.
LEMMA CompleteRefines ==
    ASSUME IInv, NEW w \in Worker, NEW u \in Upload, u = Target(w),
           CompleteProcessing(w)
    PROVE  Lifecycle!Next
  <1> DEFINE row == [upload[u] EXCEPT !.status = "PROCESSED", !.lease = NoLease]
  <1>1. /\ upload[u] \in UploadRow
        /\ upload[u].status = "PROCESSING"
    BY DEF CompleteProcessing, OwnsUpload, IInv, TypeOK
  <1>2. row \in UploadRow /\ row.status = "PROCESSED"
    BY <1>1 DEF UploadRow, Status
  <1>3. upload' = [upload EXCEPT ![u] = row]
    BY DEF CompleteProcessing, IInv, TypeOK
  <1> HIDE DEF row
  <1>4. statuses' = [statuses EXCEPT ![u] = "PROCESSED"]
    BY <1>2, <1>3, OneStatus
  <1>5. registered' = [registered EXCEPT ![u] = 1]
    <2>1. registered[u] = 0
      BY <1>1 DEF IInv, RegisteredOnce
    <2>2. registered' = [registered EXCEPT ![u] =
                            IF registered[u] < 2 THEN registered[u] + 1 ELSE registered[u]]
      BY DEF CompleteProcessing
    <2> QED BY <2>1, <2>2
  <1>6. statuses[u] = "PROCESSING"
    BY <1>1 DEF statuses
  <1>7. Lifecycle!Complete(u)
    BY <1>4, <1>5, <1>6 DEF Lifecycle!Complete, Lifecycle!Move, statuses
  <1> QED BY <1>7 DEF Lifecycle!Next

\* The transactions of a delivery.
LEMMA WorkRefines ==
    ASSUME IInv, NEW w \in Worker, Work(w)
    PROVE  Lifecycle!Next \/ (statuses' = statuses /\ registered' = registered)
  <1> DEFINE u == Target(w)
  <1>1. CASE upload' = upload /\ registered' = registered
    BY <1>1 DEF statuses
  <1>2. CASE ExhaustUpload(w)
    BY <1>2, BuryRefines DEF ExhaustUpload, At, Startable, OpenStatus
  <1>3. CASE StartProcessing(w)
    <2> DEFINE row == [status |-> "PROCESSING", attempts |-> upload[u].attempts + 1,
                       lease |-> FreshLease(w, FreshToken(ProcessingTokens))]
    <2>1. /\ upload' = [upload EXCEPT ![u] = row]
          /\ registered' = registered
          /\ u \in Upload
          /\ upload[u] \in UploadRow
          /\ upload[u].status \in OpenStatus
          /\ upload[u].attempts < MaxAttempts
      BY <1>3, BusyTypes DEF StartProcessing, Startable, OpenStatus, At, IInv
    <2>2. FreshToken(ProcessingTokens) \in Token
      BY FreshProcessingToken DEF IInv
    <2>3. FreshLease(w, FreshToken(ProcessingTokens)) \in Lease
      BY <2>2, PolicyAssumption DEF FreshLease, Lease
    <2>4. upload[u].attempts + 1 \in 0 .. MaxAttempts
      BY <2>1, PolicyAssumption DEF UploadRow
    <2>5. row \in UploadRow /\ row.status = "PROCESSING"
      BY <2>3, <2>4 DEF UploadRow, Status
    <2> HIDE DEF row
    <2> QED BY <2>1, <2>5, MoveRefines DEF Moves, OpenStatus
  <1>4. CASE CompleteProcessing(w)
    <2>1. u \in Upload
      BY <1>4, BusyTypes DEF CompleteProcessing, At, IInv
    <2> QED BY <1>4, <2>1, CompleteRefines
  <1>5. CASE /\ Busy(w)
             /\ OwnsUpload(w)
             /\ upload' = [upload EXCEPT ![u] = BuriedUpload(@)]
             /\ registered' = registered
    <2>1. upload[u].status \in OpenStatus
      BY <1>5 DEF OwnsUpload, OpenStatus
    <2> QED BY <1>5, <2>1, BuryRefines
  <1>6. CASE /\ Busy(w)
             /\ OwnsUpload(w)
             /\ upload' = [upload EXCEPT ![u].status = "PROCESSING_FAILED",
                                         ![u].lease = NoLease]
             /\ registered' = registered
    <2> DEFINE row == [upload[u] EXCEPT !.status = "PROCESSING_FAILED", !.lease = NoLease]
    <2>1. /\ u \in Upload
          /\ upload[u] \in UploadRow
          /\ upload[u].status = "PROCESSING"
      BY <1>6, BusyTypes DEF OwnsUpload, IInv
    <2>2. row \in UploadRow /\ row.status = "PROCESSING_FAILED"
      BY <2>1 DEF UploadRow, Status
    <2>3. upload' = [upload EXCEPT ![u] = row]
      BY <1>6, <2>1 DEF IInv, TypeOK
    <2> HIDE DEF row
    <2> QED BY <1>6, <2>1, <2>2, <2>3, MoveRefines DEF Moves
  <1>7. CASE DeadLetterUpload(w)
    BY <1>1, <1>7, BuryRefines DEF DeadLetterUpload, At, OpenStatus
  <1> QED
    BY <1>1, <1>2, <1>3, <1>4, <1>5, <1>6, <1>7
       DEF Work, FindUploadFinished, RefuseUpload, AbandonProcessing,
           RecordFailure, AcknowledgeEvent, RejectEvent, At

\* Every step maps to a step of UploadLifecycle or to a stutter.
LEMMA StepRefines ==
    ASSUME IInv, [Next]_vars
    PROVE  [Lifecycle!Next]_(Lifecycle!vars)
  <1> SUFFICES Lifecycle!Next \/ (statuses' = statuses /\ registered' = registered)
    BY DEF Lifecycle!vars, statuses
  <1>1. CASE upload' = upload /\ registered' = registered
    BY <1>1 DEF statuses
  <1>2. CASE Tick
    <2>1. \A u \in Upload : upload'[u].status = upload[u].status
      BY <1>2 DEF Tick, IInv, TypeOK, UploadRow
    <2> QED BY <1>2, <2>1 DEF Tick, statuses
  <1> QED
    BY <1>1, <1>2, DecisionsRefine, WorkRefines
       DEF Next, vars, ClaimEvent, TransactionFails, Crash

LEMMA InitRefines == Init => Lifecycle!Init
  BY DEF Init, Lifecycle!Init

\* The short transactions of scanner, dispatchers and processors implement the
\* life of an upload: one revision exactly when it becomes PROCESSED, for good.
THEOREM LifecycleRefined == Spec => Lifecycle!Safety
  BY InitRefines, StepRefines, Invariance, PTL DEF Spec, Lifecycle!Safety
=============================================================================
