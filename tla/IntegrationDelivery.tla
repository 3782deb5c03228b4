------------------------- MODULE IntegrationDelivery -------------------------
(***************************************************************************)
(* Delivery of outbox events to an external system: the outbound dispatcher *)
(* (IntegrationOutboxDispatcher and replay_outbox_dead_letter of            *)
(* application/integrations.py), the HTTP connector, and the receiver as    *)
(* the dispatcher relies on it: it stores a deduplication key once and      *)
(* signs a receipt for the message that it stored or that it has already.   *)
(*                                                                         *)
(* A dispatcher sends with no transaction open.  The request or its answer  *)
(* may be lost, the answer may come too late, and a request that its sender *)
(* has given up may still reach the receiver.                               *)
(***************************************************************************)
EXTENDS OutboxEvent

CONSTANTS
    Key,          \* delivery deduplication keys, one per business event
    NoJob,        \* a dispatcher process between two deliveries
    MaxReplays,   \* bound: replays of a business event
    MaxFaults     \* bound: crashes and leases that run out

ASSUME DeliveryAssumption == MaxReplays \in Nat /\ MaxFaults \in Nat

\* <<k, g>> is the outbox row of the g-th replay of the event with key k.  The
\* row is the message id of its envelope; all rows of k carry its payload.
Event == Key \X (0 .. MaxReplays)

\* Besides the tokens that processes and rows remember there is a fresh one.
ASSUME TokenAssumption ==
    /\ Token # {}
    /\ \A f \in [Worker -> Token], g \in [Event -> Token] :
          \E t \in Token : /\ \A w \in Worker : f[w] # t
                           /\ \A e \in Event : g[e] # t

\* The counter of attempts never stops at its bound: a row is claimed at most
\* MaxAttempts times, and once more for every crash and every lease that runs
\* out.
ASSUME CounterAssumption == AttemptCap >= MaxAttempts + MaxFaults

Success == {"ACCEPTED", "DUPLICATE"}

Failure == {"RETRYABLE_FAILURE", "PERMANENT_FAILURE"}

VARIABLES
    outbox,    \* outbox[e]: the row of event e
    job,       \* job[w]: what dispatcher process w knows of its delivery
    wire,      \* requests that may still reach the receiver
    stored,    \* deduplication keys the receiver stored
    receipted, \* messages the receiver signed a receipt for
    attempts,  \* rows of connector_delivery_attempts
    faults

vars == <<outbox, job, wire, stored, receipted, attempts, faults>>

\* `step' is "send", "wait" for the answer, or the status to settle with.
Job ==
    [event  : Event,
     token  : Token,
     number : 1 .. AttemptCap,
     step   : {"send", "wait"} \cup Success \cup Failure]

ASSUME NoJobAssumption == NoJob \notin Job

Attempt == [event : Event, number : 1 .. AttemptCap, status : Success \cup Failure]

TypeOK ==
    /\ outbox \in [Event -> Row]
    /\ job \in [Worker -> Job \cup {NoJob}]
    /\ wire \subseteq Event
    /\ stored \subseteq Key
    /\ receipted \subseteq Event
    /\ attempts \subseteq Attempt
    /\ faults \in 0 .. MaxFaults

Init ==
    /\ outbox = [e \in Event |-> AbsentRow]
    /\ job = [w \in Worker |-> NoJob]
    /\ wire = {}
    /\ stored = {}
    /\ receipted = {}
    /\ attempts = {}
    /\ faults = 0
-----------------------------------------------------------------------------
Busy(w) == job[w] # NoJob

At(w, step) == Busy(w) /\ job[w].step = step

FreshToken ==
    CHOOSE t \in Token :
        /\ \A w \in Worker : Busy(w) => job[w].token # t
        /\ \A e \in Event : outbox[e].lease # NoLease => outbox[e].lease.token # t

\* A business transaction commits with its event.
Enqueue(k) ==
    /\ ~outbox[<<k, 0>>].exists
    /\ outbox' = [outbox EXCEPT ![<<k, 0>>] = InsertedRow]
    /\ UNCHANGED <<job, wire, stored, receipted, attempts, faults>>

ClaimNext(w) ==
    /\ ~Busy(w)
    /\ \E e \in Event :
        /\ Claimable(outbox[e])
        /\ outbox' = [outbox EXCEPT ![e] = ClaimedRow(@, w, FreshToken)]
        /\ job' = [job EXCEPT ![w] =
              [event |-> e, token |-> FreshToken,
               number |-> CountUp(outbox[e].attempts), step |-> "send"]]
    /\ UNCHANGED <<wire, stored, receipted, attempts, faults>>

Decide(w, step) == job' = [job EXCEPT ![w].step = step]

\* The envelope is built and handed to the connector, or is refused here: it
\* has another organization, or it is too large.
Send(w) ==
    /\ At(w, "send")
    /\ \/ wire' = wire \cup {job[w].event} /\ Decide(w, "wait")
       \/ wire' = wire /\ Decide(w, "PERMANENT_FAILURE")
    /\ UNCHANGED <<outbox, stored, receipted, attempts, faults>>

\* A request arrives and is answered with a signed receipt, or refused with a
\* permanent HTTP error; a receiver may refuse a key that comes back under the
\* message id of a replay.  An answer that nobody waits for is dropped.
Receive(w, e) ==
    /\ e \in wire
    /\ \E answer \in Success \cup {"PERMANENT_FAILURE"} :
        /\ answer = "ACCEPTED" => e[1] \notin stored
        /\ answer = "DUPLICATE" => e[1] \in stored
        /\ IF answer \in Success
           THEN stored' = stored \cup {e[1]} /\ receipted' = receipted \cup {e}
           ELSE UNCHANGED <<stored, receipted>>
        /\ IF At(w, "wait") /\ job[w].event = e THEN Decide(w, answer)
           ELSE job' = job
    /\ UNCHANGED <<outbox, wire, attempts, faults>>

\* Mutant: an answer that is no receipt is taken for one.
FailUnverified(w) ==
    /\ At(w, "wait")
    /\ \E status \in Failure \cup {"ACCEPTED"} : Decide(w, status)
    /\ UNCHANGED <<outbox, wire, stored, receipted, attempts, faults>>

\* No answer, a late one, one that does not verify, or an endpoint that is
\* down.  The request may have arrived, and it may still arrive.
Fail(w) ==
    /\ At(w, "wait")
    /\ \E status \in Failure : Decide(w, status)
    /\ UNCHANGED <<outbox, wire, stored, receipted, attempts, faults>>

\* A request that is on its way is lost.
Lose(e) ==
    /\ e \in wire
    /\ wire' = wire \ {e}
    /\ UNCHANGED <<outbox, job, stored, receipted, attempts, faults>>

OwnsEvent(w) == Owns(outbox[job[w].event], w, job[w].token)

Evidence(w) ==
    [event |-> job[w].event, number |-> job[w].number, status |-> job[w].step]

\* Mutant: the evidence is committed although the settlement is refused.
SettleApart(w) ==
    /\ Busy(w)
    /\ job[w].step \in Success \cup Failure
    /\ attempts' = attempts \cup {Evidence(w)}
    /\ outbox' = IF OwnsEvent(w) /\ ~Settled(outbox[job[w].event])
                 THEN [outbox EXCEPT ![job[w].event] =
                          IF job[w].step \in Success THEN PublishedRow(@)
                          ELSE RejectedRow(@, job[w].step = "PERMANENT_FAILURE", TRUE)]
                 ELSE outbox
    /\ job' = [job EXCEPT ![w] = NoJob]
    /\ UNCHANGED <<wire, stored, receipted, faults>>

\* _settle_success and _settle_failure: the attempt row and the settlement of
\* the outbox row are one transaction.  Settling a row again with the verdict
\* it has is accepted and leaves the evidence of the stale attempt; any other
\* settlement without a live lease is rolled back.
Settle(w) ==
    /\ Busy(w)
    /\ job[w].step \in Success \cup Failure
    /\ LET row == outbox[job[w].event]
           again == \/ row.published /\ job[w].step \in Success
                    \/ row.deadLettered /\ job[w].step \in Failure
           mine == ~Settled(row) /\ OwnsEvent(w)
       IN  /\ attempts' = IF again \/ mine THEN attempts \cup {Evidence(w)}
                          ELSE attempts
           /\ outbox' = IF mine
                        THEN [outbox EXCEPT ![job[w].event] =
                                 IF job[w].step \in Success THEN PublishedRow(@)
                                 ELSE RejectedRow(@, job[w].step = "PERMANENT_FAILURE", TRUE)]
                        ELSE outbox
    /\ job' = [job EXCEPT ![w] = NoJob]
    /\ UNCHANGED <<wire, stored, receipted, faults>>

\* Mutant: a row that has failed once may be replayed.
ReplayableEarly(k, g) ==
    /\ \E a \in attempts : a.event = <<k, g>>
    /\ ~outbox[<<k, g + 1>>].exists

\* A dead-lettered row with connector evidence that was not replayed yet.
Replayable(k, g) ==
    /\ outbox[<<k, g>>].deadLettered
    /\ \E a \in attempts : a.event = <<k, g>>
    /\ ~outbox[<<k, g + 1>>].exists

\* replay_outbox_dead_letter
ReplayDeadLetter(k, g) ==
    /\ Replayable(k, g)
    /\ outbox' = [outbox EXCEPT ![<<k, g + 1>>] = InsertedRow]
    /\ UNCHANGED <<job, wire, stored, receipted, attempts, faults>>

Crash(w) ==
    /\ Busy(w)
    /\ faults < MaxFaults
    /\ faults' = faults + 1
    /\ job' = [job EXCEPT ![w] = NoJob]
    /\ UNCHANGED <<outbox, wire, stored, receipted, attempts>>

\* A lease that a process still works under runs out with this tick.
Overrun ==
    \E w \in Worker :
        /\ Busy(w)
        /\ OwnsEvent(w)
        /\ outbox[job[w].event].lease.left = 1

Tick ==
    /\ outbox' = [e \in Event |-> AgedRow(outbox[e])]
    /\ IF Overrun
       THEN faults < MaxFaults /\ faults' = faults + 1
       ELSE faults' = faults
    /\ UNCHANGED <<job, wire, stored, receipted, attempts>>

Next ==
    \/ \E k \in Key : Enqueue(k)
    \/ \E w \in Worker :
        \/ ClaimNext(w)
        \/ Send(w)
        \/ Fail(w)
        \/ Settle(w)
        \/ Crash(w)
        \/ \E e \in Event : Receive(w, e)
    \/ \E e \in Event : Lose(e)
    \/ \E k \in Key, g \in 0 .. MaxReplays - 1 : ReplayDeadLetter(k, g)
    \/ Tick

Spec == Init /\ [][Next]_vars

\* Dispatchers are started again and again and go on, the connector answers or
\* times out, and time passes.  Nothing makes the network deliver.
Fairness ==
    /\ WF_vars(Tick)
    /\ \A w \in Worker :
        /\ SF_vars(ClaimNext(w))
        /\ WF_vars(Send(w))
        /\ WF_vars(Fail(w))
        /\ WF_vars(Settle(w))

FairSpec == Spec /\ Fairness
-----------------------------------------------------------------------------
\* A row is published only when the receiver has stored its business event
\* and confirmed this very row, whatever was lost, repeated, late or replayed.
PublishedIsStored ==
    \A e \in Event : outbox[e].published => e[1] \in stored /\ e \in receipted

\* Every verdict on a row has its evidence, so that a dead-lettered row can be
\* replayed, and the evidence of one row never has both verdicts: no success
\* is recorded for a dead-lettered row, no final failure for a published one.
EvidenceMatchesVerdict ==
    \A e \in Event :
        LET of == {a \in attempts : a.event = e} IN
        /\ outbox[e].published => \E a \in of : a.status \in Success
        /\ outbox[e].deadLettered =>
              /\ of # {}
              /\ \A a \in of : a.status \in Failure
        /\ (\E a \in of : a.status \in Success) => outbox[e].published

\* The unique constraint on the evidence is never hit: a delivery attempt has
\* one result, although processes are overtaken and report late.
OneResultPerAttempt ==
    \A a, b \in attempts :
        (a.event = b.event /\ a.number = b.number) => a = b

\* Of all rows of one business event at most one can still be delivered, and
\* at most one is published: a replay follows a final dead letter.
OneDeliverableRow ==
    \A k \in Key : \A g \in 0 .. MaxReplays - 1 :
        outbox[<<k, g + 1>>].exists => outbox[<<k, g>>].deadLettered

\* What the outbox rows say, what the delivery evidence says and what the
\* receiver holds agree.
DeliveryStands ==
    /\ TypeOK
    /\ PublishedIsStored /\ EvidenceMatchesVerdict
    /\ OneResultPerAttempt /\ OneDeliverableRow

Status(row) ==
    IF ~row.exists THEN "absent"
    ELSE IF row.published THEN "published"
    ELSE IF row.deadLettered THEN "dead"
    ELSE "pending"

\* Every row is published or dead-lettered in the end.
Promise ==
    INSTANCE DurableDelivery WITH
        status <- [e \in Event |-> Status(outbox[e])],
        done   <- [e \in Event |-> e \in receipted]

\* DurableDelivery with its liveness: "done" is "confirmed by the receiver".
ImplementsDurableDelivery == Promise!Spec
=============================================================================
