--------------------------- MODULE OutboxDelivery ---------------------------
(***************************************************************************)
(* Delivery of the transactional outbox by dispatcher processes.  Each      *)
(* dispatcher (AutomationReworkDispatcher, IntegrationOutboxDispatcher)     *)
(* claims a row in one transaction, runs its handler with no transaction    *)
(* open on the outbox, and settles the claim in another transaction.  A     *)
(* process may crash between any two of them, or be so slow that its lease  *)
(* runs out and another process claims the row.                             *)
(***************************************************************************)
EXTENDS OutboxEvent

CONSTANTS
    Event,      \* outbox events the business transactions insert
    NoClaim,    \* a dispatcher between two deliveries
    MaxFaults   \* bound on crashes and on leases that run out

ASSUME NoClaimAssumption == NoClaim \notin [event : Event, token : Token]

ASSUME MaxFaultsAssumption == MaxFaults \in Nat

VARIABLES
    outbox,   \* outbox[e]: the row of event e
    claim,    \* claim[w]: the OutboxClaim process w holds in memory
    outcome,  \* outcome[w]: what the handler of process w reported
    handled,  \* handled[e]: the handler did the work of e this many times,
              \* counted up to 2
    refused,  \* refused[e]: some handler called e a permanent failure
    faults

vars == <<outbox, claim, outcome, handled, refused, faults>>

Claim == [event : Event, token : Token]

Outcome == {"none", "success", "transient", "permanent"}

TypeOK ==
    /\ outbox \in [Event -> Row]
    /\ claim \in [Worker -> Claim \cup {NoClaim}]
    /\ outcome \in [Worker -> Outcome]
    /\ handled \in [Event -> 0 .. 2]
    /\ refused \in [Event -> BOOLEAN]
    /\ faults \in 0 .. MaxFaults

Init ==
    /\ outbox = [e \in Event |-> AbsentRow]
    /\ claim = [w \in Worker |-> NoClaim]
    /\ outcome = [w \in Worker |-> "none"]
    /\ handled = [e \in Event |-> 0]
    /\ refused = [e \in Event |-> FALSE]
    /\ faults = 0
-----------------------------------------------------------------------------
\* uuid4 is fresh: no row and no process holds the new token.
TokensInUse ==
    {claim[w].token : w \in {v \in Worker : claim[v] # NoClaim}}
        \cup {outbox[e].lease.token : e \in {d \in Event : outbox[d].lease # NoLease}}

\* A business transaction commits together with its outbox row.
Enqueue(e) ==
    /\ ~outbox[e].exists
    /\ outbox' = [outbox EXCEPT ![e] = InsertedRow]
    /\ UNCHANGED <<claim, outcome, handled, refused, faults>>

\* The claim transaction of dispatch_next.  SKIP LOCKED lets any claimable
\* row be the one.
ClaimNext(w) ==
    /\ claim[w] = NoClaim
    /\ \E e \in Event, t \in Token \ TokensInUse :
        /\ Claimable(outbox[e])
        /\ outbox' = [outbox EXCEPT ![e] = ClaimedRow(@, w, t)]
        /\ claim' = [claim EXCEPT ![w] = [event |-> e, token |-> t]]
    /\ UNCHANGED <<outcome, handled, refused, faults>>

\* The handler runs; it may do its work and still fail, for instance when the
\* answer of the receiver is lost.
Handle(w) ==
    /\ claim[w] # NoClaim
    /\ outcome[w] = "none"
    /\ \E result \in Outcome \ {"none"}, done \in BOOLEAN :
        /\ result = "success" => done
        /\ outcome' = [outcome EXCEPT ![w] = result]
        /\ handled' = [handled EXCEPT ![claim[w].event] =
                          IF done /\ @ < 2 THEN @ + 1 ELSE @]
        /\ refused' = [refused EXCEPT ![claim[w].event] =
                          @ \/ result = "permanent"]
    /\ UNCHANGED <<outbox, claim, faults>>

Forget(w) ==
    /\ claim' = [claim EXCEPT ![w] = NoClaim]
    /\ outcome' = [outcome EXCEPT ![w] = "none"]

\* Mutant: a transient failure of the handler is acknowledged.
AcknowledgeFailure(w) ==
    /\ claim[w] # NoClaim
    /\ outcome[w] \in {"success", "transient"}
    /\ LET e == claim[w].event IN
        outbox' = IF /\ ~Settled(outbox[e])
                     /\ Owns(outbox[e], w, claim[w].token)
                  THEN [outbox EXCEPT ![e] = PublishedRow(@)]
                  ELSE outbox
    /\ Forget(w)
    /\ UNCHANGED <<handled, refused, faults>>

\* acknowledge: a published row is a success whoever published it; a
\* dead-lettered row or a lost lease is an error that changes nothing.
Acknowledge(w) ==
    /\ claim[w] # NoClaim
    /\ outcome[w] = "success"
    /\ LET e == claim[w].event IN
        outbox' = IF /\ ~Settled(outbox[e])
                     /\ Owns(outbox[e], w, claim[w].token)
                  THEN [outbox EXCEPT ![e] = PublishedRow(@)]
                  ELSE outbox
    /\ Forget(w)
    /\ UNCHANGED <<handled, refused, faults>>

\* reject: a permanent failure forces the dead letter, a transient one is
\* retried until the attempts are exhausted.
Reject(w) ==
    /\ claim[w] # NoClaim
    /\ outcome[w] \in {"transient", "permanent"}
    /\ LET e == claim[w].event IN
        outbox' = IF /\ ~Settled(outbox[e])
                     /\ Owns(outbox[e], w, claim[w].token)
                  THEN [outbox EXCEPT ![e] =
                           RejectedRow(@, outcome[w] = "permanent", TRUE)]
                  ELSE outbox
    /\ Forget(w)
    /\ UNCHANGED <<handled, refused, faults>>

\* The process dies and is started again: what it knew is gone, the row keeps
\* the lease until it runs out.
Crash(w) ==
    /\ claim[w] # NoClaim
    /\ faults < MaxFaults
    /\ faults' = faults + 1
    /\ Forget(w)
    /\ UNCHANGED <<outbox, handled, refused>>

\* A lease that a process still works under runs out with this tick.
Overrun ==
    \E w \in Worker :
        /\ claim[w] # NoClaim
        /\ Owns(outbox[claim[w].event], w, claim[w].token)
        /\ outbox[claim[w].event].lease.left = 1

Tick ==
    /\ outbox' = [e \in Event |-> AgedRow(outbox[e])]
    /\ IF Overrun
       THEN faults < MaxFaults /\ faults' = faults + 1
       ELSE faults' = faults
    /\ UNCHANGED <<claim, outcome, handled, refused>>

Next ==
    \/ \E e \in Event : Enqueue(e)
    \/ \E w \in Worker :
        \/ ClaimNext(w)
        \/ Handle(w)
        \/ Acknowledge(w)
        \/ Reject(w)
        \/ Crash(w)
    \/ Tick

Spec == Init /\ [][Next]_vars

\* The dispatchers are run again and again by a scheduler, a handler returns,
\* and time passes.  Claiming needs strong fairness: a process may be busy
\* with other rows whenever this one is claimable.
Fairness ==
    /\ WF_vars(Tick)
    /\ \A w \in Worker :
        /\ SF_vars(ClaimNext(w))
        /\ WF_vars(Handle(w))
        /\ WF_vars(Acknowledge(w) \/ Reject(w))

FairSpec == Spec /\ Fairness
-----------------------------------------------------------------------------
\* An event counts as published only after a handler did its work: a failed,
\* crashed or late delivery is never taken for a success.
PublishedWasHandled ==
    \A e \in Event : outbox[e].published => handled[e] > 0

\* Work is given up only after the configured attempts, or when a handler
\* called the failure permanent; and the published row is not given up.
DeadLetterJustified ==
    \A e \in Event :
        outbox[e].deadLettered =>
            /\ ~outbox[e].published
            /\ refused[e] \/ outbox[e].attempts >= MaxAttempts

\* Two processes never hold the same lease token, so at most one of them can
\* settle a row, whatever they remember of older claims.
ClaimTokensDistinct ==
    \A w, v \in Worker :
        (w # v /\ claim[w] # NoClaim /\ claim[v] # NoClaim)
            => claim[w].token # claim[v].token

\* While a lease is live nobody else takes the row: the lease changes only
\* because its owner settles.
LiveLeaseIsExclusive ==
    [][\A e \in Event :
        LeaseLive(outbox[e]) =>
            \/ /\ outbox'[e].lease # NoLease
               /\ outbox'[e].lease.token = outbox[e].lease.token
            \/ \E w \in Worker :
                /\ claim[w] # NoClaim
                /\ claim[w].event = e
                /\ Owns(outbox[e], w, claim[w].token)
                /\ claim'[w] = NoClaim]_vars

\* A row is settled or put back for retry only by the process whose lease on
\* it is live: results of a stale process change nothing.
OnlyOwnerSettles ==
    [][\A e \in Event :
        (\/ Settled(outbox'[e]) # Settled(outbox[e])
         \/ outbox'[e].delay > outbox[e].delay)
        => \E w \in Worker :
            /\ claim[w] # NoClaim
            /\ claim[w].event = e
            /\ outbox[e].lease # NoLease
            /\ outbox[e].lease.token = claim[w].token
            /\ outbox[e].lease.left > 0]_vars

\* Published and dead-lettered are final: no later claim, attempt or result
\* changes such a row.
TerminalIsFinal ==
    [][\A e \in Event :
        Settled(outbox[e]) =>
            /\ outbox'[e].published = outbox[e].published
            /\ outbox'[e].deadLettered = outbox[e].deadLettered
            /\ outbox'[e].attempts = outbox[e].attempts
            /\ outbox'[e].lease = outbox[e].lease]_vars

Status(row) ==
    IF ~row.exists THEN "absent"
    ELSE IF row.published THEN "published"
    ELSE IF row.deadLettered THEN "dead"
    ELSE "pending"

\* The rows, leases and processes implement the promise of the outbox.
Promise ==
    INSTANCE DurableDelivery WITH
        status <- [e \in Event |-> Status(outbox[e])],
        done   <- [e \in Event |-> handled[e] > 0]

\* DurableDelivery with its liveness: every committed event is published or
\* dead-lettered in the end, although processes crash and leases run out
\* (finitely often).
ImplementsDurableDelivery == Promise!Spec
=============================================================================
