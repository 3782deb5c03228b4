---------------------------- MODULE OutboxEvent ----------------------------
(***************************************************************************)
(* One row of the table outbox_events and the three short transactions     *)
(* that change it (application/outbox.py): claim_next, acknowledge and      *)
(* reject.  The module has no variables: it is the data type that the       *)
(* specifications of the dispatchers share.                                 *)
(*                                                                         *)
(* Deadlines are kept as the time that is left until them, so that a        *)
(* specification needs no bound on the clock: `delay' is the time left      *)
(* until available_at and `lease.left' the time left until                  *)
(* lease_expires_at; both stop at 0, which is "at or before now".           *)
(***************************************************************************)
EXTENDS Integers, TLAPS

CONSTANTS
    Worker,            \* worker_id of the dispatcher processes
    Token,             \* lease tokens (uuid4 in the code)
    NoLease,           \* locked_by, lease_token and lease_expires_at are NULL
    LeaseSeconds,      \* OutboxDeliveryPolicy.lease_seconds
    MaxAttempts,       \* OutboxDeliveryPolicy.max_attempts
    RetryBaseSeconds,  \* OutboxDeliveryPolicy.retry_base_seconds
    RetryMaxSeconds,   \* OutboxDeliveryPolicy.retry_max_seconds
    AttemptCap         \* bound: `attempts' is counted up to here

\* OutboxDeliveryPolicy.__post_init__ refuses anything else.  The counter may
\* stop above MaxAttempts: the code only compares it with MaxAttempts.
ASSUME PolicyAssumption ==
    /\ LeaseSeconds \in Nat \ {0}
    /\ MaxAttempts \in Nat \ {0}
    /\ RetryBaseSeconds \in Nat \ {0}
    /\ RetryMaxSeconds \in Nat
    /\ RetryMaxSeconds >= RetryBaseSeconds
    /\ AttemptCap \in Nat
    /\ AttemptCap > MaxAttempts

Lease == [worker : Worker, token : Token, left : 0 .. LeaseSeconds]

ASSUME NoLeaseAssumption == NoLease \notin Lease

Row == [exists       : BOOLEAN,
        attempts     : 0 .. AttemptCap,
        delay        : 0 .. RetryMaxSeconds,
        lease        : Lease \cup {NoLease},
        published    : BOOLEAN,
        deadLettered : BOOLEAN]

\* A row that was not inserted yet.
AbsentRow ==
    [exists |-> FALSE, attempts |-> 0, delay |-> 0, lease |-> NoLease,
     published |-> FALSE, deadLettered |-> FALSE]

\* The row a business transaction inserts, available at once.
InsertedRow == [AbsentRow EXCEPT !.exists = TRUE]

Settled(row) == row.published \/ row.deadLettered

Pending(row) == row.exists /\ ~Settled(row)

LeaseLive(row) == row.lease # NoLease /\ row.lease.left > 0

\* Mutant: claim_next ignores the lease of another process.
ClaimableUnderLease(row) == Pending(row) /\ row.delay = 0

\* The WHERE clause of claim_next.
Claimable(row) == Pending(row) /\ row.delay = 0 /\ ~LeaseLive(row)

CountUp(n) == IF n < AttemptCap THEN n + 1 ELSE AttemptCap

FreshLease(w, t) == [worker |-> w, token |-> t, left |-> LeaseSeconds]

\* What claim_next writes: one more attempt and a fresh lease.  It compares
\* `attempts' with nothing.
ClaimedRow(row, w, t) ==
    [row EXCEPT !.attempts = CountUp(@), !.lease = FreshLease(w, t)]

\* Mutant: an expired lease still settles the row.
OwnsExpired(row, w, t) ==
    row.lease # NoLease /\ row.lease.worker = w /\ row.lease.token = t

\* _require_owner: the lease of the claim is the lease of the row, and it has
\* not run out.  Comparing the token stands for comparing lease_expires_at
\* too, since both are written together.
Owns(row, w, t) ==
    /\ LeaseLive(row)
    /\ row.lease.worker = w
    /\ row.lease.token = t

PublishedRow(row) == [row EXCEPT !.published = TRUE, !.lease = NoLease]

DeadLetteredRow(row) == [row EXCEPT !.deadLettered = TRUE, !.lease = NoLease]

\* Mutant: the delay is not cut at retry_max_seconds.
RetryDelayUncapped(attempts) == RetryBaseSeconds * 2 ^ (attempts - 1)

\* min(retry_base_seconds * 2^(attempts - 1), retry_max_seconds).
RetryDelay(attempts) ==
    LET backoff == RetryBaseSeconds * 2 ^ (attempts - 1)
    IN  IF backoff \in 1 .. RetryMaxSeconds THEN backoff ELSE RetryMaxSeconds

RescheduledRow(row) ==
    [row EXCEPT !.delay = RetryDelay(row.attempts), !.lease = NoLease]

\* Mutant: the last attempt is not made.
RejectedRowEarly(row, force, allow) ==
    IF force \/ (allow /\ row.attempts + 1 >= MaxAttempts)
    THEN DeadLetteredRow(row)
    ELSE RescheduledRow(row)

\* Mutant: only a permanent failure is dead-lettered.
RejectedRowForever(row, force, allow) ==
    IF force THEN DeadLetteredRow(row) ELSE RescheduledRow(row)

\* What reject writes when the claim owns the row.
RejectedRow(row, force, allow) ==
    IF force \/ (allow /\ row.attempts >= MaxAttempts)
    THEN DeadLetteredRow(row)
    ELSE RescheduledRow(row)

\* One unit of time passes.
CountDown(n) == IF n > 0 THEN n - 1 ELSE 0

AgedLease(lease) ==
    IF lease = NoLease THEN NoLease
    ELSE [lease EXCEPT !.left = CountDown(@)]

AgedRow(row) ==
    [row EXCEPT !.delay = CountDown(@), !.lease = AgedLease(@)]
-----------------------------------------------------------------------------
(* What the transactions do to one row.  The proofs about each dispatcher    *)
(* rest on these facts.                                                      *)

\* claim_next returns a row, and keeps whether it was settled.
LEMMA ClaimedRowProperties ==
    ASSUME NEW row \in Row, NEW w \in Worker, NEW t \in Token
    PROVE  /\ ClaimedRow(row, w, t) \in Row
           /\ ClaimedRow(row, w, t).published = row.published
           /\ ClaimedRow(row, w, t).deadLettered = row.deadLettered
           /\ ClaimedRow(row, w, t).exists = row.exists
           /\ ClaimedRow(row, w, t).attempts \in 1 .. AttemptCap
           /\ ClaimedRow(row, w, t).lease
                = [worker |-> w, token |-> t, left |-> LeaseSeconds]
  <1>1. CountUp(row.attempts) \in 1 .. AttemptCap
    BY PolicyAssumption DEF CountUp, Row
  <1>2. FreshLease(w, t) \in Lease
    BY PolicyAssumption DEF FreshLease, Lease
  <1>3. FreshLease(w, t) = [worker |-> w, token |-> t, left |-> LeaseSeconds]
    BY DEF FreshLease
  <1>4. CountUp(row.attempts) \in 0 .. AttemptCap
    BY <1>1
  <1> QED BY <1>1, <1>2, <1>3, <1>4 DEF ClaimedRow, Row

\* acknowledge publishes the row and clears the lease.
LEMMA PublishedRowProperties ==
    ASSUME NEW row \in Row
    PROVE  /\ PublishedRow(row) \in Row
           /\ PublishedRow(row).published
           /\ PublishedRow(row).deadLettered = row.deadLettered
           /\ PublishedRow(row).attempts = row.attempts
           /\ PublishedRow(row).exists = row.exists
           /\ PublishedRow(row).lease = NoLease
  BY DEF Row, PublishedRow

\* The retry delay never exceeds retry_max_seconds.
LEMMA RetryDelayBounded ==
    ASSUME NEW attempts
    PROVE  RetryDelay(attempts) \in 0 .. RetryMaxSeconds
  BY PolicyAssumption DEF RetryDelay

\* reject clears the lease; it dead-letters only by force or when the
\* attempts are exhausted.
LEMMA RejectedRowProperties ==
    ASSUME NEW row \in Row, NEW force \in BOOLEAN, NEW allow \in BOOLEAN
    PROVE  /\ RejectedRow(row, force, allow) \in Row
           /\ RejectedRow(row, force, allow).published = row.published
           /\ RejectedRow(row, force, allow).attempts = row.attempts
           /\ RejectedRow(row, force, allow).exists = row.exists
           /\ RejectedRow(row, force, allow).lease = NoLease
           /\ RejectedRow(row, force, allow).deadLettered =>
                row.deadLettered \/ force \/ (allow /\ row.attempts >= MaxAttempts)
           /\ row.deadLettered => RejectedRow(row, force, allow).deadLettered
  <1>1. RetryDelay(row.attempts) \in 0 .. RetryMaxSeconds
    BY RetryDelayBounded
  <1>2. CASE force \/ (allow /\ row.attempts >= MaxAttempts)
    BY <1>2 DEF RejectedRow, DeadLetteredRow, Row
  <1>3. CASE ~(force \/ (allow /\ row.attempts >= MaxAttempts))
    BY <1>1, <1>3 DEF RejectedRow, RescheduledRow, Row
  <1> QED BY <1>2, <1>3

\* Time changes nothing of a lease but the time that is left.
LEMMA AgedLeaseProperties ==
    ASSUME NEW lease \in Lease \cup {NoLease}
    PROVE  /\ AgedLease(lease) \in Lease \cup {NoLease}
           /\ AgedLease(lease) = NoLease <=> lease = NoLease
           /\ lease # NoLease =>
                /\ AgedLease(lease).token = lease.token
                /\ AgedLease(lease).worker = lease.worker
                /\ AgedLease(lease).left = CountDown(lease.left)
  <1>1. CASE lease = NoLease
    BY <1>1 DEF AgedLease
  <1>2. CASE lease # NoLease
    <2>1. lease \in Lease
      BY <1>2
    <2>2. CountDown(lease.left) \in 0 .. LeaseSeconds
      BY <2>1, PolicyAssumption DEF Lease, CountDown
    <2>3. AgedLease(lease) = [lease EXCEPT !.left = CountDown(lease.left)]
      BY <1>2 DEF AgedLease
    <2>4. /\ AgedLease(lease) \in Lease
          /\ AgedLease(lease).token = lease.token
          /\ AgedLease(lease).worker = lease.worker
          /\ AgedLease(lease).left = CountDown(lease.left)
      BY <2>1, <2>2, <2>3 DEF Lease
    <2> QED BY <2>4, <1>2, NoLeaseAssumption
  <1> QED BY <1>1, <1>2

\* Time changes nothing of a row but the two timers.
LEMMA AgedRowProperties ==
    ASSUME NEW row \in Row
    PROVE  /\ AgedRow(row) \in Row
           /\ AgedRow(row).published = row.published
           /\ AgedRow(row).deadLettered = row.deadLettered
           /\ AgedRow(row).attempts = row.attempts
           /\ AgedRow(row).exists = row.exists
           /\ AgedRow(row).delay <= row.delay
           /\ AgedRow(row).lease = NoLease <=> row.lease = NoLease
           /\ row.lease # NoLease =>
                /\ AgedRow(row).lease.token = row.lease.token
                /\ AgedRow(row).lease.worker = row.lease.worker
                /\ AgedRow(row).lease.left = CountDown(row.lease.left)
  <1>1. /\ CountDown(row.delay) \in 0 .. RetryMaxSeconds
        /\ CountDown(row.delay) <= row.delay
    BY PolicyAssumption DEF CountDown, Row
  <1>2. row.lease \in Lease \cup {NoLease}
    BY DEF Row
  <1> QED BY <1>1, <1>2, AgedLeaseProperties DEF AgedRow, Row

\* The rows that inserts and their absence stand for.
LEMMA RowTyped == AbsentRow \in Row /\ InsertedRow \in Row
  <1>1. AbsentRow \in Row
    BY PolicyAssumption DEF AbsentRow, Row
  <1> QED BY <1>1 DEF InsertedRow, Row
=============================================================================
