------------------------ MODULE OutboxDeliveryProofs ------------------------
(***************************************************************************)
(* Proofs about OutboxDelivery, for any sets of events, processes and       *)
(* tokens and any policy that OutboxDeliveryPolicy accepts.                 *)
(***************************************************************************)
EXTENDS OutboxDelivery, TLAPS

\* A reported outcome belongs to a claim, a reported success was really
\* handled and a reported permanent failure was recorded.
OutcomeHonest ==
    \A w \in Worker :
        outcome[w] # "none" =>
            /\ claim[w] # NoClaim
            /\ outcome[w] = "success" => handled[claim[w].event] > 0
            /\ outcome[w] = "permanent" => refused[claim[w].event]

\* A verdict clears the lease, so nobody owns a settled row; only inserted
\* rows are leased or settled.
RowShape ==
    \A e \in Event :
        /\ Settled(outbox[e]) => outbox[e].exists /\ outbox[e].lease = NoLease
        /\ outbox[e].lease # NoLease => outbox[e].exists

\* The inductive invariant.
IInv ==
    /\ TypeOK
    /\ RowShape
    /\ OutcomeHonest
    /\ PublishedWasHandled
    /\ DeadLetterJustified
    /\ ClaimTokensDistinct
-----------------------------------------------------------------------------
(* The invariant, action by action.                                         *)

LEMMA InitIInv == Init => IInv
  <1> SUFFICES ASSUME Init PROVE IInv
    OBVIOUS
  <1>1. TypeOK
    BY RowTyped, MaxFaultsAssumption DEF Init, TypeOK, Outcome
  <1>2. \A e \in Event :
          /\ ~outbox[e].published
          /\ ~outbox[e].deadLettered
          /\ outbox[e].lease = NoLease
    BY DEF Init, AbsentRow
  <1> QED
    BY <1>1, <1>2 DEF Init, IInv, OutcomeHonest, PublishedWasHandled, Settled,
                      RowShape, DeadLetterJustified, ClaimTokensDistinct

LEMMA EnqueueIInv ==
    ASSUME IInv, NEW e \in Event, Enqueue(e)
    PROVE  IInv'
  <1>1. outbox' = [outbox EXCEPT ![e] = InsertedRow]
    BY DEF Enqueue
  <1>2. /\ ~InsertedRow.published
        /\ ~InsertedRow.deadLettered
        /\ InsertedRow.exists
    BY DEF InsertedRow, AbsentRow
  <1>3. TypeOK'
    BY <1>1, RowTyped DEF IInv, TypeOK, Enqueue
  <1>4. PublishedWasHandled' /\ DeadLetterJustified' /\ RowShape'
    BY <1>1, <1>2 DEF IInv, TypeOK, PublishedWasHandled, DeadLetterJustified,
                      RowShape, Settled, Enqueue
  <1> QED
    BY <1>3, <1>4 DEF IInv, OutcomeHonest, ClaimTokensDistinct, Enqueue

LEMMA ClaimNextIInv ==
    ASSUME IInv, NEW w \in Worker, ClaimNext(w)
    PROVE  IInv'
  <1>1. PICK e \in Event, t \in Token \ TokensInUse :
          /\ Claimable(outbox[e])
          /\ outbox' = [outbox EXCEPT ![e] = ClaimedRow(@, w, t)]
          /\ claim' = [claim EXCEPT ![w] = [event |-> e, token |-> t]]
    BY DEF ClaimNext
  <1>2. /\ outbox[e] \in Row
        /\ t \in Token
        /\ claim[w] = NoClaim
        /\ UNCHANGED <<outcome, handled, refused, faults>>
    BY DEF IInv, TypeOK, ClaimNext
  <1>3. /\ ClaimedRow(outbox[e], w, t) \in Row
        /\ ClaimedRow(outbox[e], w, t).published = outbox[e].published
        /\ ClaimedRow(outbox[e], w, t).deadLettered = outbox[e].deadLettered
        /\ ClaimedRow(outbox[e], w, t).exists = outbox[e].exists
    BY <1>2, ClaimedRowProperties
  <1>4. ~outbox[e].published /\ ~outbox[e].deadLettered /\ outbox[e].exists
    BY <1>1 DEF Claimable, Pending, Settled
  <1>5. [event |-> e, token |-> t] \in Claim /\ [event |-> e, token |-> t] # NoClaim
    BY <1>2, NoClaimAssumption DEF Claim
  <1>6. TypeOK'
    BY <1>1, <1>2, <1>3, <1>5 DEF IInv, TypeOK
  <1>7. OutcomeHonest'
    BY <1>1, <1>2, <1>5 DEF IInv, TypeOK, OutcomeHonest
  <1>8. PublishedWasHandled' /\ DeadLetterJustified' /\ RowShape'
    BY <1>1, <1>2, <1>3, <1>4
       DEF IInv, TypeOK, PublishedWasHandled, DeadLetterJustified,
           RowShape, Settled
  <1>9. ClaimTokensDistinct'
    <2>1. \A v \in Worker : claim[v] # NoClaim => claim[v].token # t
      BY DEF TokensInUse
    <2>2. /\ claim'[w].token = t
          /\ \A v \in Worker : v # w => claim'[v] = claim[v]
      BY <1>1 DEF IInv, TypeOK
    <2> QED BY <2>1, <2>2 DEF IInv, ClaimTokensDistinct
  <1> QED BY <1>6, <1>7, <1>8, <1>9 DEF IInv

LEMMA HandleIInv ==
    ASSUME IInv, NEW w \in Worker, Handle(w)
    PROVE  IInv'
  <1>1. PICK result \in Outcome \ {"none"}, done \in BOOLEAN :
          /\ result = "success" => done
          /\ outcome' = [outcome EXCEPT ![w] = result]
          /\ handled' = [handled EXCEPT ![claim[w].event] =
                            IF done /\ @ < 2 THEN @ + 1 ELSE @]
          /\ refused' = [refused EXCEPT ![claim[w].event] =
                            @ \/ result = "permanent"]
    BY DEF Handle
  <1>2. /\ claim[w] # NoClaim
        /\ claim[w] \in Claim
        /\ claim[w].event \in Event
        /\ UNCHANGED <<outbox, claim, faults>>
    BY DEF IInv, TypeOK, Handle, Claim
  <1>3. \A e \in Event :
          /\ handled'[e] \in 0 .. 2
          /\ handled[e] > 0 => handled'[e] > 0
          /\ e = claim[w].event /\ done => handled'[e] > 0
    BY <1>1, <1>2 DEF IInv, TypeOK
  <1>4. \A e \in Event :
          /\ refused'[e] \in BOOLEAN
          /\ refused[e] => refused'[e]
          /\ e = claim[w].event /\ result = "permanent" => refused'[e]
    BY <1>1, <1>2 DEF IInv, TypeOK
  <1>5. TypeOK'
    <2>1. handled' \in [Event -> 0 .. 2]
      BY <1>1, <1>3 DEF IInv, TypeOK
    <2>2. refused' \in [Event -> BOOLEAN]
      BY <1>1, <1>4 DEF IInv, TypeOK
    <2> QED BY <1>1, <1>2, <2>1, <2>2 DEF IInv, TypeOK
  <1>6. OutcomeHonest'
    <2> SUFFICES ASSUME NEW v \in Worker, outcome'[v] # "none"
                 PROVE  /\ claim[v] # NoClaim
                        /\ outcome'[v] = "success" => handled'[claim[v].event] > 0
                        /\ outcome'[v] = "permanent" => refused'[claim[v].event]
      BY <1>2 DEF OutcomeHonest
    <2>1. CASE v = w
      BY <2>1, <1>1, <1>2, <1>3, <1>4 DEF IInv, TypeOK
    <2>2. CASE v # w
      <3>1. outcome'[v] = outcome[v]
        BY <2>2, <1>1 DEF IInv, TypeOK
      <3>2. claim[v] # NoClaim /\ claim[v].event \in Event
        BY <3>1 DEF IInv, TypeOK, OutcomeHonest, Claim
      <3> QED BY <3>1, <3>2, <1>3, <1>4 DEF IInv, OutcomeHonest
    <2> QED BY <2>1, <2>2
  <1>7. PublishedWasHandled' /\ DeadLetterJustified' /\ RowShape'
    BY <1>2, <1>3, <1>4
       DEF IInv, PublishedWasHandled, DeadLetterJustified, RowShape
  <1>8. ClaimTokensDistinct'
    BY <1>2 DEF IInv, ClaimTokensDistinct
  <1> QED BY <1>5, <1>6, <1>7, <1>8 DEF IInv

\* Once a process forgets its claim, the rest of the claims stay distinct and
\* honest.
LEMMA ForgetPreserves ==
    ASSUME IInv, NEW w \in Worker, Forget(w), UNCHANGED <<handled, refused>>
    PROVE  /\ claim' \in [Worker -> Claim \cup {NoClaim}]
           /\ outcome' \in [Worker -> Outcome]
           /\ OutcomeHonest'
           /\ ClaimTokensDistinct'
  <1>1. \A v \in Worker :
          /\ v = w => claim'[v] = NoClaim /\ outcome'[v] = "none"
          /\ v # w => claim'[v] = claim[v] /\ outcome'[v] = outcome[v]
    BY DEF IInv, TypeOK, Forget
  <1>2. claim' \in [Worker -> Claim \cup {NoClaim}] /\ outcome' \in [Worker -> Outcome]
    BY DEF IInv, TypeOK, Forget, Outcome
  <1>3. OutcomeHonest'
    BY <1>1 DEF IInv, OutcomeHonest
  <1>4. ClaimTokensDistinct'
    BY <1>1 DEF IInv, ClaimTokensDistinct
  <1> QED BY <1>2, <1>3, <1>4

LEMMA AcknowledgeIInv ==
    ASSUME IInv, NEW w \in Worker, Acknowledge(w)
    PROVE  IInv'
  <1> DEFINE e == claim[w].event
  <1>1. /\ claim[w] # NoClaim
        /\ outcome[w] = "success"
        /\ Forget(w)
        /\ UNCHANGED <<handled, refused, faults>>
    BY DEF Acknowledge
  <1>2. e \in Event /\ outbox[e] \in Row /\ handled[e] > 0
    BY <1>1 DEF IInv, TypeOK, OutcomeHonest, Claim
  <1>3. CASE outbox' = outbox
    BY <1>1, <1>3, ForgetPreserves
       DEF IInv, TypeOK, PublishedWasHandled, DeadLetterJustified,
           RowShape
  <1>4. CASE /\ ~Settled(outbox[e])
             /\ Owns(outbox[e], w, claim[w].token)
             /\ outbox' = [outbox EXCEPT ![e] = PublishedRow(@)]
    <2>1. /\ PublishedRow(outbox[e]) \in Row
          /\ PublishedRow(outbox[e]).deadLettered = outbox[e].deadLettered
          /\ PublishedRow(outbox[e]).lease = NoLease
          /\ PublishedRow(outbox[e]).exists
          /\ ~outbox[e].deadLettered
      BY <1>2, <1>4, PublishedRowProperties DEF Settled, IInv, RowShape, LeaseLive, Owns
    <2>2. outbox' \in [Event -> Row]
      BY <1>2, <1>4, <2>1 DEF IInv, TypeOK
    <2>3. PublishedWasHandled' /\ DeadLetterJustified' /\ RowShape'
      BY <1>1, <1>2, <1>4, <2>1
         DEF IInv, TypeOK, PublishedWasHandled, DeadLetterJustified,
             RowShape
    <2> QED BY <1>1, <2>2, <2>3, ForgetPreserves DEF IInv, TypeOK
  <1> QED BY <1>3, <1>4 DEF Acknowledge

LEMMA RejectIInv ==
    ASSUME IInv, NEW w \in Worker, Reject(w)
    PROVE  IInv'
  <1> DEFINE e == claim[w].event
             row == RejectedRow(outbox[e], outcome[w] = "permanent", TRUE)
  <1>1. /\ claim[w] # NoClaim
        /\ outcome[w] \in {"transient", "permanent"}
        /\ Forget(w)
        /\ UNCHANGED <<handled, refused, faults>>
    BY DEF Reject
  <1>2. /\ e \in Event
        /\ outbox[e] \in Row
        /\ outcome[w] = "permanent" => refused[e]
    BY <1>1 DEF IInv, TypeOK, OutcomeHonest, Claim
  <1>3. CASE outbox' = outbox
    BY <1>1, <1>3, ForgetPreserves
       DEF IInv, TypeOK, PublishedWasHandled, DeadLetterJustified,
           RowShape
  <1>4. CASE /\ ~Settled(outbox[e])
             /\ Owns(outbox[e], w, claim[w].token)
             /\ outbox' = [outbox EXCEPT ![e] = row]
    <2>1. /\ row \in Row
          /\ row.published = outbox[e].published
          /\ row.attempts = outbox[e].attempts
          /\ row.exists = outbox[e].exists
          /\ row.lease = NoLease
          /\ row.deadLettered =>
               \/ outbox[e].deadLettered
               \/ outcome[w] = "permanent"
               \/ outbox[e].attempts >= MaxAttempts
      <3>1. (outcome[w] = "permanent") \in BOOLEAN /\ TRUE \in BOOLEAN
        OBVIOUS
      <3> QED BY <1>2, <3>1, RejectedRowProperties
    <2>2. ~outbox[e].deadLettered /\ ~outbox[e].published /\ outbox[e].exists
      BY <1>2, <1>4 DEF Settled, IInv, RowShape, LeaseLive, Owns
    <2>3. outbox' \in [Event -> Row]
      BY <1>2, <1>4, <2>1 DEF IInv, TypeOK
    <2>4. PublishedWasHandled' /\ DeadLetterJustified' /\ RowShape'
      BY <1>1, <1>2, <1>4, <2>1, <2>2
         DEF IInv, TypeOK, PublishedWasHandled, DeadLetterJustified,
             RowShape
    <2> QED BY <1>1, <2>3, <2>4, ForgetPreserves DEF IInv, TypeOK
  <1> QED BY <1>3, <1>4 DEF Reject

LEMMA CrashIInv ==
    ASSUME IInv, NEW w \in Worker, Crash(w)
    PROVE  IInv'
  <1>1. Forget(w) /\ UNCHANGED <<outbox, handled, refused>>
    BY DEF Crash
  <1>2. faults' \in 0 .. MaxFaults
    BY MaxFaultsAssumption DEF IInv, TypeOK, Crash
  <1> QED
    BY <1>1, <1>2, ForgetPreserves
       DEF IInv, TypeOK, PublishedWasHandled, DeadLetterJustified,
           RowShape

LEMMA TickIInv ==
    ASSUME IInv, Tick
    PROVE  IInv'
  <1>1. \A e \in Event :
          /\ outbox[e] \in Row
          /\ outbox'[e] = AgedRow(outbox[e])
    BY DEF IInv, TypeOK, Tick
  <1>2. \A e \in Event :
          /\ outbox'[e] \in Row
          /\ outbox'[e].published = outbox[e].published
          /\ outbox'[e].deadLettered = outbox[e].deadLettered
          /\ outbox'[e].attempts = outbox[e].attempts
          /\ outbox'[e].exists = outbox[e].exists
          /\ outbox'[e].lease = NoLease <=> outbox[e].lease = NoLease
    BY <1>1, AgedRowProperties
  <1>3. faults' \in 0 .. MaxFaults
    BY MaxFaultsAssumption DEF IInv, TypeOK, Tick
  <1>4. TypeOK'
    <2>1. outbox' \in [Event -> Row]
      BY <1>2 DEF Tick
    <2> QED BY <1>3, <2>1 DEF IInv, TypeOK, Tick
  <1>5. PublishedWasHandled' /\ DeadLetterJustified' /\ RowShape'
    BY <1>2 DEF IInv, PublishedWasHandled, DeadLetterJustified,
                RowShape, Settled, Tick
  <1> QED BY <1>4, <1>5 DEF IInv, OutcomeHonest, ClaimTokensDistinct, Tick

LEMMA NextIInv == IInv /\ [Next]_vars => IInv'
  <1> SUFFICES ASSUME IInv, [Next]_vars PROVE IInv'
    OBVIOUS
  <1>1. ASSUME NEW e \in Event, Enqueue(e) PROVE IInv'
    BY <1>1, EnqueueIInv
  <1>2. ASSUME NEW w \in Worker, ClaimNext(w) PROVE IInv'
    BY <1>2, ClaimNextIInv
  <1>3. ASSUME NEW w \in Worker, Handle(w) PROVE IInv'
    BY <1>3, HandleIInv
  <1>4. ASSUME NEW w \in Worker, Acknowledge(w) PROVE IInv'
    BY <1>4, AcknowledgeIInv
  <1>5. ASSUME NEW w \in Worker, Reject(w) PROVE IInv'
    BY <1>5, RejectIInv
  <1>6. ASSUME NEW w \in Worker, Crash(w) PROVE IInv'
    BY <1>6, CrashIInv
  <1>7. CASE Tick
    BY <1>7, TickIInv
  <1>8. CASE UNCHANGED vars
    BY <1>8 DEF vars, IInv, TypeOK, OutcomeHonest, PublishedWasHandled,
                RowShape, DeadLetterJustified, ClaimTokensDistinct
  <1> QED BY <1>1, <1>2, <1>3, <1>4, <1>5, <1>6, <1>7, <1>8 DEF Next

\* Every reachable state satisfies the inductive invariant.
THEOREM Invariance == Spec => []IInv
  <1> QED BY InitIInv, NextIInv, PTL DEF Spec

\* The rows, claims and outcomes always have their types.
THEOREM TypeCorrect == Spec => []TypeOK
  <1>1. IInv => TypeOK
    BY DEF IInv
  <1> QED BY <1>1, Invariance, PTL

\* An event is published only after a handler did its work.
THEOREM AtLeastOnce == Spec => []PublishedWasHandled
  <1>1. IInv => PublishedWasHandled
    BY DEF IInv
  <1> QED BY <1>1, Invariance, PTL

\* A dead letter has a reason: exhausted attempts or a permanent failure.
THEOREM NoUnjustifiedDeadLetter == Spec => []DeadLetterJustified
  <1>1. IInv => DeadLetterJustified
    BY DEF IInv
  <1> QED BY <1>1, Invariance, PTL

\* Two processes never hold the same lease token.
THEOREM OneHolderPerToken == Spec => []ClaimTokensDistinct
  <1>1. IInv => ClaimTokensDistinct
    BY DEF IInv
  <1> QED BY <1>1, Invariance, PTL
-----------------------------------------------------------------------------
(* What one step may do to one row.                                         *)

\* A settlement by process w leaves the row alone, or is made by the owner of
\* a live lease on an open row.
SettledBy(e, w) ==
    /\ claim[w] # NoClaim
    /\ claim[w].event = e
    /\ ~Settled(outbox[e])
    /\ Owns(outbox[e], w, claim[w].token)
    /\ claim'[w] = NoClaim
    /\ \/ outcome[w] = "success" /\ outbox'[e] = PublishedRow(outbox[e])
       \/ outbox'[e] = RejectedRow(outbox[e], outcome[w] = "permanent", TRUE)

ClaimedBy(e, w) ==
    /\ Claimable(outbox[e])
    /\ \E t \in Token : outbox'[e] = ClaimedRow(outbox[e], w, t)

\* The ways a row can change.
LEMMA RowSteps ==
    ASSUME IInv, [Next]_vars, NEW e \in Event
    PROVE  \/ outbox'[e] = outbox[e]
           \/ outbox'[e] = AgedRow(outbox[e])
           \/ ~outbox[e].exists /\ outbox'[e] = InsertedRow
           \/ \E w \in Worker : ClaimedBy(e, w)
           \/ \E w \in Worker : SettledBy(e, w)
  <1> USE DEF IInv, TypeOK
  <1>1. ASSUME NEW d \in Event, Enqueue(d)
        PROVE  outbox'[e] = outbox[e] \/ (~outbox[e].exists /\ outbox'[e] = InsertedRow)
    BY <1>1 DEF Enqueue
  <1>2. ASSUME NEW w \in Worker, ClaimNext(w)
        PROVE  outbox'[e] = outbox[e] \/ ClaimedBy(e, w)
    BY <1>2 DEF ClaimNext, ClaimedBy
  <1>3. ASSUME NEW w \in Worker, Handle(w) \/ Crash(w)
        PROVE  outbox'[e] = outbox[e]
    BY <1>3 DEF Handle, Crash
  <1>4. ASSUME NEW w \in Worker, Acknowledge(w)
        PROVE  outbox'[e] = outbox[e] \/ SettledBy(e, w)
    BY <1>4 DEF Acknowledge, SettledBy, Forget
  <1>5. ASSUME NEW w \in Worker, Reject(w)
        PROVE  outbox'[e] = outbox[e] \/ SettledBy(e, w)
    BY <1>5 DEF Reject, SettledBy, Forget
  <1>6. CASE Tick
    BY <1>6 DEF Tick
  <1>7. CASE UNCHANGED vars
    BY <1>7 DEF vars
  <1> QED BY <1>1, <1>2, <1>3, <1>4, <1>5, <1>6, <1>7 DEF Next

\* An inserted row is neither settled nor delayed nor leased.
LEMMA InsertedRowOpen ==
    /\ ~Settled(InsertedRow)
    /\ InsertedRow.delay = 0
    /\ InsertedRow.exists
  BY DEF InsertedRow, AbsentRow, Settled

\* Published and dead-lettered are final.
THEOREM VerdictsAreFinal == Spec => TerminalIsFinal
  <1>1. IInv /\ [Next]_vars =>
          [\A e \in Event :
            Settled(outbox[e]) =>
                /\ outbox'[e].published = outbox[e].published
                /\ outbox'[e].deadLettered = outbox[e].deadLettered
                /\ outbox'[e].attempts = outbox[e].attempts
                /\ outbox'[e].lease = outbox[e].lease]_vars
    <2> SUFFICES ASSUME IInv, [Next]_vars, NEW e \in Event, Settled(outbox[e])
                 PROVE  /\ outbox'[e].published = outbox[e].published
                        /\ outbox'[e].deadLettered = outbox[e].deadLettered
                        /\ outbox'[e].attempts = outbox[e].attempts
                        /\ outbox'[e].lease = outbox[e].lease
      OBVIOUS
    <2>1. outbox[e] \in Row /\ outbox[e].lease = NoLease /\ outbox[e].exists
      BY DEF IInv, TypeOK, RowShape
    <2>2. outbox'[e] = outbox[e] \/ outbox'[e] = AgedRow(outbox[e])
      BY <2>1, RowSteps DEF ClaimedBy, SettledBy, Claimable, Pending
    <2> QED BY <2>1, <2>2, AgedRowProperties
  <1> QED BY <1>1, Invariance, PTL DEF Spec, TerminalIsFinal

\* A live lease ends only by time or by its owner.
THEOREM LeasesExclude == Spec => LiveLeaseIsExclusive
  <1> DEFINE Kept(e) ==
          \/ /\ outbox'[e].lease # NoLease
             /\ outbox'[e].lease.token = outbox[e].lease.token
          \/ \E w \in Worker :
              /\ claim[w] # NoClaim
              /\ claim[w].event = e
              /\ Owns(outbox[e], w, claim[w].token)
              /\ claim'[w] = NoClaim
  <1>1. IInv /\ [Next]_vars =>
          [\A e \in Event : LeaseLive(outbox[e]) => Kept(e)]_vars
    <2> SUFFICES ASSUME IInv, [Next]_vars, NEW e \in Event, LeaseLive(outbox[e])
                 PROVE  Kept(e)
      OBVIOUS
    <2>1. outbox[e] \in Row /\ outbox[e].lease # NoLease /\ outbox[e].exists
      BY DEF IInv, TypeOK, RowShape, LeaseLive
    <2>2. CASE outbox'[e] = outbox[e]
      BY <2>1, <2>2
    <2>3. CASE outbox'[e] = AgedRow(outbox[e])
      BY <2>1, <2>3, AgedRowProperties
    <2>4. CASE \E w \in Worker : SettledBy(e, w)
      BY <2>4 DEF SettledBy
    <2>5. ~ \E w \in Worker : ClaimedBy(e, w)
      BY DEF ClaimedBy, Claimable
    <2> QED BY <2>1, <2>2, <2>3, <2>4, <2>5, RowSteps
  <1> QED BY <1>1, Invariance, PTL DEF Spec, LiveLeaseIsExclusive

\* Only the owner of a live lease settles a row or puts it back for retry.
THEOREM OwnersSettle == Spec => OnlyOwnerSettles
  <1> DEFINE Changed(e) ==
          \/ Settled(outbox'[e]) # Settled(outbox[e])
          \/ outbox'[e].delay > outbox[e].delay
             Owned(e) ==
          \E w \in Worker :
              /\ claim[w] # NoClaim
              /\ claim[w].event = e
              /\ outbox[e].lease # NoLease
              /\ outbox[e].lease.token = claim[w].token
              /\ outbox[e].lease.left > 0
  <1>1. IInv /\ [Next]_vars =>
          [\A e \in Event : Changed(e) => Owned(e)]_vars
    <2> SUFFICES ASSUME IInv, [Next]_vars, NEW e \in Event, Changed(e)
                 PROVE  Owned(e)
      OBVIOUS
    <2>1. /\ outbox[e] \in Row
          /\ outbox[e].delay \in Int
          /\ Settled(outbox[e]) => outbox[e].exists
      BY DEF IInv, TypeOK, RowShape, Row
    <2>2. CASE outbox'[e] = outbox[e]
      BY <2>1, <2>2
    <2>3. CASE outbox'[e] = AgedRow(outbox[e])
      <3>1. /\ Settled(outbox'[e]) = Settled(outbox[e])
            /\ outbox'[e].delay <= outbox[e].delay
        BY <2>1, <2>3, AgedRowProperties DEF Settled
      <3>2. outbox'[e].delay \in Int
        BY <2>1, <2>3, AgedRowProperties DEF Row
      <3> QED BY <2>1, <3>1, <3>2
    <2>4. CASE ~outbox[e].exists /\ outbox'[e] = InsertedRow
      <3>1. ~Settled(outbox[e]) /\ ~Settled(outbox'[e])
        BY <2>1, <2>4, InsertedRowOpen
      <3>2. outbox[e].delay >= 0 /\ outbox'[e].delay = 0
        BY <2>1, <2>4, InsertedRowOpen, PolicyAssumption DEF Row
      <3> QED BY <2>1, <3>1, <3>2 DEF Settled
    <2>5. CASE \E w \in Worker : ClaimedBy(e, w)
      <3>1. PICK w \in Worker, t \in Token : outbox'[e] = ClaimedRow(outbox[e], w, t)
        BY <2>5 DEF ClaimedBy
      <3>2. /\ outbox'[e].published = outbox[e].published
            /\ outbox'[e].deadLettered = outbox[e].deadLettered
        <4>1. /\ ClaimedRow(outbox[e], w, t).published = outbox[e].published
              /\ ClaimedRow(outbox[e], w, t).deadLettered = outbox[e].deadLettered
          BY <2>1, ClaimedRowProperties
        <4> QED BY <3>1, <4>1
      <3>3. outbox'[e].delay = outbox[e].delay
        BY <2>1, <3>1 DEF ClaimedRow, Row
      <3> QED BY <2>1, <3>2, <3>3 DEF Settled
    <2>6. CASE \E w \in Worker : SettledBy(e, w)
      BY <2>6 DEF SettledBy, Owns, LeaseLive
    <2> QED BY <2>2, <2>3, <2>4, <2>5, <2>6, RowSteps
  <1> QED BY <1>1, Invariance, PTL DEF Spec, OnlyOwnerSettles
-----------------------------------------------------------------------------
(* OutboxDelivery implements the safety part of DurableDelivery.            *)

\* Rows are never deleted, and only inserted rows are claimed.
ClaimedRowsExist ==
    \A w \in Worker : claim[w] # NoClaim => outbox[claim[w].event].exists

LEMMA RowsStay ==
    ASSUME IInv, [Next]_vars, NEW e \in Event, outbox[e].exists
    PROVE  outbox'[e].exists
  <1>1. outbox[e] \in Row
    BY DEF IInv, TypeOK
  <1>2. CASE outbox'[e] = AgedRow(outbox[e])
    BY <1>1, <1>2, AgedRowProperties
  <1>3. CASE \E w \in Worker : ClaimedBy(e, w)
    <2>1. PICK w \in Worker, t \in Token : outbox'[e] = ClaimedRow(outbox[e], w, t)
      BY <1>3 DEF ClaimedBy
    <2>2. ClaimedRow(outbox[e], w, t).exists = outbox[e].exists
      BY <1>1, ClaimedRowProperties
    <2> QED BY <2>1, <2>2
  <1>4. CASE \E w \in Worker : SettledBy(e, w)
    <2>1. PICK w \in Worker :
            \/ outbox'[e] = PublishedRow(outbox[e])
            \/ outbox'[e] = RejectedRow(outbox[e], outcome[w] = "permanent", TRUE)
      BY <1>4 DEF SettledBy
    <2>2. (outcome[w] = "permanent") \in BOOLEAN /\ TRUE \in BOOLEAN
      OBVIOUS
    <2>3. /\ PublishedRow(outbox[e]).exists = outbox[e].exists
          /\ RejectedRow(outbox[e], outcome[w] = "permanent", TRUE).exists
               = outbox[e].exists
      BY <1>1, <2>2, PublishedRowProperties, RejectedRowProperties
    <2> QED BY <2>1, <2>3
  <1> QED BY <1>2, <1>3, <1>4, RowSteps, InsertedRowOpen

LEMMA ClaimedRowsExistInductive ==
    ASSUME IInv, ClaimedRowsExist, [Next]_vars
    PROVE  ClaimedRowsExist'
  <1> SUFFICES ASSUME NEW w \in Worker, claim'[w] # NoClaim
               PROVE  outbox'[claim'[w].event].exists
    BY DEF ClaimedRowsExist
  <1>1. CASE claim'[w] = claim[w]
    <2>1. claim[w].event \in Event
      BY <1>1 DEF IInv, TypeOK, Claim
    <2> QED BY <1>1, <2>1, RowsStay DEF ClaimedRowsExist
  <1>2. CASE claim'[w] # claim[w]
    <2>1. ClaimNext(w)
      BY <1>2 DEF IInv, TypeOK, Next, vars, Enqueue, ClaimNext, Handle,
                  Acknowledge, Reject, Crash, Tick, Forget
    <2>2. PICK e \in Event, t \in Token :
            Claimable(outbox[e]) /\ claim'[w] = [event |-> e, token |-> t]
      BY <2>1 DEF ClaimNext, IInv, TypeOK
    <2>3. outbox'[e].exists
      BY <2>2, RowsStay DEF Claimable, Pending
    <2> QED BY <2>2, <2>3
  <1> QED BY <1>1, <1>2

status == [e \in Event |-> Status(outbox[e])]

done == [e \in Event |-> handled[e] > 0]

\* The status of a row.
LEMMA StatusOfRow ==
    ASSUME NEW row \in Row
    PROVE  /\ ~row.exists => Status(row) = "absent"
           /\ row.exists /\ row.published => Status(row) = "published"
           /\ row.exists /\ ~row.published /\ row.deadLettered => Status(row) = "dead"
           /\ row.exists /\ ~row.published /\ ~row.deadLettered
                => Status(row) = "pending"
  BY DEF Status, Row

\* A step that changes one row changes at most its status.
LEMMA OneStatus ==
    ASSUME IInv, NEW d \in Event, NEW r \in Row,
           outbox' = [outbox EXCEPT ![d] = r]
    PROVE  status' = [status EXCEPT ![d] = Status(r)]
  BY DEF IInv, TypeOK, status

LEMMA EnqueueRefines ==
    ASSUME IInv, NEW e \in Event, Enqueue(e)
    PROVE  Promise!Next
  <1>1. InsertedRow \in Row /\ outbox[e] \in Row
    BY RowTyped DEF IInv, TypeOK
  <1>2. Status(InsertedRow) = "pending"
    BY <1>1, StatusOfRow DEF InsertedRow, AbsentRow
  <1>3. status' = [status EXCEPT ![e] = "pending"]
    BY <1>1, <1>2, OneStatus DEF Enqueue
  <1>4. status[e] = "absent"
    BY <1>1, StatusOfRow DEF Enqueue, status
  <1>5. done' = done
    BY DEF Enqueue, done
  <1> QED BY <1>3, <1>4, <1>5 DEF Promise!Next, Promise!Enqueue, status, done

LEMMA ClaimNextRefines ==
    ASSUME IInv, NEW w \in Worker, ClaimNext(w)
    PROVE  status' = status /\ done' = done
  <1>1. PICK e \in Event, t \in Token :
          outbox' = [outbox EXCEPT ![e] = ClaimedRow(@, w, t)]
    BY DEF ClaimNext
  <1>2. outbox[e] \in Row
    BY DEF IInv, TypeOK
  <1>3. /\ ClaimedRow(outbox[e], w, t) \in Row
        /\ ClaimedRow(outbox[e], w, t).published = outbox[e].published
        /\ ClaimedRow(outbox[e], w, t).deadLettered = outbox[e].deadLettered
        /\ ClaimedRow(outbox[e], w, t).exists = outbox[e].exists
    BY <1>2, ClaimedRowProperties
  <1>4. Status(ClaimedRow(outbox[e], w, t)) = Status(outbox[e])
    BY <1>3 DEF Status
  <1>5. status' = [status EXCEPT ![e] = Status(outbox[e])]
    BY <1>1, <1>3, <1>4, OneStatus
  <1> QED BY <1>5 DEF ClaimNext, status, done

LEMMA HandleRefines ==
    ASSUME IInv, ClaimedRowsExist, NEW w \in Worker, Handle(w)
    PROVE  Promise!Next \/ (status' = status /\ done' = done)
  <1> DEFINE e == claim[w].event
  <1>1. e \in Event /\ outbox' = outbox /\ outbox[e] \in Row /\ outbox[e].exists
    BY DEF Handle, Claim, IInv, TypeOK, ClaimedRowsExist
  <1>2. status' = status /\ status[e] # "absent"
    <2>1. Status(outbox[e]) # "absent"
      BY <1>1, StatusOfRow DEF Row
    <2> QED BY <1>1, <2>1 DEF status
  <1>3. PICK more \in BOOLEAN :
          handled' = [handled EXCEPT ![e] = IF more /\ @ < 2 THEN @ + 1 ELSE @]
    BY DEF Handle
  <1>4. /\ \A d \in Event : d # e => handled'[d] = handled[d]
        /\ handled'[e] = handled[e] \/ handled'[e] > 0
    BY <1>1, <1>3 DEF IInv, TypeOK
  <1>5. done' = done \/ done' = [done EXCEPT ![e] = TRUE]
    BY <1>1, <1>4 DEF done
  <1> QED BY <1>1, <1>2, <1>5 DEF Promise!Next, Promise!Work, status, done

LEMMA AcknowledgeRefines ==
    ASSUME IInv, ClaimedRowsExist, NEW w \in Worker, Acknowledge(w)
    PROVE  Promise!Next \/ (status' = status /\ done' = done)
  <1> DEFINE e == claim[w].event
  <1>1. /\ e \in Event
        /\ outbox[e] \in Row
        /\ outbox[e].exists
        /\ done[e]
        /\ done' = done
    BY DEF Acknowledge, Claim, IInv, TypeOK, ClaimedRowsExist, OutcomeHonest, done
  <1>2. CASE outbox' = outbox
    BY <1>1, <1>2 DEF status
  <1>3. CASE /\ ~Settled(outbox[e])
             /\ outbox' = [outbox EXCEPT ![e] = PublishedRow(@)]
    <2>1. /\ PublishedRow(outbox[e]) \in Row
          /\ PublishedRow(outbox[e]).published
          /\ PublishedRow(outbox[e]).exists
      BY <1>1, PublishedRowProperties
    <2>2. Status(PublishedRow(outbox[e])) = "published"
      BY <2>1, StatusOfRow
    <2>3. status' = [status EXCEPT ![e] = "published"]
      BY <1>1, <1>3, <2>1, <2>2, OneStatus
    <2>4. status[e] = "pending"
      BY <1>1, <1>3, StatusOfRow DEF status, Settled
    <2> QED BY <1>1, <2>3, <2>4 DEF Promise!Next, Promise!Publish, status, done
  <1> QED BY <1>2, <1>3 DEF Acknowledge

LEMMA RejectRefines ==
    ASSUME IInv, ClaimedRowsExist, NEW w \in Worker, Reject(w)
    PROVE  Promise!Next \/ (status' = status /\ done' = done)
  <1> DEFINE e == claim[w].event
             row == RejectedRow(outbox[e], outcome[w] = "permanent", TRUE)
  <1>1. /\ e \in Event
        /\ outbox[e] \in Row
        /\ outbox[e].exists
        /\ done' = done
    BY DEF Reject, Claim, IInv, TypeOK, ClaimedRowsExist, done
  <1>2. CASE outbox' = outbox
    BY <1>1, <1>2 DEF status
  <1>3. CASE ~Settled(outbox[e]) /\ outbox' = [outbox EXCEPT ![e] = row]
    <2>1. /\ row \in Row
          /\ row.published = outbox[e].published
          /\ row.exists = outbox[e].exists
      <3>1. (outcome[w] = "permanent") \in BOOLEAN /\ TRUE \in BOOLEAN
        OBVIOUS
      <3> QED BY <1>1, <3>1, RejectedRowProperties
    <2>2. ~row.published /\ row.exists
      BY <1>1, <1>3, <2>1 DEF Settled
    <2>3. Status(row) = "dead" \/ Status(row) = "pending"
      BY <2>1, <2>2, StatusOfRow DEF Row
    <2>4. status' = [status EXCEPT ![e] = Status(row)]
      BY <1>1, <1>3, <2>1, OneStatus
    <2>5. status[e] = "pending"
      BY <1>1, <1>3, StatusOfRow DEF status, Settled
    <2>6. CASE Status(row) = "dead"
      BY <1>1, <2>4, <2>5, <2>6 DEF Promise!Next, Promise!DeadLetter, status, done
    <2>7. CASE Status(row) = "pending"
      BY <1>1, <2>4, <2>5, <2>7 DEF status
    <2> QED BY <2>3, <2>6, <2>7
  <1> QED BY <1>2, <1>3 DEF Reject

LEMMA TickRefines ==
    ASSUME IInv, Tick
    PROVE  status' = status /\ done' = done
  <1>1. \A e \in Event :
          /\ outbox'[e].published = outbox[e].published
          /\ outbox'[e].deadLettered = outbox[e].deadLettered
          /\ outbox'[e].exists = outbox[e].exists
    <2>1. \A e \in Event : outbox[e] \in Row /\ outbox'[e] = AgedRow(outbox[e])
      BY DEF IInv, TypeOK, Tick
    <2> QED BY <2>1, AgedRowProperties
  <1> QED BY <1>1 DEF Tick, status, done, Status

\* Every step maps to a step of DurableDelivery or to a stutter.
LEMMA StepRefines ==
    ASSUME IInv, ClaimedRowsExist, [Next]_vars
    PROVE  [Promise!Next]_(Promise!vars)
  <1> SUFFICES Promise!Next \/ (status' = status /\ done' = done)
    BY DEF Promise!vars, status, done
  <1>1. CASE UNCHANGED vars
    BY <1>1 DEF vars, status, done
  <1>2. ASSUME NEW w \in Worker, Crash(w)
        PROVE  status' = status /\ done' = done
    BY <1>2 DEF Crash, status, done
  <1> QED BY <1>1, <1>2, EnqueueRefines, ClaimNextRefines, HandleRefines,
             AcknowledgeRefines, RejectRefines, TickRefines DEF Next

LEMMA InitRefines == Init => Promise!Init /\ ClaimedRowsExist
  <1> SUFFICES ASSUME Init PROVE Promise!Init /\ ClaimedRowsExist
    OBVIOUS
  <1>1. Status(AbsentRow) = "absent"
    BY RowTyped, StatusOfRow DEF AbsentRow
  <1>2. /\ status = [e \in Event |-> "absent"]
        /\ done = [e \in Event |-> FALSE]
    <2>1. \A e \in Event : (handled[e] > 0) = FALSE
      BY DEF Init
    <2>2. done = [e \in Event |-> FALSE]
      BY <2>1, Zenon DEF done
    <2>3. status = [e \in Event |-> "absent"]
      BY <1>1 DEF Init, status
    <2> QED BY <2>2, <2>3
  <1>3. Promise!Init
    BY <1>2 DEF Promise!Init, status, done
  <1>4. ClaimedRowsExist
    BY DEF Init, ClaimedRowsExist
  <1> QED BY <1>3, <1>4

\* The outbox keeps the promise of DurableDelivery: at-least-once handling
\* before publication, one verdict per event, and the verdict is final.
THEOREM Refinement == Spec => Promise!Safety
  <1>1. Init => IInv /\ ClaimedRowsExist /\ Promise!Init
    BY InitIInv, InitRefines
  <1>2. IInv /\ ClaimedRowsExist /\ [Next]_vars => ClaimedRowsExist'
    BY ClaimedRowsExistInductive
  <1>3. IInv /\ ClaimedRowsExist /\ [Next]_vars => [Promise!Next]_(Promise!vars)
    BY StepRefines
  <1> QED BY <1>1, <1>2, <1>3, Invariance, PTL DEF Spec, Promise!Safety
=============================================================================
