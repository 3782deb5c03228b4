----------------------- MODULE IntegrationDeliveryProofs -----------------------
(***************************************************************************)
(* Proofs about IntegrationDelivery, for any business events, dispatchers   *)
(* and replays, and any policy that OutboxDeliveryPolicy accepts.           *)
(***************************************************************************)
EXTENDS IntegrationDelivery

\* Only inserted rows are settled, are being delivered, are on the wire or
\* have evidence.
RowsExist ==
    /\ \A e \in Event : Settled(outbox[e]) => outbox[e].exists
    /\ \A w \in Worker : Busy(w) => outbox[job[w].event].exists
    /\ \A e \in wire : outbox[e].exists
    /\ \A a \in attempts : outbox[a.event].exists

\* All rows of a business event before an existing one are dead-lettered, not
\* only its predecessor.
OlderAreDead ==
    \A d, e \in Event :
        d[1] = e[1] /\ d[2] < e[2] /\ outbox[e].exists => outbox[d].deadLettered

\* A dispatcher that is about to settle with a success holds a receipt.
AnswersAreReceipts ==
    \A w \in Worker :
        Busy(w) /\ job[w].step \in Success =>
            job[w].event \in receipted /\ job[w].event[1] \in stored

\* The number of a delivery is its own: no other delivery of the row and no
\* evidence has it, and the row has counted it.
NumbersAreOwn ==
    /\ \A w \in Worker : Busy(w) =>
          /\ job[w].number <= outbox[job[w].event].attempts
          /\ \A a \in attempts :
                a.event = job[w].event => a.number # job[w].number
          /\ \A v \in Worker :
                Busy(v) /\ job[v].event = job[w].event
                        /\ job[v].number = job[w].number => v = w
    /\ \A a \in attempts : a.number <= outbox[a.event].attempts

Owned(e) == \E w \in Worker : Busy(w) /\ job[w].event = e /\ OwnsEvent(w)

\* An open row was claimed less than MaxAttempts times without a fault, and
\* perhaps once more by a dispatcher that still owns it.
AttemptsAreBounded ==
    \A e \in Event :
        ~Settled(outbox[e]) =>
            /\ outbox[e].attempts <= MaxAttempts + faults
            /\ Owned(e) \/ outbox[e].attempts < MaxAttempts + faults

\* The inductive invariant.
IInv ==
    /\ TypeOK
    /\ RowsExist
    /\ PublishedIsStored
    /\ EvidenceMatchesVerdict
    /\ OneResultPerAttempt
    /\ OlderAreDead
    /\ AnswersAreReceipts
    /\ NumbersAreOwn
    /\ AttemptsAreBounded

\* Of all rows of one business event at most one is not dead-lettered: it can
\* still be delivered, or it is published.
OneLiveRow ==
    \A d, e \in Event :
        /\ d[1] = e[1]
        /\ outbox[d].exists /\ ~outbox[d].deadLettered
        /\ outbox[e].exists /\ ~outbox[e].deadLettered
        => d = e

\* A row is claimed at most MaxAttempts times, and once more for every crash
\* and every lease that ran out: nothing else makes a dispatcher send again.
ClaimsAreBounded ==
    \A e \in Event : outbox[e].exists /\ ~Settled(outbox[e]) =>
        outbox[e].attempts <= MaxAttempts + faults
-----------------------------------------------------------------------------
(* Typing.                                                                  *)

LEMMA JobTyped ==
    ASSUME TypeOK, NEW w \in Worker, Busy(w)
    PROVE  /\ job[w] \in Job
           /\ job[w].event \in Event
           /\ job[w].event[1] \in Key
           /\ job[w].number \in 1 .. AttemptCap
           /\ outbox[job[w].event] \in Row
  BY DEF TypeOK, Busy, Job, Event

\* The first and the next row of a business event.
LEMMA Replays ==
    /\ \A k \in Key : <<k, 0>> \in Event
    /\ \A k \in Key, g \in 0 .. MaxReplays - 1 :
          <<k, g>> \in Event /\ <<k, g + 1>> \in Event
    /\ \A e \in Event : e[1] \in Key /\ e[2] \in 0 .. MaxReplays /\ e = <<e[1], e[2]>>
  BY DeliveryAssumption DEF Event

\* The token of a claim is one that no process and no row remembers.
LEMMA FreshTokenTyped == ASSUME TypeOK PROVE FreshToken \in Token
  <1>1. PICK any \in Token : TRUE
    BY TokenAssumption
  <1> DEFINE f == [w \in Worker |-> IF Busy(w) THEN job[w].token ELSE any]
             g == [e \in Event |-> IF outbox[e].lease # NoLease
                                   THEN outbox[e].lease.token ELSE any]
  <1>2. f \in [Worker -> Token]
    BY DEF TypeOK, Busy, Job
  <1>3. g \in [Event -> Token]
    BY DEF TypeOK, Row, Lease
  <1>4. /\ \A w \in Worker : Busy(w) => f[w] = job[w].token
        /\ \A e \in Event :
              outbox[e].lease # NoLease => g[e] = outbox[e].lease.token
    OBVIOUS
  <1> HIDE DEF f, g
  <1>5. PICK t \in Token : (\A w \in Worker : f[w] # t) /\ (\A e \in Event : g[e] # t)
    BY <1>2, <1>3, TokenAssumption
  <1> QED BY <1>4, <1>5 DEF FreshToken

\* A row is published or dead-lettered, never both.
LEMMA OneVerdict ==
    ASSUME EvidenceMatchesVerdict, NEW e \in Event
    PROVE  ~(outbox[e].published /\ outbox[e].deadLettered)
  BY DEF EvidenceMatchesVerdict, Success, Failure

LEMMA InsertedRowOpen ==
    /\ InsertedRow.exists
    /\ ~Settled(InsertedRow)
    /\ ~InsertedRow.published
    /\ ~InsertedRow.deadLettered
    /\ InsertedRow.attempts = 0
  BY DEF InsertedRow, AbsentRow, Settled
-----------------------------------------------------------------------------
(* The invariant, action by action.                                         *)

LEMMA InitIInv == Init => IInv
  <1> SUFFICES ASSUME Init PROVE IInv
    OBVIOUS
  <1>1. \A e \in Event :
          /\ outbox[e] \in Row
          /\ ~outbox[e].exists
          /\ ~outbox[e].published
          /\ ~outbox[e].deadLettered
          /\ outbox[e].attempts = 0
    BY RowTyped DEF Init, AbsentRow
  <1>2. TypeOK
    BY RowTyped, DeliveryAssumption DEF Init, TypeOK
  <1>3. AttemptsAreBounded
    BY <1>1, PolicyAssumption DEF Init, AttemptsAreBounded
  <1>4. \A w \in Worker : ~Busy(w)
    BY DEF Init, Busy
  <1> QED
    BY <1>1, <1>2, <1>3, <1>4
       DEF Init, IInv, RowsExist, Settled, PublishedIsStored, EvidenceMatchesVerdict,
           OneResultPerAttempt, OlderAreDead, AnswersAreReceipts, NumbersAreOwn

\* A row is inserted behind dead-lettered ones.
LEMMA InsertKeeps ==
    ASSUME IInv, NEW e \in Event,
           ~outbox[e].exists,
           \A d \in Event : d[1] = e[1] /\ d[2] < e[2] => outbox[d].deadLettered,
           outbox' = [outbox EXCEPT ![e] = InsertedRow],
           UNCHANGED <<job, wire, stored, receipted, attempts, faults>>
    PROVE  IInv'
  <1>1. /\ outbox'[e] = InsertedRow
        /\ \A d \in Event : d # e => outbox'[d] = outbox[d]
        /\ outbox' \in [Event -> Row]
    BY RowTyped DEF IInv, TypeOK
  <1>2. ~Settled(outbox[e]) /\ ~outbox[e].deadLettered /\ ~outbox[e].published
    BY DEF IInv, RowsExist, Settled
  <1>3. /\ \A w \in Worker : Busy(w) => job[w].event \in Event /\ job[w].event # e
        /\ \A a \in attempts : a.event \in Event /\ a.event # e
        /\ wire \subseteq Event \ {e}
    BY JobTyped DEF IInv, RowsExist, TypeOK, Attempt
  <1>4. TypeOK'
    BY <1>1 DEF IInv, TypeOK
  <1>5. RowsExist'
    BY <1>1, <1>3, InsertedRowOpen DEF IInv, RowsExist, Busy, TypeOK, Settled
  <1>6. PublishedIsStored' /\ EvidenceMatchesVerdict' /\ OneResultPerAttempt'
    BY <1>1, <1>3, InsertedRowOpen
       DEF IInv, PublishedIsStored, EvidenceMatchesVerdict, OneResultPerAttempt
  <1>7. OlderAreDead'
    BY <1>1, <1>2 DEF IInv, OlderAreDead
  <1>8. AnswersAreReceipts' /\ NumbersAreOwn'
    BY <1>1, <1>3 DEF IInv, AnswersAreReceipts, NumbersAreOwn, Busy
  <1>9. AttemptsAreBounded'
    <2> SUFFICES ASSUME NEW d \in Event, ~Settled(outbox'[d])
                 PROVE  /\ outbox'[d].attempts <= MaxAttempts + faults
                        /\ Owned(d)' \/ outbox'[d].attempts < MaxAttempts + faults
      BY DEF AttemptsAreBounded, Settled
    <2>1. CASE d = e
      BY <2>1, <1>1, InsertedRowOpen, PolicyAssumption, DeliveryAssumption
         DEF IInv, TypeOK
    <2>2. CASE d # e
      <3>1. outbox'[d] = outbox[d]
        BY <2>2, <1>1
      <3>2. Owned(d) => Owned(d)'
        BY <3>1 DEF Owned, OwnsEvent, Owns, LeaseLive, Busy
      <3> QED BY <3>1, <3>2 DEF IInv, AttemptsAreBounded
    <2> QED BY <2>1, <2>2
  <1> QED BY <1>4, <1>5, <1>6, <1>7, <1>8, <1>9 DEF IInv

LEMMA EnqueueIInv ==
    ASSUME IInv, NEW k \in Key, Enqueue(k)
    PROVE  IInv'
  <1>1. <<k, 0>> \in Event
    BY Replays
  <1>2. \A d \in Event : ~(d[2] < 0)
    BY Replays
  <1> QED BY <1>1, <1>2, InsertKeeps DEF Enqueue

LEMMA ReplayIInv ==
    ASSUME IInv, NEW k \in Key, NEW g \in 0 .. MaxReplays - 1, ReplayDeadLetter(k, g)
    PROVE  IInv'
  <1>1. /\ <<k, g>> \in Event
        /\ <<k, g + 1>> \in Event
    BY Replays
  <1>2. outbox[<<k, g>>].deadLettered /\ ~outbox[<<k, g + 1>>].exists
    BY DEF ReplayDeadLetter, Replayable
  <1>3. outbox[<<k, g>>].exists
    BY <1>1, <1>2 DEF IInv, RowsExist, Settled
  <1>4. ASSUME NEW d \in Event, d[1] = k, d[2] < g + 1
        PROVE  outbox[d].deadLettered
    <2>1. d[2] \in 0 .. MaxReplays /\ d = <<k, d[2]>>
      BY <1>4, Replays
    <2>2. d = <<k, g>> \/ d[2] < g
      BY <2>1, <1>4
    <2> QED BY <1>1, <1>2, <1>3, <1>4, <2>2 DEF IInv, OlderAreDead
  <1> QED BY <1>1, <1>2, <1>4, InsertKeeps DEF ReplayDeadLetter

\* A dispatcher or the receiver learns something: no delivery starts or ends.
LEMMA KnowledgeKeeps ==
    ASSUME IInv,
           UNCHANGED <<outbox, attempts, faults>>,
           job' \in [Worker -> Job \cup {NoJob}],
           \A w \in Worker :
              /\ Busy(w)' <=> Busy(w)
              /\ Busy(w) => /\ job'[w].event = job[w].event
                            /\ job'[w].token = job[w].token
                            /\ job'[w].number = job[w].number,
           wire' \subseteq Event,
           \A e \in wire' : outbox[e].exists,
           stored' \subseteq Key, stored \subseteq stored',
           receipted' \subseteq Event, receipted \subseteq receipted',
           AnswersAreReceipts'
    PROVE  IInv'
  <1>1. TypeOK'
    BY DEF IInv, TypeOK
  <1>2. RowsExist' /\ EvidenceMatchesVerdict' /\ OneResultPerAttempt' /\ OlderAreDead'
    BY DEF IInv, RowsExist, EvidenceMatchesVerdict, OneResultPerAttempt, OlderAreDead
  <1>3. PublishedIsStored'
    BY DEF IInv, PublishedIsStored
  <1>4. NumbersAreOwn'
    BY DEF IInv, NumbersAreOwn
  <1>5. \A w \in Worker : Busy(w) => (OwnsEvent(w)' <=> OwnsEvent(w))
    BY DEF OwnsEvent
  <1>6. AttemptsAreBounded'
    <2>1. \A e \in Event : Owned(e) => Owned(e)'
      BY <1>5 DEF Owned
    <2> QED BY <2>1 DEF IInv, AttemptsAreBounded
  <1> QED BY <1>1, <1>2, <1>3, <1>4, <1>6 DEF IInv

\* The next step of a delivery is decided; a success needs a receipt.
LEMMA DecideKeeps ==
    ASSUME IInv, NEW w \in Worker, Busy(w),
           NEW step \in {"wait"} \cup Success \cup Failure,
           Decide(w, step),
           UNCHANGED <<outbox, attempts, faults>>,
           wire' \subseteq wire \cup {job[w].event},
           stored' \subseteq Key, stored \subseteq stored',
           receipted' \subseteq Event, receipted \subseteq receipted',
           step \in Success => job[w].event \in receipted' /\ job[w].event[1] \in stored'
    PROVE  IInv'
  <1>1. /\ job[w] \in Job
        /\ job[w].event \in Event
    BY JobTyped DEF IInv
  <1>2. /\ [job[w] EXCEPT !.step = step] \in Job
        /\ [job[w] EXCEPT !.step = step].event = job[w].event
        /\ [job[w] EXCEPT !.step = step].token = job[w].token
        /\ [job[w] EXCEPT !.step = step].number = job[w].number
        /\ [job[w] EXCEPT !.step = step].step = step
    BY <1>1 DEF Job
  <1>3. /\ job'[w] = [job[w] EXCEPT !.step = step]
        /\ \A v \in Worker : v # w => job'[v] = job[v]
        /\ job' \in [Worker -> Job \cup {NoJob}]
    BY <1>2 DEF Decide, IInv, TypeOK
  <1>4. \A v \in Worker :
              /\ Busy(v)' <=> Busy(v)
              /\ Busy(v) => /\ job'[v].event = job[v].event
                            /\ job'[v].token = job[v].token
                            /\ job'[v].number = job[v].number
    BY <1>2, <1>3, NoJobAssumption DEF Busy
  <1>5. wire' \subseteq Event /\ \A e \in wire' : outbox[e].exists
    BY <1>1 DEF IInv, TypeOK, RowsExist
  <1>6. AnswersAreReceipts'
    <2> SUFFICES ASSUME NEW v \in Worker, Busy(v)', job'[v].step \in Success
                 PROVE  job'[v].event \in receipted' /\ job'[v].event[1] \in stored'
      BY DEF AnswersAreReceipts
    <2>1. CASE v = w
      BY <1>2, <1>3, <2>1
    <2>2. CASE v # w
      BY <1>3, <1>4, <2>2 DEF IInv, AnswersAreReceipts
    <2> QED BY <2>1, <2>2
  <1> QED BY <1>3, <1>4, <1>5, <1>6, KnowledgeKeeps

LEMMA SendIInv ==
    ASSUME IInv, NEW w \in Worker, Send(w)
    PROVE  IInv'
  <1>1. Busy(w) /\ job[w].event \in Event /\ stored \subseteq Key /\ receipted \subseteq Event
    BY JobTyped DEF Send, At, IInv, TypeOK
  <1>2. PICK step \in {"wait", "PERMANENT_FAILURE"} :
          Decide(w, step) /\ wire' \subseteq wire \cup {job[w].event}
    BY DEF Send
  <1>3. step \in {"wait"} \cup Success \cup Failure /\ step \notin Success
    BY DEF Success, Failure
  <1> QED BY <1>1, <1>2, <1>3, DecideKeeps DEF Send

LEMMA FailIInv ==
    ASSUME IInv, NEW w \in Worker, Fail(w)
    PROVE  IInv'
  <1>1. Busy(w) /\ stored \subseteq Key /\ receipted \subseteq Event
    BY DEF Fail, At, IInv, TypeOK
  <1>2. PICK step \in Failure : Decide(w, step)
    BY DEF Fail
  <1>3. step \in {"wait"} \cup Success \cup Failure /\ step \notin Success
    BY DEF Success, Failure
  <1> QED BY <1>1, <1>2, <1>3, DecideKeeps DEF Fail

LEMMA ReceiveIInv ==
    ASSUME IInv, NEW w \in Worker, NEW e \in Event, Receive(w, e)
    PROVE  IInv'
  <1>1. PICK answer \in Success \cup {"PERMANENT_FAILURE"} :
          /\ IF answer \in Success
             THEN stored' = stored \cup {e[1]} /\ receipted' = receipted \cup {e}
             ELSE UNCHANGED <<stored, receipted>>
          /\ IF At(w, "wait") /\ job[w].event = e THEN Decide(w, answer)
             ELSE job' = job
    BY DEF Receive
  <1>2. /\ UNCHANGED <<outbox, wire, attempts, faults>>
        /\ stored' \subseteq Key /\ stored \subseteq stored'
        /\ receipted' \subseteq Event /\ receipted \subseteq receipted'
        /\ answer \in Success => e \in receipted' /\ e[1] \in stored'
    BY <1>1, Replays DEF Receive, IInv, TypeOK
  <1>3. CASE At(w, "wait") /\ job[w].event = e
    <2>1. answer \in {"wait"} \cup Success \cup Failure
      BY DEF Failure
    <2> QED BY <1>1, <1>2, <1>3, <2>1, DecideKeeps DEF At
  <1>4. CASE job' = job
    <2>1. AnswersAreReceipts'
      BY <1>2, <1>4 DEF IInv, AnswersAreReceipts, Busy
    <2>2. \A v \in Worker : Busy(v)' <=> Busy(v)
      BY <1>4 DEF Busy
    <2> QED BY <1>2, <1>4, <2>1, <2>2, KnowledgeKeeps DEF IInv, TypeOK, RowsExist
  <1> QED BY <1>1, <1>3, <1>4

LEMMA LoseIInv ==
    ASSUME IInv, NEW e \in Event, Lose(e)
    PROVE  IInv'
  <1>1. AnswersAreReceipts' /\ \A v \in Worker : Busy(v)' <=> Busy(v)
    BY DEF IInv, AnswersAreReceipts, Busy, Lose
  <1> QED BY <1>1, KnowledgeKeeps DEF Lose, IInv, TypeOK, RowsExist

\* A dispatcher forgets a delivery that it does not own any more, or crashes.
LEMMA ForgetKeeps ==
    ASSUME IInv, NEW w \in Worker, Busy(w),
           job' = [job EXCEPT ![w] = NoJob],
           UNCHANGED <<outbox, wire, stored, receipted, attempts>>,
           \/ faults' = faults /\ (Settled(outbox[job[w].event]) \/ ~OwnsEvent(w))
           \/ faults < MaxFaults /\ faults' = faults + 1
    PROVE  IInv'
  <1>1. /\ job' \in [Worker -> Job \cup {NoJob}]
        /\ ~Busy(w)'
        /\ \A v \in Worker : v # w => job'[v] = job[v] /\ (Busy(v)' <=> Busy(v))
    BY DEF IInv, TypeOK, Busy
  <1>2. faults \in Nat /\ faults' \in 0 .. MaxFaults
    BY DeliveryAssumption DEF IInv, TypeOK
  <1>3. TypeOK'
    BY <1>1, <1>2 DEF IInv, TypeOK
  <1>4. /\ RowsExist' /\ PublishedIsStored' /\ EvidenceMatchesVerdict'
        /\ OneResultPerAttempt' /\ OlderAreDead'
    BY <1>1 DEF IInv, RowsExist, PublishedIsStored, EvidenceMatchesVerdict,
                OneResultPerAttempt, OlderAreDead
  <1>5. AnswersAreReceipts' /\ NumbersAreOwn'
    BY <1>1 DEF IInv, AnswersAreReceipts, NumbersAreOwn
  <1>6. AttemptsAreBounded'
    <2> SUFFICES ASSUME NEW e \in Event, ~Settled(outbox[e])
                 PROVE  /\ outbox[e].attempts <= MaxAttempts + faults'
                        /\ Owned(e)' \/ outbox[e].attempts < MaxAttempts + faults'
      BY DEF AttemptsAreBounded
    <2>1. /\ outbox[e].attempts \in Nat
          /\ MaxAttempts \in Nat
          /\ outbox[e].attempts <= MaxAttempts + faults
          /\ Owned(e) \/ outbox[e].attempts < MaxAttempts + faults
      BY PolicyAssumption DEF IInv, TypeOK, Row, AttemptsAreBounded
    <2>2. CASE faults' = faults + 1
      BY <1>2, <2>1, <2>2
    <2>3. CASE faults' = faults /\ (Settled(outbox[job[w].event]) \/ ~OwnsEvent(w))
      <3>1. \A v \in Worker : v # w => (OwnsEvent(v)' <=> OwnsEvent(v))
        BY <1>1 DEF OwnsEvent
      <3>2. Owned(e) => Owned(e)'
        BY <1>1, <2>3, <3>1 DEF Owned
      <3> QED BY <2>1, <2>3, <3>2
    <2> QED BY <2>2, <2>3
  <1> QED BY <1>3, <1>4, <1>5, <1>6 DEF IInv

LEMMA CrashIInv ==
    ASSUME IInv, NEW w \in Worker, Crash(w)
    PROVE  IInv'
  BY ForgetKeeps DEF Crash

LEMMA ClaimNextIInv ==
    ASSUME IInv, NEW w \in Worker, ClaimNext(w)
    PROVE  IInv'
  <1>1. PICK t \in Token : t = FreshToken
    BY FreshTokenTyped DEF IInv
  <1>2. PICK e \in Event :
          /\ Claimable(outbox[e])
          /\ outbox' = [outbox EXCEPT ![e] = ClaimedRow(outbox[e], w, t)]
          /\ job' = [job EXCEPT ![w] =
                [event |-> e, token |-> t,
                 number |-> CountUp(outbox[e].attempts), step |-> "send"]]
    BY <1>1 DEF ClaimNext
  <1>3. /\ ~Busy(w)
        /\ UNCHANGED <<wire, stored, receipted, attempts, faults>>
    BY DEF ClaimNext
  <1> DEFINE row == outbox[e]
             next == ClaimedRow(row, w, t)
             n == row.attempts
             mine == [event |-> e, token |-> t, number |-> CountUp(n), step |-> "send"]
  <1>4. /\ row \in Row
        /\ row.exists
        /\ ~Settled(row) /\ ~row.published /\ ~row.deadLettered
        /\ ~LeaseLive(row)
    BY <1>2 DEF IInv, TypeOK, Claimable, Pending, Settled
  <1>5. /\ n \in Nat
        /\ n < MaxAttempts + faults
        /\ n < AttemptCap
        /\ CountUp(n) = n + 1
        /\ MaxAttempts \in Nat /\ faults \in Nat
    <2>1. ~Owned(e)
      BY <1>4 DEF Owned, OwnsEvent, Owns
    <2>2. n \in Nat /\ n < MaxAttempts + faults
      BY <1>4, <2>1 DEF IInv, AttemptsAreBounded, Row
    <2>3. n < AttemptCap
      BY <2>2, CounterAssumption, PolicyAssumption, DeliveryAssumption DEF IInv, TypeOK
    <2> QED BY <2>2, <2>3, PolicyAssumption, DeliveryAssumption DEF IInv, TypeOK, CountUp
  <1>6. /\ next \in Row
        /\ next.exists
        /\ ~Settled(next) /\ ~next.published /\ ~next.deadLettered
        /\ next.lease = [worker |-> w, token |-> t, left |-> LeaseSeconds]
        /\ next.attempts = n + 1
    <2>1. next.attempts = n + 1
      BY <1>4, <1>5 DEF ClaimedRow, Row
    <2> QED BY <1>4, <2>1, ClaimedRowProperties DEF Settled
  <1>7. mine \in Job /\ mine # NoJob
    <2>1. n + 1 \in 1 .. AttemptCap
      BY <1>5, PolicyAssumption
    <2> QED BY <1>5, <2>1, NoJobAssumption DEF Job
  <1>8. /\ mine.event = e /\ mine.token = t /\ mine.number = n + 1
        /\ mine.step \notin Success
    BY <1>5 DEF Success
  <1>9. /\ outbox'[e] = next
        /\ \A d \in Event : d # e => outbox'[d] = outbox[d]
        /\ outbox' \in [Event -> Row]
        /\ job'[w] = mine
        /\ \A v \in Worker : v # w => job'[v] = job[v] /\ (Busy(v)' <=> Busy(v))
        /\ job' \in [Worker -> Job \cup {NoJob}]
    BY <1>2, <1>6, <1>7 DEF IInv, TypeOK, Busy
  <1> HIDE DEF mine, next
  <1>10. TypeOK'
    BY <1>3, <1>9 DEF IInv, TypeOK
  <1>11. RowsExist'
    <2>1. \A d \in Event : /\ Settled(outbox'[d]) => outbox'[d].exists
                           /\ outbox[d].exists => outbox'[d].exists
      BY <1>6, <1>9 DEF IInv, RowsExist
    <2>2. \A v \in Worker : Busy(v)' => outbox'[job'[v].event].exists
      BY <1>6, <1>8, <1>9, <2>1, JobTyped DEF IInv, RowsExist
    <2> QED BY <1>3, <2>1, <2>2 DEF IInv, RowsExist, TypeOK, Attempt, Settled
  <1>12. /\ PublishedIsStored' /\ EvidenceMatchesVerdict'
         /\ OneResultPerAttempt' /\ OlderAreDead'
    BY <1>3, <1>4, <1>6, <1>9
       DEF IInv, PublishedIsStored, EvidenceMatchesVerdict, OneResultPerAttempt,
           OlderAreDead
  <1>13. AnswersAreReceipts'
    BY <1>3, <1>8, <1>9 DEF IInv, AnswersAreReceipts
  <1>14. NumbersAreOwn'
    <2>1. \A v \in Worker \ {w} : Busy(v) /\ job[v].event = e => job[v].number <= n
      BY DEF IInv, NumbersAreOwn
    <2>2. \A a \in attempts : a.event = e => a.number <= n
      BY DEF IInv, NumbersAreOwn
    <2>3. /\ \A v \in Worker : Busy(v) => job[v].number \in Int /\ job[v].event \in Event
          /\ \A a \in attempts : a.number \in Int /\ a.event \in Event
      BY JobTyped DEF IInv, TypeOK, Attempt
    <2>4. \A a \in attempts : a.number <= outbox'[a.event].attempts
      <3> SUFFICES ASSUME NEW a \in attempts PROVE a.number <= outbox'[a.event].attempts
        OBVIOUS
      <3>1. CASE a.event = e
        BY <1>5, <1>6, <1>9, <2>2, <2>3, <3>1
      <3>2. CASE a.event # e
        BY <1>9, <2>3, <3>2 DEF IInv, NumbersAreOwn
      <3> QED BY <3>1, <3>2
    <2>5. ASSUME NEW v \in Worker, Busy(v)'
          PROVE  /\ job'[v].number <= outbox'[job'[v].event].attempts
                 /\ \A a \in attempts :
                      a.event = job'[v].event => a.number # job'[v].number
      <3>1. CASE v = w
        BY <1>5, <1>6, <1>8, <1>9, <2>2, <2>3, <3>1
      <3>2. CASE v # w
        <4>1. /\ Busy(v) /\ job'[v] = job[v]
              /\ job[v].number <= outbox[job[v].event].attempts
              /\ \A a \in attempts : a.event = job[v].event => a.number # job[v].number
          BY <1>9, <2>5, <3>2 DEF IInv, NumbersAreOwn
        <4>2. job[v].number <= outbox'[job[v].event].attempts
          BY <1>5, <1>6, <1>9, <2>3, <4>1
        <4> QED BY <4>1, <4>2
      <3> QED BY <3>1, <3>2
    <2>6. ASSUME NEW u \in Worker, Busy(u)', NEW v \in Worker, Busy(v)',
                 job'[v].event = job'[u].event, job'[v].number = job'[u].number
          PROVE  v = u
      <3>1. CASE u # w /\ v # w
        BY <1>9, <2>6, <3>1 DEF IInv, NumbersAreOwn
      <3>2. CASE u = w /\ v # w
        BY <1>5, <1>8, <1>9, <2>1, <2>3, <2>6, <3>2
      <3>3. CASE u # w /\ v = w
        BY <1>5, <1>8, <1>9, <2>1, <2>3, <2>6, <3>3
      <3> QED BY <3>1, <3>2, <3>3
    <2> QED BY <1>3, <2>4, <2>5, <2>6 DEF NumbersAreOwn
  <1>15. AttemptsAreBounded'
    <2>1. Owned(e)'
      <3>1. LeaseSeconds > 0
        BY PolicyAssumption
      <3>2. outbox'[e].lease \in Lease /\ Busy(w)'
        BY <1>6, <1>7, <1>9, <3>1, PolicyAssumption DEF Lease, Busy
      <3>3. Owns(outbox'[e], w, t)
        BY <1>6, <1>9, <3>1, <3>2, NoLeaseAssumption DEF Owns, LeaseLive
      <3> QED BY <1>8, <1>9, <3>2, <3>3 DEF Owned, OwnsEvent
    <2>2. \A d \in Event : d # e /\ Owned(d) => Owned(d)'
      BY <1>3, <1>9 DEF Owned, OwnsEvent
    <2> QED BY <1>3, <1>5, <1>6, <1>9, <2>1, <2>2 DEF IInv, AttemptsAreBounded
  <1> QED BY <1>10, <1>11, <1>12, <1>13, <1>14, <1>15 DEF IInv

LEMMA TickIInv ==
    ASSUME IInv, Tick
    PROVE  IInv'
  <1>1. /\ UNCHANGED <<job, wire, stored, receipted, attempts>>
        /\ \A e \in Event : outbox[e] \in Row /\ outbox'[e] = AgedRow(outbox[e])
        /\ outbox' = [e \in Event |-> AgedRow(outbox[e])]
    BY DEF Tick, IInv, TypeOK
  <1>2. \A e \in Event :
          /\ outbox'[e] \in Row
          /\ outbox'[e].published = outbox[e].published
          /\ outbox'[e].deadLettered = outbox[e].deadLettered
          /\ outbox'[e].attempts = outbox[e].attempts
          /\ outbox'[e].exists = outbox[e].exists
    BY <1>1, AgedRowProperties
  <1>3. /\ faults \in 0 .. MaxFaults /\ faults' \in 0 .. MaxFaults
        /\ faults <= faults'
        /\ Overrun => faults' = faults + 1
    BY DeliveryAssumption DEF Tick, IInv, TypeOK
  <1>4. outbox' \in [Event -> Row]
    BY <1>1, <1>2
  <1>5. /\ \A w \in Worker : /\ Busy(w)' <=> Busy(w)
                             /\ Busy(w) => job[w].event \in Event
        /\ \A a \in attempts : a.event \in Event
        /\ wire \subseteq Event
    BY <1>1, JobTyped DEF Busy, IInv, TypeOK, Attempt
  <1>6. TypeOK'
    BY <1>1, <1>3, <1>4 DEF IInv, TypeOK
  <1>7. RowsExist'
    BY <1>1, <1>2, <1>5 DEF IInv, RowsExist, Settled
  <1>8. /\ PublishedIsStored' /\ EvidenceMatchesVerdict'
        /\ OneResultPerAttempt' /\ OlderAreDead'
    BY <1>1, <1>2 DEF IInv, PublishedIsStored, EvidenceMatchesVerdict,
                      OneResultPerAttempt, OlderAreDead
  <1>9. AnswersAreReceipts' /\ NumbersAreOwn'
    BY <1>1, <1>2, <1>5 DEF IInv, AnswersAreReceipts, NumbersAreOwn
  <1>10. AttemptsAreBounded'
    <2> SUFFICES ASSUME NEW e \in Event, ~Settled(outbox'[e])
                 PROVE  /\ outbox'[e].attempts <= MaxAttempts + faults'
                        /\ Owned(e)' \/ outbox'[e].attempts < MaxAttempts + faults'
      BY DEF AttemptsAreBounded
    <2>1. /\ outbox'[e].attempts \in Nat /\ outbox'[e].attempts = outbox[e].attempts
          /\ MaxAttempts \in Nat
          /\ outbox[e].attempts <= MaxAttempts + faults
          /\ Owned(e) \/ outbox[e].attempts < MaxAttempts + faults
      BY <1>2, PolicyAssumption DEF IInv, AttemptsAreBounded, Settled, Row
    <2>2. CASE ~Owned(e)
      BY <1>3, <2>1, <2>2
    <2>3. CASE Overrun
      BY <1>3, <2>1, <2>3
    <2>4. CASE Owned(e) /\ ~Overrun
      <3>1. PICK w \in Worker : Busy(w) /\ job[w].event = e /\ OwnsEvent(w)
        BY <2>4 DEF Owned
      <3>2. /\ outbox[e].lease # NoLease
            /\ outbox[e].lease \in Lease
            /\ outbox[e].lease.left > 0
            /\ outbox[e].lease.left # 1
            /\ outbox[e].lease.left \in Int
            /\ outbox[e].lease.worker = w
            /\ outbox[e].lease.token = job[w].token
        BY <1>1, <2>4, <3>1, PolicyAssumption
           DEF Overrun, OwnsEvent, Owns, LeaseLive, Row, Lease
      <3>3. /\ outbox'[e].lease # NoLease
            /\ outbox'[e].lease.worker = w
            /\ outbox'[e].lease.token = job[w].token
            /\ outbox'[e].lease.left = CountDown(outbox[e].lease.left)
        BY <1>1, <3>2, AgedRowProperties
      <3>4. outbox'[e].lease.left > 0
        BY <3>2, <3>3 DEF CountDown
      <3>5. Owned(e)'
        BY <1>1, <1>5, <3>1, <3>3, <3>4 DEF Owned, OwnsEvent, Owns, LeaseLive
      <3> QED BY <1>3, <2>1, <3>5
    <2> QED BY <2>2, <2>3, <2>4
  <1> QED BY <1>6, <1>7, <1>8, <1>9, <1>10 DEF IInv

\* A delivery ends and leaves its evidence.
LEMMA EvidenceIsOwn ==
    ASSUME IInv, NEW w \in Worker, Busy(w),
           job' = [job EXCEPT ![w] = NoJob],
           attempts' = attempts \cup {Evidence(w)},
           \A e \in Event : outbox'[e].attempts = outbox[e].attempts
    PROVE  OneResultPerAttempt' /\ NumbersAreOwn'
  <1>1. /\ Evidence(w).event = job[w].event
        /\ Evidence(w).number = job[w].number
        /\ job[w].event \in Event
    BY JobTyped DEF Evidence, IInv
  <1>2. \A v \in Worker : Busy(v)' => v # w /\ Busy(v) /\ job'[v] = job[v]
    BY DEF Busy, IInv, TypeOK
  <1>3. /\ \A v \in Worker : Busy(v) => job[v].event \in Event
        /\ \A a \in attempts : a.event \in Event
    BY JobTyped DEF IInv, TypeOK, Attempt
  <1>4. /\ job[w].number <= outbox[job[w].event].attempts
        /\ \A a \in attempts : a.event = job[w].event => a.number # job[w].number
    BY DEF IInv, NumbersAreOwn
  <1>5. OneResultPerAttempt'
    BY <1>1, <1>4 DEF IInv, OneResultPerAttempt
  <1>6. \A v \in Worker : Busy(v)' =>
          \A a \in attempts' : a.event = job[v].event => a.number # job[v].number
    BY <1>1, <1>2 DEF IInv, NumbersAreOwn
  <1>7. \A a \in attempts' : a.number <= outbox'[a.event].attempts
    BY <1>1, <1>3, <1>4 DEF IInv, NumbersAreOwn
  <1>8. NumbersAreOwn'
    BY <1>2, <1>3, <1>6, <1>7 DEF IInv, NumbersAreOwn
  <1> QED BY <1>5, <1>8

LEMMA SettleIInv ==
    ASSUME IInv, NEW w \in Worker, Settle(w)
    PROVE  IInv'
  <1> DEFINE e == job[w].event
             row == outbox[e]
             again == \/ row.published /\ job[w].step \in Success
                      \/ row.deadLettered /\ job[w].step \in Failure
             mine == ~Settled(row) /\ OwnsEvent(w)
  <1>1. /\ Busy(w)
        /\ job[w].step \in Success \cup Failure
        /\ job' = [job EXCEPT ![w] = NoJob]
        /\ UNCHANGED <<wire, stored, receipted, faults>>
        /\ attempts' = IF again \/ mine THEN attempts \cup {Evidence(w)} ELSE attempts
        /\ mine => \/ job[w].step \in Success
                      /\ outbox' = [outbox EXCEPT ![e] = PublishedRow(row)]
                   \/ job[w].step \in Failure
                      /\ outbox' = [outbox EXCEPT ![e] =
                            RejectedRow(row, job[w].step = "PERMANENT_FAILURE", TRUE)]
        /\ ~mine => outbox' = outbox
    BY DEF Settle
  <1>2. /\ job[w] \in Job
        /\ e \in Event
        /\ row \in Row
        /\ row.exists
    BY <1>1, JobTyped DEF IInv, RowsExist
  <1>3. /\ Evidence(w) \in Attempt
        /\ Evidence(w).event = e
        /\ Evidence(w).status = job[w].step
    BY <1>1, <1>2 DEF Evidence, Attempt, Job
  <1>4. Success \cap Failure = {}
    BY DEF Success, Failure
  <1>5. /\ job' \in [Worker -> Job \cup {NoJob}]
        /\ \A v \in Worker : Busy(v)' => v # w /\ Busy(v) /\ job'[v] = job[v]
        /\ \A v \in Worker : Busy(v) /\ v # w => Busy(v)' /\ job'[v] = job[v]
    BY <1>1 DEF Busy, IInv, TypeOK
  <1>6. AnswersAreReceipts'
    BY <1>1, <1>5 DEF IInv, AnswersAreReceipts
  <1> HIDE DEF again, mine
  <1>7. CASE ~mine /\ ~again
    BY <1>1, <1>7, ForgetKeeps DEF mine
  <1>8. CASE ~mine /\ again
    <2>1. /\ outbox' = outbox
          /\ attempts' = attempts \cup {Evidence(w)}
          /\ Settled(row)
      BY <1>1, <1>8 DEF again, Settled
    <2>2. TypeOK' /\ RowsExist'
      BY <1>1, <1>2, <1>3, <1>5, <2>1 DEF IInv, TypeOK, RowsExist
    <2>3. PublishedIsStored' /\ OlderAreDead'
      BY <1>1, <2>1 DEF IInv, PublishedIsStored, OlderAreDead
    <2>4. EvidenceMatchesVerdict'
      <3>1. ~(row.published /\ row.deadLettered)
        BY <1>2, OneVerdict DEF IInv
      <3> QED BY <1>2, <1>3, <1>4, <1>8, <2>1, <3>1 DEF again, IInv, EvidenceMatchesVerdict
    <2>5. OneResultPerAttempt' /\ NumbersAreOwn'
      BY <1>1, <2>1, EvidenceIsOwn
    <2>6. AttemptsAreBounded'
      <3>1. \A d \in Event : ~Settled(outbox[d]) /\ Owned(d) => Owned(d)'
        BY <1>5, <2>1 DEF Owned, OwnsEvent
      <3> QED BY <1>1, <2>1, <3>1 DEF IInv, AttemptsAreBounded
    <2> QED BY <1>6, <2>2, <2>3, <2>4, <2>5, <2>6 DEF IInv
  <1>9. CASE mine
    <2>1. PICK next \in Row :
            /\ outbox' = [outbox EXCEPT ![e] = next]
            /\ next.exists
            /\ next.attempts = row.attempts
            /\ \/ job[w].step \in Success /\ next.published /\ ~next.deadLettered
               \/ job[w].step \in Failure /\ ~next.published
            /\ Settled(next) \/ next.attempts < MaxAttempts
      <3>1. ~row.published /\ ~row.deadLettered
        BY <1>9 DEF mine, Settled
      <3>2. CASE job[w].step \in Success
        BY <1>1, <1>2, <1>4, <1>9, <3>1, <3>2, PublishedRowProperties DEF Settled
      <3>3. CASE job[w].step \in Failure
        <4>1. PICK force \in BOOLEAN, allow \in BOOLEAN :
                force = (job[w].step = "PERMANENT_FAILURE") /\ allow = TRUE
          OBVIOUS
        <4>2. outbox' = [outbox EXCEPT ![e] = RejectedRow(row, force, allow)]
          BY <1>1, <1>4, <1>9, <3>3, <4>1
        <4>3. /\ RejectedRow(row, force, allow) \in Row
              /\ RejectedRow(row, force, allow).exists
              /\ RejectedRow(row, force, allow).attempts = row.attempts
              /\ ~RejectedRow(row, force, allow).published
          BY <1>2, <3>1, RejectedRowProperties
        <4>4. \/ RejectedRow(row, force, allow).deadLettered
              \/ row.attempts < MaxAttempts
          BY <1>2, <4>1, PolicyAssumption DEF RejectedRow, DeadLetteredRow, Row
        <4> QED BY <3>3, <4>2, <4>3, <4>4 DEF Settled
      <3> QED BY <1>1, <3>2, <3>3
    <2>2. /\ attempts' = attempts \cup {Evidence(w)}
          /\ ~Settled(row) /\ ~row.published /\ ~row.deadLettered
      BY <1>1, <1>9 DEF mine, Settled
    <2>3. /\ outbox'[e] = next
          /\ \A d \in Event : d # e => outbox'[d] = outbox[d]
          /\ outbox' \in [Event -> Row]
          /\ \A d \in Event : outbox'[d].attempts = outbox[d].attempts
      BY <1>2, <2>1 DEF IInv, TypeOK
    <2>4. TypeOK'
      BY <1>1, <1>3, <1>5, <2>2, <2>3 DEF IInv, TypeOK
    <2>5. RowsExist'
      <3>1. \A d \in Event : /\ Settled(outbox'[d]) => outbox'[d].exists
                             /\ outbox[d].exists => outbox'[d].exists
        BY <2>1, <2>3 DEF IInv, RowsExist
      <3>2. \A v \in Worker : Busy(v) => job[v].event \in Event
        BY JobTyped DEF IInv
      <3>3. wire \subseteq Event /\ \A a \in attempts : a.event \in Event
        BY DEF IInv, TypeOK, Attempt
      <3> QED BY <1>1, <1>2, <1>3, <1>5, <2>2, <3>1, <3>2, <3>3 DEF IInv, RowsExist, Settled
    <2>6. PublishedIsStored'
      <3>1. job[w].step \in Success => e \in receipted /\ e[1] \in stored
        BY <1>1 DEF IInv, AnswersAreReceipts
      <3> QED BY <1>1, <1>4, <2>1, <2>3, <3>1 DEF IInv, PublishedIsStored
    <2>7. EvidenceMatchesVerdict'
      <3> SUFFICES ASSUME NEW d \in Event
                   PROVE  LET of == {a \in attempts' : a.event = d} IN
                          /\ outbox'[d].published => \E a \in of : a.status \in Success
                          /\ outbox'[d].deadLettered =>
                                /\ of # {}
                                /\ \A a \in of : a.status \in Failure
                          /\ (\E a \in of : a.status \in Success) => outbox'[d].published
        BY DEF EvidenceMatchesVerdict
      <3>1. CASE d # e
        BY <1>3, <2>2, <2>3, <3>1 DEF IInv, EvidenceMatchesVerdict
      <3>2. CASE d = e
        <4>1. \A a \in attempts : a.event = e => a.status \in Failure
          BY <1>2, <2>2 DEF IInv, TypeOK, Attempt, EvidenceMatchesVerdict
        <4> QED BY <1>3, <1>4, <2>1, <2>2, <2>3, <3>2, <4>1
      <3> QED BY <3>1, <3>2
    <2>8. OneResultPerAttempt' /\ NumbersAreOwn'
      BY <1>1, <2>2, <2>3, EvidenceIsOwn
    <2>9. OlderAreDead'
      BY <1>2, <2>1, <2>2, <2>3 DEF IInv, OlderAreDead
    <2>10. AttemptsAreBounded'
      <3>1. \A d \in Event : d # e /\ Owned(d) => Owned(d)'
        BY <1>5, <2>3 DEF Owned, OwnsEvent
      <3>2. /\ next.attempts \in Nat /\ MaxAttempts \in Nat /\ faults \in Nat
        BY PolicyAssumption, DeliveryAssumption DEF Row, IInv, TypeOK
      <3> QED BY <1>1, <2>1, <2>3, <3>1, <3>2 DEF IInv, AttemptsAreBounded
    <2> QED BY <1>6, <2>4, <2>5, <2>6, <2>7, <2>8, <2>9, <2>10 DEF IInv
  <1> QED BY <1>7, <1>8, <1>9

LEMMA NextIInv == IInv /\ [Next]_vars => IInv'
  <1> SUFFICES ASSUME IInv, [Next]_vars PROVE IInv'
    OBVIOUS
  <1>1. CASE UNCHANGED vars
    BY <1>1 DEF vars, IInv, TypeOK, RowsExist, PublishedIsStored,
                EvidenceMatchesVerdict, OneResultPerAttempt, OlderAreDead,
                AnswersAreReceipts, NumbersAreOwn, AttemptsAreBounded, Owned,
                OwnsEvent, Busy
  <1> QED
    BY <1>1, EnqueueIInv, ReplayIInv, ClaimNextIInv, SendIInv, FailIInv, SettleIInv,
       CrashIInv, ReceiveIInv, LoseIInv, TickIInv DEF Next

\* Every reachable state satisfies the inductive invariant.
THEOREM Invariance == Spec => []IInv
  <1> QED BY InitIInv, NextIInv, PTL DEF Spec

\* What the rows, the evidence and the receiver say agrees: published rows are
\* stored and confirmed, a verdict has its evidence, a delivery has one result
\* and a replay follows a dead letter.
THEOREM DeliveryHolds == Spec => []DeliveryStands
  <1>1. OlderAreDead => OneDeliverableRow
    <2> SUFFICES ASSUME OlderAreDead, NEW k \in Key, NEW g \in 0 .. MaxReplays - 1,
                        outbox[<<k, g + 1>>].exists
                 PROVE  outbox[<<k, g>>].deadLettered
      BY DEF OneDeliverableRow
    <2>1. <<k, g>> \in Event /\ <<k, g + 1>> \in Event
      BY Replays
    <2>2. /\ <<k, g>>[1] = <<k, g + 1>>[1]
          /\ <<k, g>>[2] < <<k, g + 1>>[2]
      OBVIOUS
    <2> QED BY <2>1, <2>2 DEF OlderAreDead
  <1>2. IInv => DeliveryStands
    BY <1>1 DEF IInv, DeliveryStands
  <1> QED BY <1>2, Invariance, PTL

\* Replays never put two rows of a business event on their way.
THEOREM OneRowIsLive == Spec => []OneLiveRow
  <1>1. IInv => OneLiveRow
    <2> SUFFICES ASSUME IInv, NEW d \in Event, NEW e \in Event, d[1] = e[1],
                        outbox[d].exists, ~outbox[d].deadLettered,
                        outbox[e].exists, ~outbox[e].deadLettered
                 PROVE  d = e
      BY DEF OneLiveRow
    <2>1. ~(d[2] < e[2]) /\ ~(e[2] < d[2])
      BY DEF IInv, OlderAreDead
    <2>2. d[2] = e[2]
      BY <2>1, Replays
    <2> QED BY <2>2, Replays
  <1> QED BY <1>1, Invariance, PTL

\* Only crashes and expired leases let a dispatcher claim a row beyond the
\* attempts of the policy.
THEOREM ClaimsBounded == Spec => []ClaimsAreBounded
  <1>1. IInv => ClaimsAreBounded
    BY DEF IInv, AttemptsAreBounded, ClaimsAreBounded
  <1> QED BY <1>1, Invariance, PTL
-----------------------------------------------------------------------------
(* IntegrationDelivery implements the safety part of DurableDelivery.        *)

status == [e \in Event |-> Status(outbox[e])]

done == [e \in Event |-> e \in receipted]

\* The status of a row that exists.
LEMMA StatusOfRow ==
    ASSUME NEW row \in Row
    PROVE  /\ ~row.exists => Status(row) = "absent"
           /\ row.exists /\ row.published => Status(row) = "published"
           /\ row.exists /\ ~row.published /\ row.deadLettered => Status(row) = "dead"
           /\ row.exists /\ ~row.published /\ ~row.deadLettered
                => Status(row) = "pending"
  BY DEF Status, Row

\* A step that changes one row changes at most its status.
LEMMA OneStatus ==
    ASSUME IInv, NEW d \in Event, NEW r \in Row,
           outbox' = [outbox EXCEPT ![d] = r]
    PROVE  status' = [status EXCEPT ![d] = Status(r)]
  BY DEF IInv, TypeOK, status

LEMMA InsertRefines ==
    ASSUME IInv, NEW e \in Event, ~outbox[e].exists,
           outbox' = [outbox EXCEPT ![e] = InsertedRow],
           receipted' = receipted
    PROVE  Promise!Next
  <1>1. InsertedRow \in Row /\ outbox[e] \in Row
    BY RowTyped DEF IInv, TypeOK
  <1>2. Status(InsertedRow) = "pending"
    BY <1>1, StatusOfRow, InsertedRowOpen
  <1>3. status' = [status EXCEPT ![e] = "pending"]
    BY <1>1, <1>2, OneStatus
  <1>4. status[e] = "absent"
    BY <1>1, StatusOfRow DEF status
  <1>5. done' = done
    BY DEF done
  <1> QED BY <1>3, <1>4, <1>5 DEF Promise!Next, Promise!Enqueue, status, done

LEMMA ClaimNextRefines ==
    ASSUME IInv, NEW w \in Worker, ClaimNext(w)
    PROVE  status' = status /\ done' = done
  <1>1. PICK t \in Token : t = FreshToken
    BY FreshTokenTyped DEF IInv
  <1>2. PICK e \in Event : outbox' = [outbox EXCEPT ![e] = ClaimedRow(outbox[e], w, t)]
    BY <1>1 DEF ClaimNext
  <1>3. outbox[e] \in Row
    BY DEF IInv, TypeOK
  <1>4. /\ ClaimedRow(outbox[e], w, t) \in Row
        /\ Status(ClaimedRow(outbox[e], w, t)) = Status(outbox[e])
    <2>1. /\ ClaimedRow(outbox[e], w, t) \in Row
          /\ ClaimedRow(outbox[e], w, t).published = outbox[e].published
          /\ ClaimedRow(outbox[e], w, t).deadLettered = outbox[e].deadLettered
          /\ ClaimedRow(outbox[e], w, t).exists = outbox[e].exists
      BY <1>3, ClaimedRowProperties
    <2> QED BY <2>1 DEF Status
  <1>5. status' = [status EXCEPT ![e] = Status(outbox[e])]
    BY <1>2, <1>4, OneStatus
  <1> QED BY <1>5 DEF ClaimNext, status, done

\* The receiver does the work of a row when it signs a receipt for it, also
\* when the row has its verdict already.
LEMMA ReceiveRefines ==
    ASSUME IInv, NEW w \in Worker, NEW e \in Event, Receive(w, e)
    PROVE  Promise!Next \/ (status' = status /\ done' = done)
  <1>1. /\ outbox' = outbox /\ outbox[e] \in Row /\ outbox[e].exists
        /\ receipted' = receipted \/ receipted' = receipted \cup {e}
    BY DEF Receive, IInv, TypeOK, RowsExist
  <1>2. status' = status /\ status[e] # "absent"
    <2>1. Status(outbox[e]) # "absent"
      BY <1>1, StatusOfRow DEF Row
    <2> QED BY <1>1, <2>1 DEF status
  <1>3. done' = done \/ done' = [done EXCEPT ![e] = TRUE]
    <2>1. CASE receipted' = receipted
      BY <2>1 DEF done
    <2>2. CASE receipted' = receipted \cup {e}
      <3>1. ASSUME NEW d \in Event
            PROVE  done'[d] = (IF d = e THEN TRUE ELSE done[d])
        <4>1. done'[d] = (d \in receipted') /\ done[d] = (d \in receipted)
          BY Zenon DEF done
        <4>2. CASE d = e
          <5>1. (d \in receipted') = TRUE
            BY <2>2, <4>2
          <5> QED BY <4>1, <4>2, <5>1, Zenon
        <4>3. CASE d # e
          <5>1. (d \in receipted') = (d \in receipted)
            BY <2>2, <4>3
          <5> QED BY <4>1, <4>3, <5>1, Zenon
        <4> QED BY <4>2, <4>3
      <3>2. /\ done' = [d \in Event |-> done'[d]]
            /\ [done EXCEPT ![e] = TRUE]
                 = [d \in Event |-> IF d = e THEN TRUE ELSE done[d]]
        BY Zenon DEF done
      <3> QED BY <3>1, <3>2, Zenon
    <2> QED BY <1>1, <2>1, <2>2
  <1> QED BY <1>2, <1>3 DEF Promise!Next, Promise!Work, status, done

LEMMA SettleRefines ==
    ASSUME IInv, NEW w \in Worker, Settle(w)
    PROVE  Promise!Next \/ (status' = status /\ done' = done)
  <1> DEFINE e == job[w].event
             row == outbox[e]
  <1>1. /\ e \in Event
        /\ row \in Row
        /\ row.exists
        /\ done' = done
        /\ job[w].step \in Success => done[e]
    BY JobTyped DEF Settle, IInv, RowsExist, AnswersAreReceipts, done
  <1>2. CASE outbox' = outbox
    BY <1>1, <1>2 DEF status
  <1>3. CASE ~Settled(row) /\ outbox' # outbox
    <2>1. PICK force \in BOOLEAN, allow \in BOOLEAN :
            force = (job[w].step = "PERMANENT_FAILURE") /\ allow = TRUE
      OBVIOUS
    <2>2. status[e] = "pending" /\ ~row.published /\ ~row.deadLettered
      BY <1>1, <1>3, StatusOfRow DEF status, Settled
    <2>3. CASE job[w].step \in Success /\ outbox' = [outbox EXCEPT ![e] = PublishedRow(row)]
      <3>1. PublishedRow(row) \in Row /\ Status(PublishedRow(row)) = "published"
        BY <1>1, PublishedRowProperties, StatusOfRow
      <3>2. status' = [status EXCEPT ![e] = "published"]
        BY <1>1, <2>3, <3>1, OneStatus
      <3> QED BY <1>1, <2>2, <2>3, <3>2 DEF Promise!Next, Promise!Publish, status, done
    <2>4. CASE outbox' = [outbox EXCEPT ![e] = RejectedRow(row, force, allow)]
      <3>1. /\ RejectedRow(row, force, allow) \in Row
            /\ ~RejectedRow(row, force, allow).published
            /\ RejectedRow(row, force, allow).exists
        BY <1>1, <2>2, RejectedRowProperties
      <3>2. \/ Status(RejectedRow(row, force, allow)) = "dead"
            \/ Status(RejectedRow(row, force, allow)) = "pending"
        BY <3>1, StatusOfRow DEF Row
      <3>3. status' = [status EXCEPT ![e] = Status(RejectedRow(row, force, allow))]
        BY <1>1, <2>4, <3>1, OneStatus
      <3>4. CASE Status(RejectedRow(row, force, allow)) = "dead"
        BY <1>1, <2>2, <3>3, <3>4 DEF Promise!Next, Promise!DeadLetter, status, done
      <3>5. CASE Status(RejectedRow(row, force, allow)) = "pending"
        BY <1>1, <2>2, <3>3, <3>5 DEF status
      <3> QED BY <3>2, <3>4, <3>5
    <2> QED BY <1>3, <2>1, <2>3, <2>4 DEF Settle
  <1> QED BY <1>2, <1>3 DEF Settle

LEMMA TickRefines ==
    ASSUME IInv, Tick
    PROVE  status' = status /\ done' = done
  <1>1. \A e \in Event :
          /\ outbox'[e].published = outbox[e].published
          /\ outbox'[e].deadLettered = outbox[e].deadLettered
          /\ outbox'[e].exists = outbox[e].exists
    <2>1. \A e \in Event : outbox[e] \in Row /\ outbox'[e] = AgedRow(outbox[e])
      BY DEF IInv, TypeOK, Tick
    <2> QED BY <2>1, AgedRowProperties
  <1> QED BY <1>1 DEF Tick, status, done, Status

\* Every step maps to a step of DurableDelivery or to a stutter.
LEMMA StepRefines ==
    ASSUME IInv, [Next]_vars
    PROVE  [Promise!Next]_(Promise!vars)
  <1> SUFFICES Promise!Next \/ (status' = status /\ done' = done)
    BY DEF Promise!vars, status, done
  <1>1. CASE UNCHANGED vars
    BY <1>1 DEF vars, status, done
  <1>2. ASSUME NEW k \in Key, Enqueue(k) PROVE Promise!Next
    <2>1. <<k, 0>> \in Event
      BY Replays
    <2> QED BY <1>2, <2>1, InsertRefines DEF Enqueue
  <1>3. ASSUME NEW k \in Key, NEW g \in 0 .. MaxReplays - 1, ReplayDeadLetter(k, g)
        PROVE  Promise!Next
    <2>1. <<k, g + 1>> \in Event
      BY Replays
    <2> QED BY <1>3, <2>1, InsertRefines DEF ReplayDeadLetter, Replayable
  <1>4. ASSUME NEW w \in Worker, Send(w) \/ Fail(w) \/ Crash(w)
        PROVE  status' = status /\ done' = done
    BY <1>4 DEF Send, Fail, Crash, status, done
  <1>5. ASSUME NEW e \in Event, Lose(e)
        PROVE  status' = status /\ done' = done
    BY <1>5 DEF Lose, status, done
  <1> QED BY <1>1, <1>2, <1>3, <1>4, <1>5, ClaimNextRefines, ReceiveRefines,
             SettleRefines, TickRefines DEF Next

LEMMA InitRefines == Init => Promise!Init
  <1> SUFFICES ASSUME Init PROVE Promise!Init
    OBVIOUS
  <1>1. Status(AbsentRow) = "absent"
    BY RowTyped, StatusOfRow DEF AbsentRow
  <1>2. /\ status = [e \in Event |-> "absent"]
        /\ done = [e \in Event |-> FALSE]
    <2>1. status = [e \in Event |-> "absent"]
      BY <1>1 DEF Init, status
    <2>2. \A e \in Event : (e \in receipted) = FALSE
      BY DEF Init
    <2>3. done = [e \in Event |-> FALSE]
      BY <2>2, Zenon DEF done
    <2> QED BY <2>1, <2>3
  <1> QED BY <1>2 DEF Promise!Init, status, done

\* Dispatcher, network and receiver together keep the promise of
\* DurableDelivery: a row is published only after the receiver confirmed it,
\* and its one verdict is final.
THEOREM DeliveryKeepsPromise == Spec => Promise!Safety
  <1>1. Init => Promise!Init
    BY InitRefines
  <1>2. IInv /\ [Next]_vars => [Promise!Next]_(Promise!vars)
    BY StepRefines
  <1> QED BY <1>1, <1>2, Invariance, PTL DEF Spec, Promise!Safety
=============================================================================
